--------------------------- MODULE MCCloudUplink ---------------------------
(* CloudUplink for TLC, with minutes and hours short enough for the clock to wrap; a   *)
(* callback sees one user, or two of whom one comes second; for the marks, either one.  *)
EXTENDS CloudUplink
CONSTANTS u1, u2
SomeBoxes == {<<u1>>, <<u2, u1>>}
OneByOne == {<<u1>>, <<u2>>}
=============================================================================
