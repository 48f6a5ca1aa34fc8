--------------------------- MODULE MCVideoStream ---------------------------
(* VideoStream for TLC: packets of six bytes and the sizes around every boundary of       *)
(* handleFrame: small, too short for a full packet, exactly full packets, and a rest.     *)
EXTENDS VideoStream
=============================================================================
