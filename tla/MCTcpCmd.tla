------------------------------ MODULE MCTcpCmd ------------------------------
(* TcpCmd for TLC: scripts of a few packets, which the buffer can hold while they are     *)
(* waited for, but for the last: it leaves no room for a recv, and its size is no         *)
(* positive int.                                                                          *)
EXTENDS TcpCmd, TLC

CONSTANTS a, b

Packet(i, t, n, m, before, p) ==
    [id |-> i, type |-> t, total |-> n, cur |-> m, at |-> before, pos |-> p]

\* Two commands in parts about one without data, the first with an empty last part.
ScriptA == <<Packet(1, "start", 3, 1, 0, 0), Packet(1, "mid", 3, 2, 1, 4), Packet(1, "end", 3, 0, 3, 9),
             Packet(2, "single", 0, 0, 0, 12),
             Packet(3, "start", 3, 2, 0, 15), Packet(3, "end", 3, 1, 2, 20)>>
ScriptB == <<Packet(4, "start", 2, 1, 0, 0), Packet(4, "end", 2, 1, 1, 4),
             Packet(5, "single", 10, 10, 0, 8)>>
Scripts == a :> ScriptA @@ b :> ScriptB
=============================================================================
