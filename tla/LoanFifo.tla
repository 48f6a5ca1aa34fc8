------------------------------ MODULE LoanFifo ------------------------------
(***************************************************************************)
(* What a queue of preallocated blanks promises its clients, whatever      *)
(* bookkeeping is behind it.  A producer borrows a blank, hands it back    *)
(* carrying a frame, and the loaded blanks come out in the order they went *)
(* in, each to one consumer, which keeps an unchanging view of its frame   *)
(* until it gives the blank back.                                          *)
(***************************************************************************)
EXTENDS Naturals, Sequences, FiniteSets

CONSTANTS Producers, Consumers, Blanks, Frames,
          MaxLent,      \* the blanks producers may have out at one time
          MaxHeld       \* the frames consumers may hold at one time

VARIABLES lent,         \* producer -> the blanks it has borrowed
          fifo,         \* the loaded blanks handed in and not yet taken
          held          \* consumer -> the loaded blanks it is reading

vars == <<lent, fifo, held>>

Loaded == [blank : Blanks, frame : Frames]

Lent == UNION {lent[p] : p \in Producers}
Held == UNION {held[c] : c \in Consumers}

InUse(b) == \/ b \in Lent
            \/ \E i \in DOMAIN fifo : fifo[i].blank = b
            \/ \E l \in Held : l.blank = b

Init == /\ lent = [p \in Producers |-> {}]
        /\ fifo = <<>>
        /\ held = [c \in Consumers |-> {}]

Borrow(p, b) == /\ ~InUse(b)
                /\ Cardinality(Lent) < MaxLent
                /\ lent' = [lent EXCEPT ![p] = @ \cup {b}]
                /\ UNCHANGED <<fifo, held>>

HandIn(p, l) == /\ l.blank \in lent[p]
                /\ lent' = [lent EXCEPT ![p] = @ \ {l.blank}]
                /\ fifo' = Append(fifo, l)
                /\ UNCHANGED held

Take(c) == /\ fifo # <<>>
           /\ Cardinality(Held) < MaxHeld
           /\ held' = [held EXCEPT ![c] = @ \cup {Head(fifo)}]
           /\ fifo' = Tail(fifo)
           /\ UNCHANGED lent

GiveBack(c, l) == /\ l \in held[c]
                  /\ held' = [held EXCEPT ![c] = @ \ {l}]
                  /\ UNCHANGED <<lent, fifo>>

Next == \/ \E p \in Producers : \/ \E b \in Blanks : Borrow(p, b)
                                \/ \E l \in Loaded : HandIn(p, l)
        \/ \E c \in Consumers : \/ Take(c)
                                \/ \E l \in Loaded : GiveBack(c, l)

Spec == Init /\ [][Next]_vars
=============================================================================
