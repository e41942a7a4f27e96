----------------------------- MODULE LossyFifo -----------------------------
(***************************************************************************)
(* What kernel/input.c promises: a bounded first-in first-out queue that   *)
(* drops an event only when it is full.                                    *)
(***************************************************************************)
EXTENDS Naturals, Sequences

CONSTANTS Event, Capacity

VARIABLES fifo,  \* the events waiting
          out,   \* the events taken out, in order
          lost   \* how many events were dropped

vars == <<fifo, out, lost>>

Init == fifo = << >> /\ out = << >> /\ lost = 0

Push == /\ Len(fifo) < Capacity
        /\ \E e \in Event : fifo' = Append(fifo, e)
        /\ UNCHANGED <<out, lost>>

Drop == Len(fifo) = Capacity /\ lost' = lost + 1 /\ UNCHANGED <<fifo, out>>

Pop  == /\ fifo # << >>
        /\ fifo' = Tail(fifo) /\ out' = Append(out, Head(fifo))
        /\ UNCHANGED lost

Next == Push \/ Drop \/ Pop
Spec == Init /\ [][Next]_vars
=============================================================================
