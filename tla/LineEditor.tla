----------------------------- MODULE LineEditor -----------------------------
(***************************************************************************)
(* What the console's command line promises its user: the text before and  *)
(* the text behind a cursor, and a list of earlier lines, newest first, to *)
(* choose from.                                                            *)
(***************************************************************************)
EXTENDS Naturals, Sequences

CONSTANTS Char, Space, LineMax, PastMax

VARIABLES left, right, past

line == left \o right

Insert(t)  == left' = left \o t /\ UNCHANGED <<right, past>>
Typed      == Len(line) < LineMax /\ \E c \in Char : Insert(<<c>>)
Indent     == \E n \in 1 .. 4 :
                /\ Len(line) + n <= LineMax
                /\ Insert([k \in 1 .. n |-> Space])
Erase      == /\ left # << >>
              /\ left' = SubSeq(left, 1, Len(left) - 1) /\ UNCHANGED <<right, past>>
CutLeft    == left' = << >> /\ right' = << >> /\ UNCHANGED past
CutRight   == right' = << >> /\ UNCHANGED <<left, past>>
GoTo       == \E n \in 0 .. Len(line) :
                /\ left' = SubSeq(line, 1, n) /\ right' = SubSeq(line, n + 1, Len(line))
                /\ UNCHANGED past
Recall     == /\ left' \in {past[i] : i \in 1 .. Len(past)} \union {<< >>}
              /\ right' = << >> /\ UNCHANGED past

(* The line is run; it becomes the newest of the earlier lines, or is not  *)
(* kept at all.                                                            *)
Run == /\ left' = << >> /\ right' = << >>
       /\ \/ UNCHANGED past
          \/ line # << >> /\ past' = SubSeq(<<line>> \o past, 1,
                               IF Len(past) < PastMax THEN Len(past) + 1 ELSE PastMax)

Init == left = << >> /\ right = << >> /\ past = << >>
Next == \/ Typed \/ Indent \/ Erase \/ CutLeft \/ CutRight \/ GoTo \/ Recall \/ Run
Spec == Init /\ [][Next]_<<left, right, past>>
=============================================================================
