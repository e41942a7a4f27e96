---------------------------- MODULE InputProofs -----------------------------
(***************************************************************************)
(* Proofs about the way from the key to the console: the ring for every    *)
(* size and any number of events, the decoder for every set of the         *)
(* modelled keys, whatever waits on the wire and whatever the ring drops.  *)
(***************************************************************************)
EXTENDS InputPath, TLAPS

-----------------------------------------------------------------------------
(* Indices of the ring, and the sequence it stands for.                    *)

Between(r, w) == (w - r) % QUEUE_SIZE
At(r, i)      == (r + i - 1) % QUEUE_SIZE
Ring(q, r, w) == [i \in 1 .. Between(r, w) |-> q[At(r, i)]]
Content       == [Index -> Event \union {NoEvent}]

(* The three ranges in which remainders are taken.                         *)
LEMMA Remainder ==
  ASSUME NEW x \in Int
  PROVE  /\ x \in 0 .. QUEUE_SIZE - 1 => x % QUEUE_SIZE = x
         /\ x \in QUEUE_SIZE .. 2 * QUEUE_SIZE - 1 => x % QUEUE_SIZE = x - QUEUE_SIZE
         /\ x \in -QUEUE_SIZE .. -1 => x % QUEUE_SIZE = x + QUEUE_SIZE
  BY InputAssumption

(* The successor of an index wraps at the end of the ring.                 *)
LEMMA SuccIs ==
  ASSUME NEW i \in Index
  PROVE  Succ(i) \in Index /\ Succ(i) = (IF i = QUEUE_SIZE - 1 THEN 0 ELSE i + 1)
  BY InputAssumption, Remainder DEF Succ, Index

(* How many entries lie between two indices.                               *)
LEMMA BetweenIs ==
  ASSUME NEW r \in Index, NEW w \in Index
  PROVE  /\ Between(r, w) \in 0 .. QUEUE_SIZE - 1
         /\ Between(r, w) = (IF w >= r THEN w - r ELSE w - r + QUEUE_SIZE)
<1>1. QUEUE_SIZE \in Nat \ {0, 1} /\ r \in 0 .. QUEUE_SIZE - 1 /\ w \in 0 .. QUEUE_SIZE - 1
  BY InputAssumption DEF Index
<1>2. w - r \in -QUEUE_SIZE .. QUEUE_SIZE - 1
  BY <1>1
<1>3. QED
  BY <1>1, <1>2, Remainder DEF Between

(* Where the i-th entry after an index lies.                               *)
LEMMA AtIs ==
  ASSUME NEW r \in Index, NEW i \in 1 .. QUEUE_SIZE
  PROVE  /\ At(r, i) \in Index
         /\ At(r, i) = (IF r + i - 1 < QUEUE_SIZE THEN r + i - 1
                        ELSE r + i - 1 - QUEUE_SIZE)
<1>1. QUEUE_SIZE \in Nat \ {0, 1} /\ r \in 0 .. QUEUE_SIZE - 1
  BY InputAssumption DEF Index
<1>2. r + i - 1 \in 0 .. 2 * QUEUE_SIZE - 1
  BY <1>1
<1>3. QED
  BY <1>1, <1>2, Remainder DEF At, Index

(* Two sequences with the same elements are the same.                      *)
LEMMA SameSequence ==
  ASSUME NEW S, NEW s \in Seq(S), NEW t \in Seq(S), Len(s) = Len(t),
         \A i \in 1 .. Len(s) : s[i] = t[i]
  PROVE  s = t
  OBVIOUS

(* The ring is a sequence of what lies between its indices.                *)
LEMMA RingIs ==
  ASSUME NEW q \in Content, NEW r \in Index, NEW w \in Index
  PROVE  /\ Ring(q, r, w) \in Seq(Event \union {NoEvent})
         /\ Len(Ring(q, r, w)) = Between(r, w)
         /\ Between(r, w) \in 0 .. QUEUE_SIZE - 1
         /\ \A i \in 1 .. Between(r, w) : Ring(q, r, w)[i] = q[At(r, i)]
<1>1. Between(r, w) \in 0 .. QUEUE_SIZE - 1 /\ QUEUE_SIZE \in Nat \ {0, 1}
  BY BetweenIs, InputAssumption
<1>2. \A i \in 1 .. Between(r, w) : i \in 1 .. QUEUE_SIZE
  BY <1>1
<1>3. \A i \in 1 .. Between(r, w) : q[At(r, i)] \in Event \union {NoEvent}
  BY <1>2, AtIs DEF Content
<1> HIDE DEF Between, At
<1>4. QED
  BY <1>1, <1>3 DEF Ring

(* input_push into a ring that has room appends to the sequence.           *)
LEMMA RingPush ==
  ASSUME NEW q \in Content, NEW r \in Index, NEW w \in Index, NEW e \in Event,
         Succ(w) # r
  PROVE  /\ [q EXCEPT ![w] = e] \in Content
         /\ Len(Ring(q, r, w)) < QUEUE_SIZE - 1
         /\ Ring([q EXCEPT ![w] = e], r, Succ(w)) = Append(Ring(q, r, w), e)
<1> DEFINE q2 == [q EXCEPT ![w] = e]
           n  == Between(r, w)
           s  == Ring(q, r, w)
           s2 == Ring(q2, r, Succ(w))
<1>0. q2 \in Content
  BY DEF Content
<1>1. QUEUE_SIZE \in Nat \ {0, 1} /\ r \in 0 .. QUEUE_SIZE - 1 /\ w \in 0 .. QUEUE_SIZE - 1
  BY InputAssumption DEF Index
<1>2. Succ(w) \in Index /\ Succ(w) = (IF w = QUEUE_SIZE - 1 THEN 0 ELSE w + 1)
  BY SuccIs
<1>3. /\ n \in 0 .. QUEUE_SIZE - 1
      /\ n = (IF w >= r THEN w - r ELSE w - r + QUEUE_SIZE)
  BY BetweenIs
<1>4. /\ Between(r, Succ(w)) \in 0 .. QUEUE_SIZE - 1
      /\ Between(r, Succ(w)) = (IF Succ(w) >= r THEN Succ(w) - r ELSE Succ(w) - r + QUEUE_SIZE)
  BY <1>2, BetweenIs
<1>5. /\ s \in Seq(Event \union {NoEvent}) /\ Len(s) = n
      /\ \A i \in 1 .. n : s[i] = q[At(r, i)]
  BY RingIs
<1>6. /\ s2 \in Seq(Event \union {NoEvent}) /\ Len(s2) = Between(r, Succ(w))
      /\ \A i \in 1 .. Between(r, Succ(w)) : s2[i] = q2[At(r, i)]
  BY <1>0, <1>2, RingIs
<1>7. \A i \in 1 .. QUEUE_SIZE :
        /\ At(r, i) \in Index
        /\ At(r, i) = (IF r + i - 1 < QUEUE_SIZE THEN r + i - 1 ELSE r + i - 1 - QUEUE_SIZE)
  BY AtIs
<1> HIDE DEF n, s, s2, Between, At, Succ
<1>8. n < QUEUE_SIZE - 1 /\ Between(r, Succ(w)) = n + 1
  BY <1>1, <1>2, <1>3, <1>4
<1>9. \A i \in 1 .. n : At(r, i) # w /\ At(r, i) \in Index
  BY <1>1, <1>3, <1>7
<1>10. n + 1 \in 1 .. QUEUE_SIZE
  BY <1>1, <1>8, <1>3
<1>11. At(r, n + 1) = w
  BY <1>1, <1>3, <1>7, <1>10
<1>12. \A i \in 1 .. n : s2[i] = s[i]
  BY <1>3, <1>5, <1>6, <1>8, <1>9 DEF Content
<1>13. s2[n + 1] = e
  <2>1. s2[n + 1] = q2[w]
    BY <1>3, <1>6, <1>8, <1>11
  <2>2. QED
    BY <2>1 DEF Content
<1>14. /\ Append(s, e) \in Seq(Event \union {NoEvent}) /\ Len(Append(s, e)) = n + 1
       /\ \A i \in 1 .. n : Append(s, e)[i] = s[i]
       /\ Append(s, e)[n + 1] = e
  BY <1>3, <1>5
<1>15. \A i \in 1 .. n + 1 : i \in 1 .. n \/ i = n + 1
  BY <1>3
<1>16. \A i \in 1 .. n + 1 : s2[i] = Append(s, e)[i]
  BY <1>12, <1>13, <1>14, <1>15
<1>17. s2 = Append(s, e)
  BY <1>6, <1>8, <1>14, <1>16, SameSequence
<1>18. QED
  BY <1>0, <1>5, <1>8, <1>17 DEF s, s2

(* The advance of read_index takes the oldest entry off the sequence.      *)
LEMMA RingPop ==
  ASSUME NEW q \in Content, NEW r \in Index, NEW w \in Index, r # w
  PROVE  /\ Ring(q, r, w) # << >> /\ Head(Ring(q, r, w)) = q[r]
         /\ Ring(q, Succ(r), w) = Tail(Ring(q, r, w))
<1> DEFINE n  == Between(r, w)
           s  == Ring(q, r, w)
           s2 == Ring(q, Succ(r), w)
<1>1. QUEUE_SIZE \in Nat \ {0, 1} /\ r \in 0 .. QUEUE_SIZE - 1 /\ w \in 0 .. QUEUE_SIZE - 1
  BY InputAssumption DEF Index
<1>2. Succ(r) \in Index /\ Succ(r) = (IF r = QUEUE_SIZE - 1 THEN 0 ELSE r + 1)
  BY SuccIs
<1>3. /\ n \in 0 .. QUEUE_SIZE - 1
      /\ n = (IF w >= r THEN w - r ELSE w - r + QUEUE_SIZE)
  BY BetweenIs
<1>4. /\ Between(Succ(r), w) \in 0 .. QUEUE_SIZE - 1
      /\ Between(Succ(r), w) = (IF w >= Succ(r) THEN w - Succ(r) ELSE w - Succ(r) + QUEUE_SIZE)
  BY <1>2, BetweenIs
<1>5. /\ s \in Seq(Event \union {NoEvent}) /\ Len(s) = n
      /\ \A i \in 1 .. n : s[i] = q[At(r, i)]
  BY RingIs
<1>6. /\ s2 \in Seq(Event \union {NoEvent}) /\ Len(s2) = Between(Succ(r), w)
      /\ \A i \in 1 .. Between(Succ(r), w) : s2[i] = q[At(Succ(r), i)]
  BY <1>2, RingIs
<1>7. \A i \in 1 .. QUEUE_SIZE :
        At(r, i) = (IF r + i - 1 < QUEUE_SIZE THEN r + i - 1 ELSE r + i - 1 - QUEUE_SIZE)
  BY AtIs
<1>8. \A i \in 1 .. QUEUE_SIZE :
        At(Succ(r), i) = (IF Succ(r) + i - 1 < QUEUE_SIZE THEN Succ(r) + i - 1
                          ELSE Succ(r) + i - 1 - QUEUE_SIZE)
  BY <1>2, AtIs
<1> HIDE DEF n, s, s2, Between, At, Succ
<1>9. n > 0 /\ Between(Succ(r), w) = n - 1
  BY <1>1, <1>2, <1>3, <1>4
<1>10. At(r, 1) = r
  BY <1>1, <1>7
<1>11. ASSUME NEW i \in 1 .. n - 1 PROVE At(Succ(r), i) = At(r, i + 1)
  <2>1. i \in 1 .. QUEUE_SIZE /\ i + 1 \in 1 .. QUEUE_SIZE
    BY <1>1, <1>3
  <2>2. QED
    BY <1>1, <1>2, <1>7, <1>8, <2>1
<1>12. s # << >> /\ Head(s) = q[r]
  BY <1>3, <1>5, <1>9, <1>10
<1>13. /\ Tail(s) \in Seq(Event \union {NoEvent}) /\ Len(Tail(s)) = n - 1
       /\ \A i \in 1 .. n - 1 : Tail(s)[i] = s[i + 1]
  BY <1>3, <1>5, <1>9, <1>12
<1>14. ASSUME NEW i \in 1 .. n - 1 PROVE s2[i] = Tail(s)[i]
  <2>1. i + 1 \in 1 .. n
    BY <1>3
  <2>2. s[i + 1] = q[At(r, i + 1)]
    BY <1>5, <2>1
  <2>3. QED
    BY <1>6, <1>9, <1>11, <1>13, <2>2
<1>15. s2 = Tail(s)
  BY <1>6, <1>9, <1>13, <1>14, SameSequence
<1>16. QED
  BY <1>12, <1>15 DEF s, s2

-----------------------------------------------------------------------------
(* The inductive invariant of the ring.  Between the indices lie events,   *)
(* and nothing of the zeroed ring; the ring is not empty between the test  *)
(* and the advance of input_pop, and what was copied is still its oldest   *)
(* entry, whatever the interrupt did in between.                           *)
PopKnows ==
  /\ pc \in {"copy", "advance"} => read_index # write_index
  /\ pc = "advance" => event = queue[read_index]
  /\ pc = "handle" => event \in Event

RingInv == TypeOK /\ Waiting \in Seq(Event) /\ PopKnows /\ lost <= sent

(* The boot state: a zeroed ring and two equal indices.                    *)
LEMMA RingInit == Init => RingInv
<1> SUFFICES ASSUME Init PROVE RingInv
  OBVIOUS
<1>1. TypeOK /\ PopKnows /\ lost <= sent
  BY InputAssumption DEF Init, TypeOK, PopKnows, Index, Event
<1>2. Waiting = << >>
  <2>1. (write_index - read_index) % QUEUE_SIZE = 0
    BY InputAssumption DEF Init
  <2>2. QED
    BY <2>1 DEF Waiting
<1>3. QED
  BY <1>1, <1>2 DEF RingInv

(* What the indices select is the ring's sequence, and what is known of it *)
(* before and after a step.                                                *)
LEMMA WaitingIsRing ==
  /\ Waiting = Ring(queue, read_index, write_index)
  /\ Waiting' = Ring(queue', read_index', write_index')
  BY DEF Waiting, Ring, Between, At

(* keyboard_irq when the ring has room.                                    *)
LEMMA PushStep ==
  ASSUME RingInv, KeyboardIrq, ~Full
  PROVE  /\ Len(Waiting) < QUEUE_SIZE - 1
         /\ Waiting' = Append(Waiting, sent + 1) /\ sent + 1 \in Event /\ lost' = lost
         /\ RingInv'
<1>1. /\ queue \in Content /\ read_index \in Index /\ write_index \in Index
      /\ sent \in 0 .. EVENT_MAX /\ sent < EVENT_MAX /\ EVENT_MAX \in Nat
  BY InputAssumption DEF RingInv, TypeOK, Content, KeyboardIrq
<1>2. /\ queue' = [queue EXCEPT ![write_index] = sent + 1]
      /\ write_index' = Succ(write_index) /\ read_index' = read_index
      /\ sent' = sent + 1 /\ lost' = lost /\ event' = event /\ handled' = handled
      /\ pc' = IF pc = "halted" THEN "test" ELSE pc
  BY DEF KeyboardIrq, Wake
<1>3. sent + 1 \in Event
  BY <1>1 DEF Event
<1>4. Succ(write_index) # read_index /\ Succ(write_index) \in Index
  BY <1>1, SuccIs DEF Full
<1>5. /\ queue' \in Content /\ Len(Waiting) < QUEUE_SIZE - 1
      /\ Waiting' = Append(Waiting, sent + 1)
  BY <1>1, <1>2, <1>3, <1>4, RingPush, WaitingIsRing
<1>6. TypeOK'
  BY <1>1, <1>2, <1>4, <1>5 DEF RingInv, TypeOK, Content
<1>7. Waiting' \in Seq(Event)
  BY <1>3, <1>5 DEF RingInv
<1>8. PopKnows'
  <2>1. ASSUME pc' \in {"copy", "advance"}
        PROVE  pc = pc' /\ read_index # write_index /\ read_index' # write_index'
    BY <1>2, <1>4, <2>1 DEF RingInv, PopKnows
  <2>2. ASSUME pc' = "advance" PROVE event' = queue'[read_index']
    <3>1. pc = "advance" /\ event = queue[read_index] /\ read_index # write_index
      BY <2>1, <2>2 DEF RingInv, PopKnows
    <3>2. QED
      BY <1>1, <1>2, <3>1 DEF Content
  <2>3. ASSUME pc' = "handle" PROVE event' \in Event
    BY <1>2, <2>3 DEF RingInv, PopKnows
  <2>4. QED
    BY <2>1, <2>2, <2>3 DEF PopKnows
<1>9. lost' <= sent'
  BY <1>1, <1>2 DEF RingInv, TypeOK
<1>10. QED
  BY <1>2, <1>3, <1>5, <1>6, <1>7, <1>8, <1>9 DEF RingInv

(* keyboard_irq when the ring is full.                                     *)
LEMMA DropStep ==
  ASSUME RingInv, KeyboardIrq, Full
  PROVE  /\ Len(Waiting) = QUEUE_SIZE - 1 /\ Waiting' = Waiting /\ lost' = lost + 1
         /\ RingInv'
<1>1. /\ queue \in Content /\ read_index \in Index /\ write_index \in Index
      /\ sent \in 0 .. EVENT_MAX /\ sent < EVENT_MAX /\ EVENT_MAX \in Nat
      /\ lost \in 0 .. EVENT_MAX /\ lost <= sent /\ QUEUE_SIZE \in Nat \ {0, 1}
  BY InputAssumption DEF RingInv, TypeOK, Content, KeyboardIrq
<1>2. /\ queue' = queue /\ write_index' = write_index /\ read_index' = read_index
      /\ sent' = sent + 1 /\ lost' = lost + 1 /\ event' = event /\ handled' = handled
      /\ pc' = IF pc = "halted" THEN "test" ELSE pc
  BY DEF KeyboardIrq, Wake
<1>3. Waiting' = Waiting
  BY <1>2, WaitingIsRing
<1>4. Len(Waiting) = QUEUE_SIZE - 1
  <2>1. Len(Waiting) = Between(read_index, write_index)
    BY <1>1, RingIs, WaitingIsRing
  <2>2. read_index = (IF write_index = QUEUE_SIZE - 1 THEN 0 ELSE write_index + 1)
    BY <1>1, SuccIs DEF Full
  <2>3. Between(read_index, write_index)
          = (IF write_index >= read_index THEN write_index - read_index
             ELSE write_index - read_index + QUEUE_SIZE)
    BY <1>1, BetweenIs
  <2> HIDE DEF Between
  <2>4. QED
    BY <1>1, <2>1, <2>2, <2>3 DEF Index
<1>5. TypeOK' /\ PopKnows' /\ lost' <= sent'
  BY <1>1, <1>2 DEF RingInv, TypeOK, PopKnows
<1>6. QED
  BY <1>2, <1>3, <1>4, <1>5 DEF RingInv

(* The index update of input_pop: the oldest event leaves the ring.        *)
LEMMA PopStep ==
  ASSUME RingInv, PopAdvance
  PROVE  /\ Waiting # << >> /\ Waiting' = Tail(Waiting) /\ event = Head(Waiting)
         /\ RingInv'
<1>1. /\ queue \in Content /\ read_index \in Index /\ write_index \in Index
      /\ read_index # write_index /\ event = queue[read_index]
  BY DEF RingInv, TypeOK, Content, PopAdvance, PopKnows
<1>2. /\ read_index' = Succ(read_index) /\ pc' = "handle"
      /\ UNCHANGED <<queue, write_index, event, sent, handled, lost>>
  BY DEF PopAdvance
<1>3. /\ Waiting # << >> /\ Waiting' = Tail(Waiting) /\ event = Head(Waiting)
  BY <1>1, <1>2, RingPop, WaitingIsRing
<1>4. event \in Event /\ Waiting' \in Seq(Event)
  BY <1>3 DEF RingInv
<1>5. Succ(read_index) \in Index
  BY <1>1, SuccIs
<1>6. TypeOK' /\ PopKnows' /\ lost' <= sent'
  BY <1>1, <1>2, <1>4, <1>5 DEF RingInv, TypeOK, PopKnows
<1>7. QED
  BY <1>3, <1>4, <1>6 DEF RingInv

(* The other steps leave the ring alone.                                   *)
LEMMA QuietStep ==
  ASSUME RingInv, TimerIrq \/ PopTest \/ PopCopy \/ Handle \/ Halt \/ UNCHANGED vars
  PROVE  Waiting' = Waiting /\ lost' = lost /\ RingInv'
<1>1. UNCHANGED <<queue, read_index, write_index, sent, lost>>
  BY DEF TimerIrq, PopTest, PopCopy, Handle, Halt, vars
<1>2. Waiting' = Waiting
  BY <1>1, WaitingIsRing
<1>3. TypeOK' /\ PopKnows'
  <2>1. CASE TimerIrq
    BY <2>1 DEF RingInv, TypeOK, PopKnows, TimerIrq, Wake
  <2>2. CASE PopTest
    BY <2>2 DEF RingInv, TypeOK, PopKnows, PopTest
  <2>3. CASE PopCopy
    BY <2>3 DEF RingInv, TypeOK, PopKnows, PopCopy
  <2>4. CASE Handle
    BY <2>4 DEF RingInv, TypeOK, PopKnows, Handle
  <2>5. CASE Halt
    BY <2>5 DEF RingInv, TypeOK, PopKnows, Halt
  <2>6. CASE UNCHANGED vars
    BY <2>6 DEF RingInv, TypeOK, PopKnows, vars
  <2>7. QED
    BY <2>1, <2>2, <2>3, <2>4, <2>5, <2>6
<1>4. QED
  BY <1>1, <1>2, <1>3 DEF RingInv

(* No step of interrupt or loop breaks the invariant.                      *)
LEMMA RingNext == RingInv /\ [Next]_vars => RingInv'
  BY PushStep, DropStep, PopStep, QuietStep DEF Next, MainLoop

(* The ring keeps its invariant in every interleaving.                     *)
LEMMA RingAlways == Spec => []RingInv
  BY RingInit, RingNext, PTL DEF Spec

(* input_push and input_pop keep both indices inside the ring, for every   *)
(* ring size and any number of events; only events are ever processed.     *)
THEOREM RingTypes == Spec => []TypeOK
<1>1. RingInv => TypeOK
  BY DEF RingInv
<1>2. QED
  BY <1>1, RingAlways, PTL

(* Every step of interrupt and loop is a step of the bounded queue or      *)
(* leaves it alone.                                                        *)
LEMMA RingRefines == RingInv /\ [Next]_vars => [Fifo!Next]_(Fifo!vars)
<1> SUFFICES ASSUME RingInv, [Next]_vars PROVE [Fifo!Next]_(Fifo!vars)
  OBVIOUS
<1>1. CASE KeyboardIrq /\ ~Full
  <2>1. UNCHANGED <<handled, event>> /\ (pc' = "handle") = (pc = "handle")
    BY <1>1 DEF KeyboardIrq, Wake
  <2>2. Fifo!Push
    BY <1>1, <2>1, PushStep DEF Fifo!Push
  <2>3. QED
    BY <2>2 DEF Fifo!Next
<1>2. CASE KeyboardIrq /\ Full
  <2>1. UNCHANGED <<handled, event>> /\ (pc' = "handle") = (pc = "handle")
    BY <1>2 DEF KeyboardIrq, Wake
  <2>2. Fifo!Drop
    BY <1>2, <2>1, DropStep DEF Fifo!Drop
  <2>3. QED
    BY <2>2 DEF Fifo!Next
<1>3. CASE PopAdvance
  <2>1. pc = "advance" /\ pc' = "handle" /\ UNCHANGED <<handled, event, lost>>
    BY <1>3 DEF PopAdvance
  <2>2. Fifo!Pop
    BY <1>3, <2>1, PopStep DEF Fifo!Pop
  <2>3. QED
    BY <2>2 DEF Fifo!Next
<1>4. CASE TimerIrq \/ PopTest \/ PopCopy \/ Handle \/ Halt \/ UNCHANGED vars
  <2>1. Waiting' = Waiting /\ lost' = lost
    BY <1>4, QuietStep
  <2>2. (IF pc = "handle" THEN Append(handled, event) ELSE handled)'
          = IF pc = "handle" THEN Append(handled, event) ELSE handled
    BY <1>4 DEF TimerIrq, Wake, PopTest, PopCopy, Handle, Halt, vars
  <2>3. QED
    BY <2>1, <2>2 DEF Fifo!vars
<1>5. QED
  BY <1>1, <1>2, <1>3, <1>4 DEF Next, MainLoop

(* The ring of input.c, shared without a lock between the interrupt and a  *)
(* loop that it may interrupt between any two accesses, is a first-in      *)
(* first-out queue of QUEUE_SIZE - 1 entries that drops an event only when *)
(* it is full.                                                             *)
THEOREM RingIsFifo == Spec => Implements
<1>1. Init => Fifo!Init
  <2> SUFFICES ASSUME Init PROVE Fifo!Init
    OBVIOUS
  <2>1. (write_index - read_index) % QUEUE_SIZE = 0
    BY InputAssumption DEF Init
  <2>2. Waiting = << >>
    BY <2>1 DEF Waiting
  <2>3. QED
    BY <2>2 DEF Init, Fifo!Init
<1>2. QED
  BY <1>1, RingAlways, RingRefines, PTL DEF Implements, Fifo!Spec, Spec

-----------------------------------------------------------------------------
(* The decoder (Keyboard).                                                 *)

KeyName == {"LEFT_SHIFT", "RIGHT_SHIFT", "LEFT_CTRL", "RIGHT_CTRL", "LEFT_ALT",
            "RIGHT_ALT", "CAPS_LOCK", "A", "KEY_1", "LEFT", "PAUSE"}
Prefixed == {"RIGHT_CTRL", "RIGHT_ALT", "LEFT"}
Byte     == [byte : Nat, first : BOOLEAN, last : BOOLEAN, key : KeyName, press : BOOLEAN]

(* How many bytes a key sends.                                             *)
Size(k) == IF k = "PAUSE" THEN 6 ELSE IF k \in Prefixed THEN 2 ELSE 1

(* The rows of the table of scan codes.                                    *)
LEMMA CodeRows ==
  /\ DOMAIN K!Code = KeyName
  /\ K!Code["LEFT_SHIFT"] = <<42>> /\ K!Code["RIGHT_SHIFT"] = <<54>>
  /\ K!Code["LEFT_CTRL"] = <<29>> /\ K!Code["RIGHT_CTRL"] = <<224, 29>>
  /\ K!Code["LEFT_ALT"] = <<56>> /\ K!Code["RIGHT_ALT"] = <<224, 56>>
  /\ K!Code["CAPS_LOCK"] = <<58>> /\ K!Code["A"] = <<30>> /\ K!Code["KEY_1"] = <<2>>
  /\ K!Code["LEFT"] = <<224, 75>> /\ K!Code["PAUSE"] = <<225, 29, 69, 225, 157, 197>>
  BY DEF K!Code, KeyName

(* The names of the keys and the lengths of their codes.                   *)
LEMMA CodeIs ==
  ASSUME NEW k \in KeyName
  PROVE  Len(K!Code[k]) = Size(k) /\ K!Code[k] \in Seq(Nat)
<1> HIDE DEF K!Code
<1>1. CASE k \in Prefixed
  <2>1. \E c \in Nat : K!Code[k] = <<224, c>>
    BY <1>1, CodeRows DEF Prefixed
  <2>2. QED
    BY <1>1, <2>1 DEF Size, Prefixed
<1>2. CASE k = "PAUSE"
  BY <1>2, CodeRows DEF Size
<1>3. CASE k \in KeyName \ (Prefixed \union {"PAUSE"})
  <2>1. \E c \in Nat : K!Code[k] = <<c>>
    BY <1>3, CodeRows DEF Prefixed, KeyName
  <2>2. QED
    BY <1>3, <2>1 DEF Size
<1>4. QED
  BY <1>1, <1>2, <1>3

(* The bytes of a key.                                                     *)
LEMMA BytesAre ==
  ASSUME NEW k \in KeyName, NEW p \in BOOLEAN
  PROVE  /\ K!Bytes(k, p) \in Seq(Byte) /\ Len(K!Bytes(k, p)) = Size(k)
         /\ \A j \in 1 .. Size(k) :
              /\ K!Bytes(k, p)[j].byte = IF j = Size(k) /\ ~p THEN K!Code[k][j] + 128
                                         ELSE K!Code[k][j]
              /\ K!Bytes(k, p)[j].first <=> j = 1
              /\ K!Bytes(k, p)[j].last <=> j = Size(k)
              /\ K!Bytes(k, p)[j].key = k /\ K!Bytes(k, p)[j].press = p
<1>1. Len(K!Code[k]) = Size(k) /\ K!Code[k] \in Seq(Nat) /\ Size(k) \in Nat
  BY CodeIs DEF Size
<1>2. \A j \in 1 .. Size(k) : K!Code[k][j] \in Nat /\ K!Code[k][j] + 128 \in Nat
  BY <1>1
<1> HIDE DEF Size, K!Code, KeyName
<1>3. K!Bytes(k, p) = [j \in 1 .. Size(k) |->
         [byte  |-> IF j = Size(k) /\ ~p THEN K!Code[k][j] + 128 ELSE K!Code[k][j],
          first |-> j = 1, last |-> j = Size(k), key |-> k, press |-> p]]
  BY <1>1 DEF K!Bytes
<1>4. \A j \in 1 .. Size(k) : K!Bytes(k, p)[j] \in Byte
  BY <1>2, <1>3 DEF Byte
<1>5. K!Bytes(k, p) \in Seq(Byte) /\ Len(K!Bytes(k, p)) = Size(k)
  BY <1>1, <1>3, <1>4
<1>6. ASSUME NEW j \in 1 .. Size(k)
      PROVE  /\ K!Bytes(k, p)[j].byte = IF j = Size(k) /\ ~p THEN K!Code[k][j] + 128
                                         ELSE K!Code[k][j]
             /\ K!Bytes(k, p)[j].first <=> j = 1
             /\ K!Bytes(k, p)[j].last <=> j = Size(k)
             /\ K!Bytes(k, p)[j].key = k /\ K!Bytes(k, p)[j].press = p
  <2>1. K!Bytes(k, p)[j] =
         [byte  |-> IF j = Size(k) /\ ~p THEN K!Code[k][j] + 128 ELSE K!Code[k][j],
          first |-> j = 1, last |-> j = Size(k), key |-> k, press |-> p]
    BY <1>3
  <2> DEFINE r == K!Bytes(k, p)[j]
  <2>2. r.byte = (IF j = Size(k) /\ ~p THEN K!Code[k][j] + 128 ELSE K!Code[k][j])
    BY <2>1
  <2>3. r.key = k /\ r.press = p
    BY <2>1
  <2>4. (r.first <=> j = 1) /\ (r.last <=> j = Size(k))
    <3>1. r.first = (j = 1)
      BY <2>1
    <3>2. r.last = (j = Size(k))
      BY <2>1
    <3> HIDE DEF r
    <3>3. QED
      BY <3>1, <3>2
  <2>5. QED
    BY <2>2, <2>3, <2>4 DEF r
<1>7. QED
  BY <1>5, <1>6

(* The i-th byte of w is the j-th of key k, and what may follow it does.   *)
Placed(w, i, k, p, j) ==
  /\ w[i] = K!Bytes(k, p)[j]
  /\ j < Size(k) => i < Len(w) /\ w[i + 1] = K!Bytes(k, p)[j + 1]
  /\ j = Size(k) /\ i < Len(w) => w[i + 1].first

(* The bytes waiting are those of whole keys, less some of the first one.  *)
WellFormed(w) ==
  /\ w \in Seq(Byte)
  /\ \A i \in 1 .. Len(w) :
       \E k \in Keys, p \in BOOLEAN :
         (k = "PAUSE" => p) /\ \E j \in 1 .. Size(k) : Placed(w, i, k, p, j)

(* The keyboard adds whole keys.                                           *)
LEMMA SendKeepsForm ==
  ASSUME NEW w, WellFormed(w), NEW k \in Keys, NEW p \in BOOLEAN, k = "PAUSE" => p
  PROVE  /\ WellFormed(w \o K!Bytes(k, p))
         /\ w \o K!Bytes(k, p) # << >>
         /\ IF w = << >> THEN Head(w \o K!Bytes(k, p)).first
            ELSE Head(w \o K!Bytes(k, p)) = Head(w)
<1> DEFINE b == K!Bytes(k, p)
           n == Len(w)
           m == Size(k)
           v == w \o b
<1>1. k \in KeyName /\ Keys \subseteq KeyName
  BY PathAssumption, CodeRows DEF K!KeyboardConstants
<1>2. /\ b \in Seq(Byte) /\ Len(b) = m
      /\ \A j \in 1 .. m : b[j].first <=> j = 1
  BY <1>1, BytesAre
<1>3. w \in Seq(Byte) /\ n \in Nat /\ m \in 1 .. 6
  BY DEF WellFormed, Size
<1> HIDE DEF b, m
<1>4. /\ v \in Seq(Byte) /\ Len(v) = n + m
      /\ \A i \in 1 .. n : v[i] = w[i]
      /\ \A i \in n + 1 .. n + m : v[i] = b[i - n]
  BY <1>2, <1>3
<1> HIDE DEF v, n
<1>5. ASSUME NEW i \in 1 .. Len(v)
      PROVE  \E l \in Keys, q \in BOOLEAN :
               (l = "PAUSE" => q) /\ \E j \in 1 .. Size(l) : Placed(v, i, l, q, j)
  <2>1. CASE i \in 1 .. n
    <3>1. PICK l \in Keys, q \in BOOLEAN :
            (l = "PAUSE" => q) /\ \E j \in 1 .. Size(l) : Placed(w, i, l, q, j)
      BY <2>1 DEF WellFormed, n
    <3>2. PICK j \in 1 .. Size(l) : Placed(w, i, l, q, j)
      BY <3>1
    <3>3. CASE i < n
      <4>1. i + 1 \in 1 .. n /\ i < Len(v)
        BY <2>1, <3>3, <1>3, <1>4
      <4>2. Placed(v, i, l, q, j)
        BY <2>1, <3>2, <3>3, <4>1, <1>4 DEF Placed, n
      <4>3. QED
        BY <3>1, <4>2
    <3>4. CASE i = n
      <4>1. i + 1 \in n + 1 .. n + m /\ i + 1 - n = 1 /\ 1 \in 1 .. m
        BY <1>3, <3>4
      <4>2. v[i + 1] = b[1]
        <5>1. v[i + 1] = b[(i + 1) - n]
          BY <4>1, <1>4
        <5>2. (i + 1) - n = 1
          BY <1>3, <3>4
        <5>3. QED
          BY <5>1, <5>2
      <4>6. b[1].first
        BY <4>1, <1>2
      <4>3. ~(j < Size(l))
        BY <3>2, <3>4, <1>3 DEF Placed, n
      <4>4. Placed(v, i, l, q, j)
        BY <2>1, <3>2, <4>2, <4>6, <4>3, <1>4 DEF Placed
      <4>5. QED
        BY <3>1, <4>4
    <3>5. QED
      BY <2>1, <3>3, <3>4, <1>3
  <2>2. CASE i \in n + 1 .. n + m
    <3> DEFINE j == i - n
    <3>1. j \in 1 .. m /\ v[i] = b[j]
      <4>1. v[i] = b[j]
        BY <2>2, <1>4
      <4>2. j \in 1 .. m
        BY <2>2, <1>3
      <4>3. QED
        BY <4>1, <4>2
    <3>2. ASSUME j < m PROVE i < Len(v) /\ v[i + 1] = b[j + 1]
      <4>1. i + 1 \in n + 1 .. n + m /\ (i + 1) - n = j + 1 /\ i < n + m
        BY <2>2, <3>2, <1>3
      <4>2. QED
        BY <4>1, <1>4
    <3>3. ~(j = m /\ i < Len(v))
      BY <2>2, <1>3, <1>4
    <3> HIDE DEF j
    <3>4. Placed(v, i, k, p, j)
      BY <3>1, <3>2, <3>3 DEF Placed, b, m
    <3>5. QED
      BY <3>1, <3>4 DEF m
  <2>3. QED
    BY <2>1, <2>2, <1>3, <1>4
<1>6. WellFormed(v)
  BY <1>4, <1>5 DEF WellFormed
<1>7. v # << >>
  BY <1>3, <1>4
<1>8. IF w = << >> THEN Head(v).first ELSE Head(v) = Head(w)
  <2>1. Head(v) = v[1]
    BY <1>4, <1>7
  <2>2. CASE w = << >>
    <3>1. n = 0
      BY <2>2 DEF n
    <3>2. v[1] = b[1] /\ b[1].first
      BY <3>1, <1>2, <1>3, <1>4
    <3>3. QED
      BY <2>1, <2>2, <3>2
  <2>3. CASE w # << >>
    <3>1. n >= 1 /\ Head(w) = w[1]
      BY <2>3, <1>3 DEF n
    <3>2. QED
      BY <2>1, <2>3, <3>1, <1>3, <1>4
  <2>4. QED
    BY <2>2, <2>3
<1>9. QED
  BY <1>6, <1>7, <1>8 DEF v, b

(* The decoder takes the first byte off; the rest of its key, if there is  *)
(* any, comes next.                                                        *)
LEMMA HeadOfWire ==
  ASSUME NEW w, WellFormed(w), w # << >>
  PROVE  /\ WellFormed(Tail(w))
         /\ \E k \in Keys, p \in BOOLEAN :
              /\ k = "PAUSE" => p
              /\ \E j \in 1 .. Size(k) :
                   /\ Head(w) = K!Bytes(k, p)[j]
                   /\ j < Size(k) => Tail(w) # << >> /\ Head(Tail(w)) = K!Bytes(k, p)[j + 1]
                   /\ j = Size(k) => Tail(w) = << >> \/ Head(Tail(w)).first
<1> DEFINE n == Len(w)
           v == Tail(w)
<1>1. w \in Seq(Byte) /\ n \in Nat /\ n >= 1 /\ Head(w) = w[1]
  BY DEF WellFormed
<1>2. /\ v \in Seq(Byte) /\ Len(v) = n - 1
      /\ \A i \in 1 .. n - 1 : v[i] = w[i + 1]
  BY <1>1
<1> HIDE DEF v, n
<1>10. (v # << >> => n >= 2 /\ Head(v) = w[2]) /\ (v = << >> => n = 1)
  <2>1. v # << >> => n >= 2 /\ Head(v) = v[1]
    BY <1>1, <1>2
  <2>2. n >= 2 => v[1] = w[2]
    BY <1>1, <1>2
  <2>3. v = << >> => n = 1
    BY <1>1, <1>2
  <2>4. QED
    BY <2>1, <2>2, <2>3
<1>3. ASSUME NEW i \in 1 .. Len(v)
      PROVE  \E k \in Keys, p \in BOOLEAN :
               (k = "PAUSE" => p) /\ \E j \in 1 .. Size(k) : Placed(v, i, k, p, j)
  <2>1. i + 1 \in 1 .. n /\ i \in 1 .. n - 1
    BY <1>1, <1>2
  <2>2. PICK k \in Keys, p \in BOOLEAN :
          (k = "PAUSE" => p) /\ \E j \in 1 .. Size(k) : Placed(w, i + 1, k, p, j)
    BY <2>1 DEF WellFormed, n
  <2>3. PICK j \in 1 .. Size(k) : Placed(w, i + 1, k, p, j)
    BY <2>2
  <2>4. v[i] = K!Bytes(k, p)[j]
    BY <2>1, <2>3, <1>2 DEF Placed
  <2>5. i + 1 < n => i < Len(v) /\ i + 1 \in 1 .. n - 1 /\ v[i + 1] = w[i + 1 + 1]
    BY <2>1, <1>1, <1>2
  <2>6. i < Len(v) => i + 1 < n
    BY <2>1, <1>1, <1>2
  <2>7. Placed(v, i, k, p, j)
    BY <2>3, <2>4, <2>5, <2>6 DEF Placed, n
  <2>8. QED
    BY <2>2, <2>7
<1>4. WellFormed(v)
  BY <1>2, <1>3 DEF WellFormed
<1>5. PICK k \in Keys, p \in BOOLEAN :
        (k = "PAUSE" => p) /\ \E j \in 1 .. Size(k) : Placed(w, 1, k, p, j)
  BY <1>1 DEF WellFormed, n
<1>6. PICK j \in 1 .. Size(k) : Placed(w, 1, k, p, j)
  BY <1>5
<1>7. /\ Head(w) = K!Bytes(k, p)[j]
      /\ j < Size(k) => v # << >> /\ Head(v) = K!Bytes(k, p)[j + 1]
      /\ j = Size(k) => v = << >> \/ Head(v).first
  BY <1>1, <1>10, <1>6 DEF Placed, n
<1>8. QED
  BY <1>4, <1>5, <1>7 DEF v

-----------------------------------------------------------------------------
(* What the decoder makes of a byte.                                       *)

Held == {"LEFT_SHIFT", "RIGHT_SHIFT", "LEFT_CTRL", "RIGHT_CTRL", "LEFT_ALT", "RIGHT_ALT"}

(* The last byte of a key without its bit 7, and what the tables say of it *)
(* when the prefix, if the key has one, was seen.                          *)
LEMMA LastCode ==
  ASSUME NEW k \in KeyName \ {"PAUSE"}, extended \in BOOLEAN, extended <=> k \in Prefixed
  PROVE  LET c == K!Code[k][Size(k)]
         IN  /\ c \in 0 .. 95
             /\ K!ModifierKey(c) = IF k \in Held THEN k ELSE "NONE"
             /\ k \notin Held => (IF extended THEN K!ExtendedKey(c) ELSE K!KeyFor(c)) = k
<1> DEFINE c == K!Code[k][Size(k)]
<1> HIDE DEF c, K!Code
<1> USE DEF Size, Prefixed, Held, c, K!ModifierKey, K!KeyFor, K!ExtendedKey
<1>1. CASE k = "LEFT_SHIFT"
  BY <1>1, CodeRows
<1>2. CASE k = "RIGHT_SHIFT"
  BY <1>2, CodeRows
<1>3. CASE k = "LEFT_CTRL"
  BY <1>3, CodeRows
<1>4. CASE k = "RIGHT_CTRL"
  BY <1>4, CodeRows
<1>5. CASE k = "LEFT_ALT"
  BY <1>5, CodeRows
<1>6. CASE k = "RIGHT_ALT"
  BY <1>6, CodeRows
<1>7. CASE k = "CAPS_LOCK"
  BY <1>7, CodeRows
<1>8. CASE k = "A"
  BY <1>8, CodeRows
<1>9. CASE k = "KEY_1"
  BY <1>9, CodeRows
<1>10. CASE k = "LEFT"
  BY <1>10, CodeRows
<1>11. QED
  BY <1>1, <1>2, <1>3, <1>4, <1>5, <1>6, <1>7, <1>8, <1>9, <1>10 DEF KeyName

Decodes(b) == K!PrefixByte(b) \/ K!ModifierByte(b) \/ K!OrdinaryByte(b)

(* The three kinds of bytes exclude each other.                            *)
LEMMA ByteGuards ==
  ASSUME NEW b
  PROVE  /\ K!PrefixByte(b) => b \in {224, 225}
         /\ K!ModifierByte(b) => b \notin {224, 225} /\ K!ModifierKey(b % 128) # "NONE"
         /\ K!OrdinaryByte(b) => b \notin {224, 225} /\ K!ModifierKey(b % 128) = "NONE"
  BY DEF K!PrefixByte, K!ModifierByte, K!OrdinaryByte

(* What the modifier bits become with the last byte of key k.              *)
Modified(k, p) ==
  IF k \in Held
  THEN IF p THEN modifiers \union {K!Kind[k]} ELSE modifiers \ {K!Kind[k]}
  ELSE IF k = "CAPS_LOCK" /\ p THEN K!Toggled(modifiers, "CAPS") ELSE modifiers

(* The last byte of a key reports the key and ends the prefix.             *)
LEMMA LastByte ==
  ASSUME NEW k \in KeyName \ {"PAUSE"}, NEW p \in BOOLEAN,
         extended \in BOOLEAN, extended <=> k \in Prefixed,
         NEW b, b = IF p THEN K!Code[k][Size(k)] ELSE K!Code[k][Size(k)] + 128,
         Decodes(b)
  PROVE  /\ extended' = FALSE /\ modifiers' = Modified(k, p)
         /\ decoded'.key = k /\ decoded'.pressed = p
         /\ k \notin Held => decoded'.character = IF p THEN K!Character(k, modifiers') ELSE ""
<1> DEFINE c == K!Code[k][Size(k)]
<1>1. /\ c \in 0 .. 95 /\ K!ModifierKey(c) = IF k \in Held THEN k ELSE "NONE"
      /\ k \notin Held => (IF extended THEN K!ExtendedKey(c) ELSE K!KeyFor(c)) = k
  BY LastCode
<1>2. b = IF p THEN c ELSE c + 128
  OBVIOUS
<1> HIDE DEF c
<1>3. b % 128 = c /\ b \notin {224, 225} /\ (b < 128 <=> p) /\ (b >= 128 <=> ~p) /\ b \in Nat
  BY <1>1, <1>2
<1>4. k # "NONE"
  BY DEF KeyName
<1>5. CASE k \in Held
  <2>1. K!ModifierByte(b) /\ K!ModifierKey(b % 128) = k
    BY <1>1, <1>3, <1>4, <1>5, ByteGuards DEF Decodes
  <2>2. /\ modifiers' = (IF b >= 128 THEN modifiers \ {K!Kind[k]}
                         ELSE modifiers \union {K!Kind[k]})
        /\ decoded' = [key |-> k, pressed |-> b < 128, modifiers |-> modifiers',
                       character |-> ""]
        /\ extended' = FALSE
    BY <2>1 DEF K!ModifierByte
  <2>3. decoded'.key = k /\ decoded'.pressed = (b < 128)
    BY <2>2
  <2>4. (b < 128) = p
    BY <1>3
  <2>5. QED
    BY <1>3, <1>5, <2>2, <2>3, <2>4 DEF Modified
<1>6. CASE k \notin Held
  <2>1. /\ K!OrdinaryByte(b)
        /\ (IF extended THEN K!ExtendedKey(b % 128) ELSE K!KeyFor(b % 128)) = k
    BY <1>1, <1>3, <1>4, <1>6, ByteGuards DEF Decodes
  <2>2. /\ modifiers' = (IF k = "CAPS_LOCK" /\ b < 128 THEN K!Toggled(modifiers, "CAPS")
                         ELSE modifiers)
        /\ decoded' = [key |-> k, pressed |-> b < 128, modifiers |-> modifiers,
                       character |-> IF b < 128 THEN K!Character(k, modifiers') ELSE ""]
        /\ extended' = FALSE
    <3> DEFINE key == IF extended THEN K!ExtendedKey(b % 128) ELSE K!KeyFor(b % 128)
    <3>1. /\ modifiers' = (IF key = "CAPS_LOCK" /\ b < 128 THEN K!Toggled(modifiers, "CAPS")
                           ELSE modifiers)
          /\ extended' = FALSE
      BY <2>1, Zenon DEF K!OrdinaryByte
    <3>2. decoded' = IF key = "NONE" THEN K!NoKeyEvent
                     ELSE [key |-> key, pressed |-> b < 128, modifiers |-> modifiers,
                           character |-> IF b < 128 THEN K!Character(key, modifiers') ELSE ""]
      BY <2>1, Zenon DEF K!OrdinaryByte
    <3>3. key = k
      BY <2>1
    <3> HIDE DEF key
    <3>4. QED
      BY <3>1, <3>2, <3>3, <1>4
  <2>3. /\ decoded'.key = k /\ decoded'.pressed = (b < 128)
        /\ decoded'.character = IF b < 128 THEN K!Character(k, modifiers') ELSE ""
    BY <2>2
  <2>4. (b < 128) = p
    BY <1>3
  <2>5. QED
    BY <1>3, <1>6, <2>2, <2>3, <2>4, ZenonT(40) DEF Modified
<1>7. QED
  BY <1>5, <1>6

(* A prefix byte sets or clears the flag and reports nothing.              *)
LEMMA FirstByte ==
  ASSUME NEW b \in {224, 225}, Decodes(b)
  PROVE  /\ (b = 224 => extended' = TRUE) /\ (b = 225 => extended' = FALSE)
         /\ modifiers' = modifiers /\ decoded' = K!NoKeyEvent
<1>1. extended' = (b = 224) /\ modifiers' = modifiers /\ decoded' = K!NoKeyEvent
  BY ByteGuards DEF Decodes, K!PrefixByte
<1>2. (b = 224) = TRUE \/ ((b = 224) = FALSE /\ b # 224)
  OBVIOUS
<1>3. b = 225 => (b = 224) = FALSE
  OBVIOUS
<1>4. QED
  BY <1>1, <1>2, <1>3

(* The bytes of Pause after its prefixes look like those of a left Ctrl    *)
(* key, pressed and released, and of a key that is not in the table.       *)
LEMMA PauseBytes ==
  ASSUME extended = FALSE, NEW b \in {29, 69, 157, 197}, Decodes(b)
  PROVE  /\ extended' = FALSE
         /\ b = 29 => modifiers' = modifiers \union {"CTRL"}
         /\ b = 157 => modifiers' = modifiers \ {"CTRL"}
         /\ b \in {69, 197} => modifiers' = modifiers
         /\ decoded'.key \in {"LEFT_CTRL", "NONE"}
<1>1. /\ 29 % 128 = 29 /\ 69 % 128 = 69 /\ 157 % 128 = 29 /\ 197 % 128 = 69
      /\ b \notin {224, 225}
  OBVIOUS
<1>2. K!ModifierKey(29) = "LEFT_CTRL" /\ K!ModifierKey(69) = "NONE" /\ K!KeyFor(69) = "NONE"
  BY DEF K!ModifierKey, K!KeyFor
<1>3. K!Kind["LEFT_CTRL"] = "CTRL"
  BY DEF K!Kind
<1>4. CASE b \in {29, 157}
  <2>1. b % 128 = 29
    BY <1>1, <1>4
  <2>2. K!ModifierByte(b) /\ K!ModifierKey(b % 128) = "LEFT_CTRL"
    BY <1>1, <1>2, <2>1, ByteGuards DEF Decodes
  <2>3. /\ modifiers' = (IF b >= 128 THEN modifiers \ {"CTRL"} ELSE modifiers \union {"CTRL"})
        /\ extended' = FALSE
    <3> DEFINE key == K!ModifierKey(b % 128)
    <3>1. /\ modifiers' = (IF b >= 128 THEN modifiers \ {K!Kind[key]}
                           ELSE modifiers \union {K!Kind[key]})
          /\ extended' = FALSE
      BY <2>2 DEF K!ModifierByte
    <3>2. K!Kind[key] = "CTRL"
      BY <2>2, <1>3
    <3> HIDE DEF key
    <3>3. QED
      BY <3>1, <3>2
  <2>4. decoded' = [key |-> "LEFT_CTRL", pressed |-> b < 128, modifiers |-> modifiers',
                    character |-> ""]
    BY <2>2 DEF K!ModifierByte
  <2>5. decoded'.key = "LEFT_CTRL"
    BY <2>4
  <2>6. QED
    BY <1>4, <2>3, <2>5
<1>5. CASE b \in {69, 197}
  <2>1. b % 128 = 69
    BY <1>1, <1>5
  <2>2. K!OrdinaryByte(b) /\ K!KeyFor(b % 128) = "NONE"
    BY <1>1, <1>2, <2>1, ByteGuards DEF Decodes
  <2>3. modifiers' = modifiers /\ decoded' = K!NoKeyEvent /\ extended' = FALSE
    BY <2>2 DEF K!OrdinaryByte
  <2>4. decoded'.key = "NONE"
    BY <2>3 DEF K!NoKeyEvent
  <2>5. QED
    BY <1>5, <2>3, <2>4
<1>6. QED
  BY <1>4, <1>5

-----------------------------------------------------------------------------
(* The inductive invariant of the decoder.                                 *)

(* The prefix flag is set exactly when the rest of a prefixed key is next. *)
PrefixKnown ==
  /\ extended \in BOOLEAN
  /\ extended <=> wire # << >> /\ ~Head(wire).first /\ Head(wire).key \in Prefixed

(* Some bytes of Pause, but not all up to the last, have been decoded.     *)
MidPause ==
  wire # << >> /\ Head(wire).key = "PAUSE" /\ ~Head(wire).first /\ ~Head(wire).last

(* All bytes of Pause but the last have been decoded.                      *)
EndPause ==
  wire # << >> /\ Head(wire).key = "PAUSE" /\ ~Head(wire).first /\ Head(wire).last

(* The bit of a kind is what ModifiersFollowKeys says, except that within  *)
(* Pause CTRL comes and goes.                                              *)
BitsFollow(kind) ==
  /\ kind # "CTRL" \/ (~MidPause /\ ~EndPause)
       => (kind \in modifiers <=> K!KeysOf(kind) \intersect seen # {} /\ kind \notin clipped)
  /\ kind = "CTRL" /\ EndPause => kind \notin modifiers

(* What the release of a key, or Pause, leaves in clipped.                 *)
ClippedBy(kind, keys) ==
  IF K!KeysOf(kind) \intersect keys # {} THEN clipped \union {kind} ELSE clipped \ {kind}

KeyInv ==
  /\ WellFormed(wire) /\ PrefixKnown
  /\ "PAUSE" \notin down /\ seen \subseteq Keys
  /\ caps \in BOOLEAN /\ ("CAPS" \in modifiers <=> caps)
  /\ BitsFollow("SHIFT") /\ BitsFollow("CTRL") /\ BitsFollow("ALT")

(* The interrupt for the last byte of a key other than Pause.              *)
Completes(k, p) ==
  /\ Head(wire).last /\ Head(wire).key = k /\ Head(wire).press = p
  /\ ~MidPause /\ ~MidPause' /\ ~EndPause /\ ~EndPause' /\ modifiers' = Modified(k, p)
  /\ clipped' = IF k \notin Held THEN clipped
                ELSE IF p THEN clipped \ {K!Kind[k]} ELSE ClippedBy(K!Kind[k], seen')
  /\ decoded'.key = k /\ decoded'.pressed = p
  /\ k \notin Held => decoded'.character = IF p THEN K!Character(k, modifiers') ELSE ""
  /\ seen' = IF p THEN seen \union {k} ELSE seen \ {k}
  /\ caps' = IF k = "CAPS_LOCK" /\ p THEN ~caps ELSE caps

(* The interrupt for any other byte.                                       *)
Continues ==
  /\ Head(wire).last => Head(wire).key = "PAUSE"
  /\ decoded'.key \in {"LEFT_CTRL", "NONE"} /\ seen' = seen /\ caps' = caps
  /\ \/ /\ ~MidPause /\ ~EndPause /\ ~EndPause'
        /\ modifiers' = modifiers /\ clipped' = clipped
     \/ /\ MidPause /\ MidPause' /\ ~EndPause'
        /\ modifiers' \in {modifiers, modifiers \union {"CTRL"}} /\ clipped' = clipped
     \/ /\ MidPause /\ ~MidPause' /\ EndPause'
        /\ modifiers' = modifiers \ {"CTRL"} /\ clipped' = clipped
     \/ /\ EndPause /\ ~MidPause' /\ ~EndPause'
        /\ modifiers' = modifiers /\ clipped' = ClippedBy("CTRL", seen)

(* Whatever waits on the wire, the interrupt does one or the other, and    *)
(* the flag is right for the byte that comes next.                         *)
LEMMA Irq ==
  ASSUME KeyInv, K!keyboard_irq
  PROVE  /\ WellFormed(wire') /\ PrefixKnown'
         /\ \/ \E k \in Keys \ {"PAUSE"}, p \in BOOLEAN : Completes(k, p)
            \/ Continues
<1> DEFINE h == Head(wire)
<1>1. /\ wire # << >> /\ wire' = Tail(wire) /\ Decodes(h.byte)
      /\ seen' = (IF ~h.last \/ h.key = "PAUSE" THEN seen
                  ELSE IF h.press THEN seen \union {h.key} ELSE seen \ {h.key})
      /\ caps' = (IF h.key = "CAPS_LOCK" /\ h.press THEN ~caps ELSE caps)
  BY DEF K!keyboard_irq, Decodes, K!Noted
<1>0. /\ ~h.last => clipped' = clipped
      /\ h.last /\ h.key = "PAUSE" => clipped' = ClippedBy("CTRL", seen')
      /\ h.last /\ h.key # "PAUSE"
           => clipped' = IF h.key \notin Held THEN clipped
                         ELSE IF h.press THEN clipped \ {K!Kind[h.key]}
                         ELSE ClippedBy(K!Kind[h.key], seen')
  <2>1. DOMAIN K!Kind = Held /\ "PAUSE" \notin Held
    BY DEF K!Kind, Held
  <2>2. K!Noted(h)
    BY DEF K!keyboard_irq
  <2> HIDE DEF h
  <2>3. QED
    BY <2>1, <2>2 DEF K!Noted, ClippedBy
<1>2. PICK k \in Keys, p \in BOOLEAN :
        /\ k = "PAUSE" => p
        /\ \E j \in 1 .. Size(k) :
             /\ h = K!Bytes(k, p)[j]
             /\ j < Size(k) => wire' # << >> /\ Head(wire') = K!Bytes(k, p)[j + 1]
             /\ j = Size(k) => wire' = << >> \/ Head(wire').first
  BY <1>1, HeadOfWire DEF KeyInv
<1>3. PICK j \in 1 .. Size(k) :
        /\ h = K!Bytes(k, p)[j]
        /\ j < Size(k) => wire' # << >> /\ Head(wire') = K!Bytes(k, p)[j + 1]
        /\ j = Size(k) => wire' = << >> \/ Head(wire').first
  BY <1>2
<1>4. k \in KeyName /\ Size(k) \in 1 .. 6
  BY PathAssumption, CodeRows DEF K!KeyboardConstants, Size
<1>5. /\ h.byte = IF j = Size(k) /\ ~p THEN K!Code[k][j] + 128 ELSE K!Code[k][j]
      /\ h.first <=> j = 1
      /\ h.last <=> j = Size(k)
      /\ h.key = k /\ h.press = p
  BY <1>3, <1>4, BytesAre
<1>6. ASSUME j < Size(k)
      PROVE  /\ ~Head(wire').first /\ Head(wire').key = k
             /\ Head(wire').last <=> j + 1 = Size(k)
  <2>1. j + 1 \in 1 .. Size(k) /\ j + 1 # 1
    BY <1>4, <1>6
  <2>2. QED
    BY <1>3, <1>4, <1>6, <2>1, BytesAre
<1>7. WellFormed(wire')
  BY <1>1, HeadOfWire DEF KeyInv
<1>8. extended \in BOOLEAN /\ (extended <=> j # 1 /\ k \in Prefixed)
  BY <1>1, <1>5 DEF KeyInv, PrefixKnown
<1>9. PrefixKnown' <=>
        extended' \in BOOLEAN /\ (extended' <=> j < Size(k) /\ k \in Prefixed)
  BY <1>3, <1>4, <1>6 DEF PrefixKnown
<1>10. MidPause <=> k = "PAUSE" /\ j \notin {1, 6}
  BY <1>1, <1>4, <1>5 DEF MidPause, Size
<1>11. MidPause' <=> k = "PAUSE" /\ j \notin {5, 6}
  BY <1>3, <1>4, <1>6 DEF MidPause, Size
<1>16. EndPause <=> k = "PAUSE" /\ j = 6
  BY <1>1, <1>4, <1>5 DEF EndPause, Size
<1>17. EndPause' <=> k = "PAUSE" /\ j = 5
  BY <1>3, <1>4, <1>6 DEF EndPause, Size
<1> HIDE DEF h
<1>12. CASE k # "PAUSE" /\ j = Size(k)
  <2>1. extended <=> k \in Prefixed
    BY <1>8, <1>12 DEF Size
  <2>2. h.byte = IF p THEN K!Code[k][Size(k)] ELSE K!Code[k][Size(k)] + 128
    BY <1>5, <1>12
  <2>3. k \in KeyName \ {"PAUSE"} /\ p \in BOOLEAN
    BY <1>4, <1>12
  <2>4. /\ extended' = FALSE /\ modifiers' = Modified(k, p)
        /\ decoded'.key = k /\ decoded'.pressed = p
        /\ k \notin Held => decoded'.character = IF p THEN K!Character(k, modifiers') ELSE ""
    BY <1>1, <1>8, <2>1, <2>2, <2>3, LastByte, ZenonT(40)
  <2>5. /\ seen' = (IF p THEN seen \union {k} ELSE seen \ {k})
        /\ caps' = (IF k = "CAPS_LOCK" /\ p THEN ~caps ELSE caps)
    BY <1>1, <1>5, <1>12
  <2>9. clipped' = IF k \notin Held THEN clipped
                   ELSE IF p THEN clipped \ {K!Kind[k]} ELSE ClippedBy(K!Kind[k], seen')
    BY <1>0, <1>5, <1>12
  <2>6. PrefixKnown'
    <3>1. ~(j < Size(k))
      BY <1>4, <1>12
    <3>2. extended' \in BOOLEAN /\ ~extended'
      BY <2>4
    <3>3. QED
      BY <1>9, <3>1, <3>2
  <2>7. Completes(k, p)
    BY <1>5, <1>10, <1>11, <1>12, <1>16, <1>17, <2>4, <2>5, <2>9 DEF Completes, h
  <2>8. QED
    BY <1>7, <1>12, <2>6, <2>7
<1>13. CASE k # "PAUSE" /\ j < Size(k)
  <2>1. k \in Prefixed /\ j = 1 /\ Size(k) = 2
    BY <1>13 DEF Size
  <2>2. h.byte = 224
    BY <1>5, <2>1, CodeRows DEF Prefixed
  <2>3. extended' = TRUE /\ modifiers' = modifiers /\ decoded' = K!NoKeyEvent
    BY <1>1, <2>2, FirstByte
  <2>4. seen' = seen /\ caps' = caps /\ ~h.last /\ clipped' = clipped
    BY <1>0, <1>1, <1>5, <2>1 DEF Prefixed
  <2>5. Continues
    BY <1>10, <1>13, <1>16, <1>17, <2>3, <2>4 DEF Continues, K!NoKeyEvent, h
  <2>6. QED
    BY <1>7, <1>9, <1>13, <2>1, <2>3, <2>5
<1>14. CASE k = "PAUSE"
  <2>1. p /\ Size(k) = 6 /\ k \notin Prefixed /\ extended = FALSE
    BY <1>2, <1>8, <1>14 DEF Size, Prefixed
  <2>2. h.byte = K!Code["PAUSE"][j]
    BY <1>5, <1>14, <2>1
  <2>3. seen' = seen /\ caps' = caps /\ h.key = "PAUSE"
    BY <1>1, <1>5, <1>14
  <2>7. clipped' = IF j = 6 THEN ClippedBy("CTRL", seen) ELSE clipped
    BY <1>0, <1>5, <1>14, <2>1, <2>3 DEF ClippedBy
  <2>4. CASE j \in {1, 4}
    <3>1. h.byte = 225
      BY <2>2, <2>4, CodeRows
    <3>2. extended' = FALSE /\ modifiers' = modifiers /\ decoded' = K!NoKeyEvent
      BY <1>1, <3>1, FirstByte
    <3>3. Continues
      <4>1. decoded'.key = "NONE"
        BY <3>2 DEF K!NoKeyEvent
      <4>2. CASE j = 1
        BY <1>10, <1>11, <1>14, <1>16, <1>17, <2>3, <2>7, <3>2, <4>1, <4>2 DEF Continues, h
      <4>3. CASE j = 4
        BY <1>10, <1>11, <1>14, <1>16, <1>17, <2>3, <2>7, <3>2, <4>1, <4>3 DEF Continues, h
      <4>4. QED
        BY <2>4, <4>2, <4>3
    <3>4. QED
      BY <1>7, <1>9, <2>1, <3>2, <3>3
  <2>5. CASE j \in {2, 3, 5, 6}
    <3>1. /\ j = 2 => h.byte = 29
          /\ j = 3 => h.byte = 69
          /\ j = 5 => h.byte = 157
          /\ j = 6 => h.byte = 197
      BY <2>2, <2>5, CodeRows
    <3>2. h.byte \in {29, 69, 157, 197}
      BY <2>5, <3>1
    <3>3. /\ extended' = FALSE
          /\ h.byte = 29 => modifiers' = modifiers \union {"CTRL"}
          /\ h.byte = 157 => modifiers' = modifiers \ {"CTRL"}
          /\ h.byte \in {69, 197} => modifiers' = modifiers
          /\ decoded'.key \in {"LEFT_CTRL", "NONE"}
      BY <1>1, <2>1, <3>2, PauseBytes, ZenonT(40)
    <3>4. \/ j \in {3, 6} /\ modifiers' = modifiers
          \/ j = 2 /\ modifiers' = modifiers \union {"CTRL"}
          \/ j = 5 /\ modifiers' = modifiers \ {"CTRL"}
      BY <2>5, <3>1, <3>3
    <3>5. Continues
      <4>1. CASE j = 2
        BY <1>10, <1>11, <1>14, <1>16, <1>17, <2>3, <2>7, <3>3, <3>4, <4>1 DEF Continues, h
      <4>2. CASE j = 3
        BY <1>10, <1>11, <1>14, <1>16, <1>17, <2>3, <2>7, <3>3, <3>4, <4>2 DEF Continues, h
      <4>3. CASE j = 5
        BY <1>10, <1>11, <1>14, <1>16, <1>17, <2>3, <2>7, <3>3, <3>4, <4>3 DEF Continues, h
      <4>4. CASE j = 6
        BY <1>10, <1>11, <1>14, <1>16, <1>17, <2>3, <2>7, <3>3, <3>4, <4>4 DEF Continues, h
      <4>5. QED
        BY <2>5, <4>1, <4>2, <4>3, <4>4
    <3>6. QED
      BY <1>7, <1>9, <2>1, <3>3, <3>5
  <2>6. QED
    BY <2>1, <2>4, <2>5
<1>15. QED
  BY <1>4, <1>12, <1>13, <1>14

(* A key pressed or released: the bit of its kind follows.                 *)
LEMMA CompletesKeeps ==
  ASSUME KeyInv, NEW k \in Keys \ {"PAUSE"}, NEW p \in BOOLEAN, Completes(k, p)
  PROVE  /\ seen' \subseteq Keys
         /\ caps' \in BOOLEAN /\ ("CAPS" \in modifiers' <=> caps')
         /\ BitsFollow("SHIFT")' /\ BitsFollow("CTRL")' /\ BitsFollow("ALT")'
<1>1. /\ Keys \subseteq KeyName /\ DOMAIN K!Kind = Held
      /\ \A l \in Held : K!Kind[l] \in {"SHIFT", "CTRL", "ALT"}
  BY PathAssumption, CodeRows DEF K!KeyboardConstants, K!Kind, Held
<1>2. /\ ~MidPause /\ ~MidPause' /\ ~EndPause /\ ~EndPause' /\ modifiers' = Modified(k, p)
      /\ clipped' = (IF k \notin Held THEN clipped
                     ELSE IF p THEN clipped \ {K!Kind[k]} ELSE ClippedBy(K!Kind[k], seen'))
      /\ seen' = (IF p THEN seen \union {k} ELSE seen \ {k})
      /\ caps' = (IF k = "CAPS_LOCK" /\ p THEN ~caps ELSE caps)
  BY DEF Completes
<1>3. seen \subseteq Keys /\ caps \in BOOLEAN /\ ("CAPS" \in modifiers <=> caps)
  BY DEF KeyInv
<1>4. seen' \subseteq Keys
  BY <1>2, <1>3
<1>5. CASE k \in Held
  <2>1. modifiers' = IF p THEN modifiers \union {K!Kind[k]} ELSE modifiers \ {K!Kind[k]}
    BY <1>2, <1>5 DEF Modified
  <2>2. caps' = caps /\ ("CAPS" \in modifiers' <=> "CAPS" \in modifiers)
    BY <1>1, <1>2, <1>5, <2>1 DEF Held
  <2>3. ASSUME NEW kind \in {"SHIFT", "CTRL", "ALT"}, BitsFollow(kind)
        PROVE  BitsFollow(kind)'
    <3> DEFINE S == K!KeysOf(kind)
    <3>1. k \in S <=> K!Kind[k] = kind
      BY <1>1, <1>5 DEF K!KeysOf
    <3>2. kind \in modifiers <=> S \intersect seen # {} /\ kind \notin clipped
      BY <1>2, <2>3 DEF BitsFollow
    <3>3. K!Kind[k] = kind /\ ~p
            => clipped' = IF S \intersect seen' # {} THEN clipped \union {kind}
                          ELSE clipped \ {kind}
      BY <1>2, <1>5 DEF ClippedBy
    <3>4. K!Kind[k] # kind => (kind \in clipped' <=> kind \in clipped)
      BY <1>2, <1>5 DEF ClippedBy
    <3> HIDE DEF S
    <3>5. ASSUME K!Kind[k] = kind, p
          PROVE  kind \in modifiers' <=> S \intersect seen' # {} /\ kind \notin clipped'
      BY <1>2, <1>5, <2>1, <3>1, <3>5
    <3>6. ASSUME K!Kind[k] = kind, ~p
          PROVE  kind \in modifiers' <=> S \intersect seen' # {} /\ kind \notin clipped'
      BY <1>2, <2>1, <3>3, <3>6
    <3>7. ASSUME K!Kind[k] # kind
          PROVE  kind \in modifiers' <=> S \intersect seen' # {} /\ kind \notin clipped'
      BY <1>2, <2>1, <3>1, <3>2, <3>4, <3>7
    <3>8. kind \in modifiers' <=> S \intersect seen' # {} /\ kind \notin clipped'
      BY <3>5, <3>6, <3>7
    <3>9. QED
      BY <1>2, <3>8 DEF BitsFollow, S
  <2>4. QED
    BY <1>3, <1>4, <2>2, <2>3 DEF KeyInv
<1>6. CASE k \notin Held
  <2>1. /\ \A kind \in {"SHIFT", "CTRL", "ALT"} : kind \in modifiers' <=> kind \in modifiers
        /\ "CAPS" \in modifiers' <=> caps'
        /\ caps' \in BOOLEAN
    BY <1>2, <1>3, <1>6 DEF Modified, K!Toggled
  <2>2. ASSUME NEW kind \in {"SHIFT", "CTRL", "ALT"}, BitsFollow(kind)
        PROVE  BitsFollow(kind)'
    <3> DEFINE S == K!KeysOf(kind)
    <3>1. k \notin S
      BY <1>1, <1>6 DEF K!KeysOf
    <3>2. kind \in modifiers <=> S \intersect seen # {} /\ kind \notin clipped
      BY <1>2, <2>2 DEF BitsFollow
    <3>3. clipped' = clipped
      BY <1>2, <1>6
    <3> HIDE DEF S
    <3>4. kind \in modifiers' <=> S \intersect seen' # {} /\ kind \notin clipped'
      BY <1>2, <2>1, <3>1, <3>2, <3>3
    <3>5. QED
      BY <1>2, <3>4 DEF BitsFollow, S
  <2>3. QED
    BY <1>4, <2>1, <2>2 DEF KeyInv
<1>7. QED
  BY <1>5, <1>6

(* Other bytes leave the keys seen alone; Pause may set CTRL, but clears   *)
(* it again before its last byte.                                          *)
LEMMA ContinuesKeeps ==
  ASSUME KeyInv, Continues
  PROVE  /\ seen' \subseteq Keys
         /\ caps' \in BOOLEAN /\ ("CAPS" \in modifiers' <=> caps')
         /\ BitsFollow("SHIFT")' /\ BitsFollow("CTRL")' /\ BitsFollow("ALT")'
<1>1. seen' = seen /\ caps' = caps
  BY DEF Continues
<1>2. seen' \subseteq Keys /\ caps' \in BOOLEAN /\ ("CAPS" \in modifiers' <=> caps')
  BY <1>1 DEF KeyInv, Continues
<1>3. ASSUME NEW kind \in {"SHIFT", "ALT"}
      PROVE  BitsFollow(kind)'
  <2>1. BitsFollow(kind)
    BY <1>3 DEF KeyInv
  <2>2. (kind \in modifiers' <=> kind \in modifiers) /\ (kind \in clipped' <=> kind \in clipped)
    BY <1>3 DEF Continues, ClippedBy
  <2>3. QED
    BY <1>1, <1>3, <2>1, <2>2 DEF BitsFollow, K!KeysOf
<1>4. BitsFollow("CTRL")'
  <2> DEFINE held == K!KeysOf("CTRL") \intersect seen # {}
  <2>1. /\ ~MidPause /\ ~EndPause => ("CTRL" \in modifiers <=> held /\ "CTRL" \notin clipped)
        /\ EndPause => "CTRL" \notin modifiers
    BY DEF KeyInv, BitsFollow
  <2>2. EndPause /\ clipped' = ClippedBy("CTRL", seen) => (held <=> "CTRL" \in clipped')
    BY DEF ClippedBy
  <2>3. held' <=> held
    BY <1>1 DEF K!KeysOf
  <2> HIDE DEF held
  <2>4. /\ ~MidPause' /\ ~EndPause'
             => ("CTRL" \in modifiers' <=> held' /\ "CTRL" \notin clipped')
        /\ EndPause' => "CTRL" \notin modifiers'
    BY <2>1, <2>2, <2>3 DEF Continues
  <2>5. QED
    BY <2>4 DEF BitsFollow, held
<1>5. QED
  BY <1>2, <1>3, <1>4

(* The user adds bytes at the end.                                         *)
LEMMA UserKeeps ==
  ASSUME KeyInv, NEW k \in Keys, K!Press(k) \/ K!Release(k) \/ K!Repeat(k)
  PROVE  KeyInv' /\ UNCHANGED <<modifiers, extended, decoded, seen, caps, clipped>>
<1>1. PICK p \in BOOLEAN : K!Send(k, p) /\ (k = "PAUSE" => p)
  <2>1. CASE K!Press(k)
    BY <2>1 DEF K!Press
  <2>2. CASE K!Release(k)
    BY <2>2 DEF K!Release, KeyInv
  <2>3. CASE K!Repeat(k)
    BY <2>3 DEF K!Repeat
  <2>4. QED
    BY <2>1, <2>2, <2>3
<1>2. /\ wire' = wire \o K!Bytes(k, p)
      /\ UNCHANGED <<modifiers, extended, decoded, seen, caps, clipped>>
  BY <1>1 DEF K!Send
<1>3. /\ WellFormed(wire') /\ wire' # << >>
      /\ IF wire = << >> THEN Head(wire').first ELSE Head(wire') = Head(wire)
  BY <1>1, <1>2, SendKeepsForm DEF KeyInv
<1>4. PrefixKnown'
  BY <1>2, <1>3 DEF KeyInv, PrefixKnown
<1>5. (MidPause <=> MidPause') /\ (EndPause <=> EndPause')
  BY <1>3 DEF MidPause, EndPause
<1>6. BitsFollow("SHIFT")' /\ BitsFollow("CTRL")' /\ BitsFollow("ALT")'
  BY <1>2, <1>5 DEF KeyInv, BitsFollow, K!KeysOf
<1>7. "PAUSE" \notin down'
  BY DEF KeyInv, K!Press, K!Release, K!Repeat
<1>8. QED
  BY <1>2, <1>3, <1>4, <1>6, <1>7 DEF KeyInv

(* keyboard_irq keeps the invariant.                                       *)
LEMMA IrqKeeps ==
  ASSUME KeyInv, K!keyboard_irq
  PROVE  KeyInv'
<1>1. down' = down
  BY DEF K!keyboard_irq
<1>2. QED
  BY <1>1, Irq, CompletesKeeps, ContinuesKeeps DEF KeyInv

-----------------------------------------------------------------------------
(* Ring and decoder together.                                              *)

(* A step of the path is a step of the ring or leaves it alone: a byte     *)
(* without an event ends hlt as the timer does.                            *)
LEMMA PathStepOfRing == [PathNext]_path => [Next]_vars
<1> SUFFICES ASSUME [PathNext]_path PROVE [Next]_vars
  OBVIOUS
<1>1. CASE EventByte
  BY <1>1 DEF EventByte, Next
<1>2. CASE SilentByte
  <2>1. Wake /\ UNCHANGED ring
    BY <1>2 DEF SilentByte
  <2>2. CASE pc = "halted"
    BY <2>1, <2>2 DEF Next, TimerIrq, ring
  <2>3. CASE pc # "halted"
    BY <2>1, <2>3 DEF Wake, ring, vars
  <2>4. QED
    BY <2>2, <2>3
<1>3. CASE User
  BY <1>3 DEF User
<1>4. CASE (TimerIrq \/ MainLoop) /\ UNCHANGED keyboard
  BY <1>4 DEF Next
<1>5. CASE UNCHANGED path
  BY <1>5 DEF path
<1>6. QED
  BY <1>1, <1>2, <1>3, <1>4, <1>5 DEF PathNext

(* The interrupts of the keyboard, decoded byte by byte, drive the ring as *)
(* the interrupts of InputLoop do.                                         *)
THEOREM PathImplementsRing == PathSpec => Spec
<1>1. PathInit => Init
  BY DEF PathInit
<1>2. QED
  BY <1>1, PathStepOfRing, PTL DEF PathSpec, Spec

(* The input path as a whole, decoder and all, keeps the indices inside    *)
(* the ring, and is a first-in first-out queue that drops an event only    *)
(* when it is full.                                                        *)
THEOREM PathIsFifo == PathSpec => []TypeOK /\ Implements
  BY PathImplementsRing, RingTypes, RingIsFifo

(* The boot state of the decoder.                                          *)
LEMMA KeyInit == PathInit => KeyInv
<1> SUFFICES ASSUME PathInit PROVE KeyInv
  OBVIOUS
<1>1. /\ modifiers = {} /\ extended = FALSE /\ wire = << >> /\ down = {} /\ seen = {} /\ caps = FALSE
      /\ clipped = {}
  BY DEF PathInit, K!Init
<1>2. WellFormed(wire)
  BY <1>1 DEF WellFormed
<1>3. BitsFollow("SHIFT") /\ BitsFollow("CTRL") /\ BitsFollow("ALT")
  BY <1>1 DEF BitsFollow, MidPause, EndPause
<1>4. QED
  BY <1>1, <1>2, <1>3 DEF KeyInv, PrefixKnown

(* A step of the path decodes a byte, adds the bytes of a key, or leaves   *)
(* the decoder alone.                                                      *)
LEMMA KeyStep ==
  ASSUME [PathNext]_path
  PROVE  \/ K!keyboard_irq
         \/ \E k \in Keys : K!Press(k) \/ K!Release(k) \/ K!Repeat(k)
         \/ UNCHANGED keyboard
  BY DEF PathNext, EventByte, SilentByte, User, path

(* No step of the user, the interrupt or the loop breaks the invariant.    *)
LEMMA KeyNext == KeyInv /\ [PathNext]_path => KeyInv'
<1> SUFFICES ASSUME KeyInv, [PathNext]_path PROVE KeyInv'
  OBVIOUS
<1>1. CASE K!keyboard_irq
  BY <1>1, IrqKeeps
<1>2. CASE \E k \in Keys : K!Press(k) \/ K!Release(k) \/ K!Repeat(k)
  BY <1>2, UserKeeps
<1>3. CASE UNCHANGED keyboard
  <2>1. UNCHANGED <<modifiers, extended, decoded, wire, down, seen, caps, clipped>>
    BY <1>3 DEF keyboard
  <2>2. /\ PrefixKnown' <=> PrefixKnown
        /\ MidPause' <=> MidPause
        /\ EndPause' <=> EndPause
    BY <2>1 DEF PrefixKnown, MidPause, EndPause
  <2>3. QED
    BY <2>1, <2>2 DEF KeyInv, BitsFollow, K!KeysOf
<1>4. QED
  BY <1>1, <1>2, <1>3, KeyStep

(* The decoder keeps its invariant whatever the user types.                *)
LEMMA KeyAlways == PathSpec => []KeyInv
  BY KeyInit, KeyNext, PTL DEF PathSpec

(* Between keys the modifier bits follow the keys, for every set of keys,  *)
(* every sequence of presses, repeats and releases and any number of       *)
(* events the ring dropped.                                                *)
THEOREM ModifiersNeverStick == PathSpec => []ModifiersFollowKeys
<1>1. KeyInv => ModifiersFollowKeys
  <2> SUFFICES ASSUME KeyInv, K!BetweenKeys
               PROVE  /\ \A kind \in {"SHIFT", "CTRL", "ALT"} :
                           (kind \in modifiers)
                             = (K!KeysOf(kind) \intersect seen # {} /\ kind \notin clipped)
                      /\ ("CAPS" \in modifiers) = caps
    BY DEF ModifiersFollowKeys, K!ModifiersFollowKeys
  <2>1. ~MidPause /\ ~EndPause
    BY DEF K!BetweenKeys, MidPause, EndPause
  <2>2. ("CAPS" \in modifiers) = caps
    BY DEF KeyInv
  <2>3. QED
    BY <2>1, <2>2 DEF KeyInv, BitsFollow
<1>2. QED
  BY <1>1, KeyAlways, PTL

(* Every key is reported under its own name: the interrupt for its last    *)
(* byte finds the prefix flag that its first byte left, and no other.      *)
THEOREM KeysAreNamed == PathSpec => EventNamesKey
<1>1. KeyInv /\ [PathNext]_path => [K!NamesKey]_path
  <2> SUFFICES ASSUME KeyInv, [PathNext]_path,
                      wire # << >>, wire' = Tail(wire), Head(wire).last,
                      Head(wire).key # "PAUSE"
               PROVE  decoded'.key = Head(wire).key /\ decoded'.pressed = Head(wire).press
    BY DEF K!NamesKey
  <2>1. wire \in Seq(Byte) /\ Len(wire) \in Nat /\ Len(wire') = Len(wire) - 1
    BY DEF KeyInv, WellFormed
  <2>2. CASE K!keyboard_irq
    BY <2>2, Irq DEF Completes, Continues
  <2>3. ASSUME NEW k \in Keys, K!Press(k) \/ K!Release(k) \/ K!Repeat(k)
        PROVE  FALSE
    <3>1. PICK p \in BOOLEAN : wire' = wire \o K!Bytes(k, p)
      BY <2>3 DEF K!Press, K!Release, K!Repeat, K!Send
    <3>2. K!Bytes(k, p) \in Seq(Byte)
      BY PathAssumption, CodeRows, BytesAre DEF K!KeyboardConstants
    <3>3. Len(wire') >= Len(wire)
      BY <2>1, <3>1, <3>2
    <3>4. QED
      BY <2>1, <3>3
  <2>4. CASE UNCHANGED keyboard
    BY <2>1, <2>4 DEF keyboard
  <2>5. QED
    BY <2>2, <2>3, <2>4, KeyStep
<1>2. QED
  BY <1>1, KeyAlways, PTL DEF EventNamesKey, PathSpec

(* Shift, as far as the one bit for two keys can tell.                     *)
Shifted == K!ShiftSeen /\ "SHIFT" \notin clipped

(* The SHIFT bit says just that, also in the middle of a key.              *)
LEMMA ShiftBit ==
  ASSUME KeyInv
  PROVE  "SHIFT" \in modifiers <=> Shifted
<1>1. \A k \in Keys : k \in K!KeysOf("SHIFT") <=> k \in {"LEFT_SHIFT", "RIGHT_SHIFT"}
  BY PathAssumption, CodeRows DEF K!KeyboardConstants, K!KeysOf, K!Kind, KeyName
<1>2. K!KeysOf("SHIFT") \subseteq Keys
  BY DEF K!KeysOf
<1>3. /\ "SHIFT" \in modifiers <=> K!KeysOf("SHIFT") \intersect seen # {} /\ "SHIFT" \notin clipped
      /\ seen \subseteq Keys
  BY DEF KeyInv, BitsFollow
<1>4. K!KeysOf("SHIFT") \intersect seen = seen \intersect {"LEFT_SHIFT", "RIGHT_SHIFT"}
  BY <1>1, <1>2, <1>3
<1>5. QED
  BY <1>3, <1>4 DEF Shifted, K!ShiftSeen

(* The character of the last event is right for what was seen before it.   *)
RightNow ==
  decoded.pressed =>
    /\ decoded.key = "A" => decoded.character = IF Shifted # caps THEN "A" ELSE "a"
    /\ decoded.key = "KEY_1" => decoded.character = IF Shifted THEN "!" ELSE "1"

(* keyboard_irq for a letter or a digit.                                   *)
LEMMA IrqCharacter ==
  ASSUME KeyInv, K!keyboard_irq
  PROVE  K!RightCharacter /\ RightNow'
<1>1. "SHIFT" \in modifiers <=> Shifted
  BY ShiftBit
<1>2. caps \in BOOLEAN /\ ("CAPS" \in modifiers <=> caps)
  BY DEF KeyInv
<1>3. CASE Continues
  BY <1>3 DEF Continues, K!RightCharacter, K!CharacterFor, RightNow, Shifted
<1>4. ASSUME NEW k \in Keys \ {"PAUSE"}, NEW p \in BOOLEAN, Completes(k, p),
             k \in {"A", "KEY_1"}
      PROVE  K!RightCharacter /\ RightNow'
  <2>1. /\ modifiers' = modifiers /\ caps' = caps /\ decoded'.key = k /\ decoded'.pressed = p
        /\ decoded'.character = IF p THEN K!Character(k, modifiers) ELSE ""
    BY <1>4 DEF Completes, Modified, Held
  <2>2. Shifted' <=> Shifted
    BY <1>4 DEF Completes, K!ShiftSeen, Shifted, Held
  <2>3. /\ k = "A" => K!Character(k, modifiers) = IF Shifted # caps THEN "A" ELSE "a"
        /\ k = "KEY_1" => K!Character(k, modifiers) = IF Shifted THEN "!" ELSE "1"
    <3>1. (("SHIFT" \in modifiers) # ("CAPS" \in modifiers)) <=> (Shifted # caps)
      BY <1>1, <1>2 DEF K!ShiftSeen, Shifted
    <3>2. k = "A" => K!Character(k, modifiers) =
            IF ("SHIFT" \in modifiers) # ("CAPS" \in modifiers) THEN "A" ELSE "a"
      BY DEF K!Character
    <3>3. k = "KEY_1" => K!Character(k, modifiers) = IF "SHIFT" \in modifiers THEN "!" ELSE "1"
      BY DEF K!Character
    <3>4. QED
      BY <1>1, <3>1, <3>2, <3>3
  <2>4. QED
    BY <2>1, <2>2, <2>3 DEF K!RightCharacter, K!CharacterFor, RightNow, Shifted
<1>5. ASSUME NEW k \in Keys \ {"PAUSE"}, NEW p \in BOOLEAN, Completes(k, p),
             k \notin {"A", "KEY_1"}
      PROVE  K!RightCharacter /\ RightNow'
  BY <1>5 DEF Completes, K!RightCharacter, K!CharacterFor, RightNow, Shifted
<1>6. QED
  BY <1>3, <1>4, <1>5, Irq

(* A letter or a digit yields the character that Caps Lock and the Shift   *)
(* keys call for, on every keyboard, when a Shift key counts from its make *)
(* code to the release of whichever Shift key is released first.           *)
THEOREM CharactersAreRight == PathSpec => ShiftedCharacter
<1>1. PathInit => RightNow
  <2>1. K!NoKeyEvent.key = "NONE"
    BY DEF K!NoKeyEvent
  <2>3. PathInit => decoded = K!NoKeyEvent
    BY DEF PathInit, K!Init
  <2>4. QED
    BY <2>1, <2>3 DEF RightNow
<1>2. KeyInv /\ RightNow /\ [PathNext]_path => RightNow' /\ [K!RightCharacter]_path
  <2> SUFFICES ASSUME KeyInv, RightNow, [PathNext]_path
               PROVE  RightNow' /\ [K!RightCharacter]_path
    OBVIOUS
  <2>1. CASE K!keyboard_irq
    BY <2>1, IrqCharacter
  <2>2. CASE UNCHANGED <<decoded, seen, caps, clipped>>
    BY <2>2 DEF RightNow, K!RightCharacter, K!CharacterFor, Shifted, K!ShiftSeen
  <2>3. ASSUME NEW k \in Keys, K!Press(k) \/ K!Release(k) \/ K!Repeat(k)
        PROVE  UNCHANGED <<decoded, seen, caps, clipped>>
    BY <2>3, UserKeeps
  <2>4. CASE UNCHANGED keyboard
    BY <2>2, <2>4 DEF keyboard
  <2>5. QED
    BY <2>1, <2>2, <2>3, <2>4, KeyStep
<1>3. QED
  BY <1>1, <1>2, KeyAlways, PTL DEF ShiftedCharacter, PathSpec
=============================================================================
