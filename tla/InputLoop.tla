----------------------------- MODULE InputLoop -----------------------------
(***************************************************************************)
(* The input queue (kernel/input.c) between the keyboard interrupt and the *)
(* main loop of kernel_main, which drains it in console_poll and then      *)
(* halts until the next interrupt.                                         *)
(*                                                                         *)
(* Interrupt gates clear IF, so a handler runs to its end as one step; it  *)
(* may strike between any two memory accesses of the main loop.  The steps *)
(* of input_pop are therefore separate.  What console_poll does with an    *)
(* event, and the cursor blinking, touch nothing of this state.            *)
(***************************************************************************)
EXTENDS Integers, Sequences

CONSTANTS QUEUE_SIZE,  \* INPUT_QUEUE_SIZE
          EVENT_MAX,   \* bound on the number of events the keyboard produces
          NoEvent      \* the content of a zeroed queue entry

ASSUME InputAssumption ==
  QUEUE_SIZE \in Nat \ {0, 1} /\ EVENT_MAX \in Nat /\ NoEvent \notin 1 .. EVENT_MAX

Index == 0 .. QUEUE_SIZE - 1

(* Events are numbered in the order in which the keyboard produces them.   *)
Event == 1 .. EVENT_MAX

VARIABLES
  queue, read_index, write_index,
  pc,       \* where the main loop is
  event,    \* the event input_pop copied out
  sent,     \* how many events the keyboard has produced
  handled,  \* history: the events console_poll has processed
  lost      \* history: how many events input_push refused

vars == <<queue, read_index, write_index, pc, event, sent, handled, lost>>

(* Mutant of Succ: the index does not wrap.                                *)
SuccUnwrapped(i) == i + 1

Succ(i) == (i + 1) % QUEUE_SIZE

(* Mutant of Full: the last free entry is used as well.                    *)
FullNever == FALSE

(* One entry stays free, to tell a full queue from an empty one.           *)
Full == Succ(write_index) = read_index

-----------------------------------------------------------------------------
(* Any interrupt ends hlt, and the loop polls again.                       *)
Wake == pc' = IF pc = "halted" THEN "test" ELSE pc

(* keyboard_irq with an event to report: input_push.                       *)
KeyboardIrq ==
  /\ sent < EVENT_MAX
  /\ sent' = sent + 1
  /\ \/ ~Full /\ queue' = [queue EXCEPT ![write_index] = sent + 1]
        /\ write_index' = Succ(write_index) /\ UNCHANGED lost
     \/ Full /\ lost' = lost + 1 /\ UNCHANGED <<queue, write_index>>
  /\ Wake
  /\ UNCHANGED <<read_index, event, handled>>

(* Mutant of TimerIrq: the timer stays masked.                             *)
TimerIrqMasked == FALSE /\ UNCHANGED vars

(* timer_irq: for the loop it matters only that it ends hlt.               *)
TimerIrq ==
  /\ pc = "halted" /\ Wake
  /\ UNCHANGED <<queue, read_index, write_index, event, sent, handled, lost>>

-----------------------------------------------------------------------------
(* input_pop and the loop around it.                                       *)

PopTest ==
  /\ pc = "test"
  /\ pc' = IF read_index = write_index THEN "halt" ELSE "copy"
  /\ UNCHANGED <<queue, read_index, write_index, event, sent, handled, lost>>

PopCopy ==
  /\ pc = "copy"
  /\ event' = queue[read_index] /\ pc' = "advance"
  /\ UNCHANGED <<queue, read_index, write_index, sent, handled, lost>>

PopAdvance ==
  /\ pc = "advance"
  /\ read_index' = Succ(read_index) /\ pc' = "handle"
  /\ UNCHANGED <<queue, write_index, event, sent, handled, lost>>

(* The rest of the body of console_poll's loop.                            *)
Handle ==
  /\ pc = "handle"
  /\ handled' = Append(handled, event) /\ pc' = "test"
  /\ UNCHANGED <<queue, read_index, write_index, event, sent, lost>>

(* The instruction after console_poll returns.  An interrupt between the   *)
(* last test and this one does not prevent the halt.                       *)
Halt ==
  /\ pc = "halt" /\ pc' = "halted"
  /\ UNCHANGED <<queue, read_index, write_index, event, sent, handled, lost>>

MainLoop == PopTest \/ PopCopy \/ PopAdvance \/ Handle \/ Halt

Init ==
  /\ queue = [i \in Index |-> NoEvent] /\ read_index = 0 /\ write_index = 0
  /\ pc = "test" /\ event = NoEvent
  /\ sent = 0 /\ handled = << >> /\ lost = 0

Next == KeyboardIrq \/ TimerIrq \/ MainLoop

Spec == Init /\ [][Next]_vars

(* The processor executes the loop, and the local APIC timer is periodic.  *)
Fairness == WF_vars(MainLoop) /\ WF_vars(TimerIrq)
FairSpec == Spec /\ Fairness

-----------------------------------------------------------------------------
(* The type invariant.                                                     *)
TypeOK ==
  /\ queue \in [Index -> Event \union {NoEvent}]
  /\ read_index \in Index /\ write_index \in Index
  /\ pc \in {"test", "copy", "advance", "handle", "halt", "halted"}
  /\ event \in Event \union {NoEvent}
  /\ sent \in 0 .. EVENT_MAX /\ lost \in 0 .. EVENT_MAX
  /\ handled \in Seq(Event)

(* The events between the two indices, oldest first.                       *)
Waiting ==
  [i \in 1 .. (write_index - read_index) % QUEUE_SIZE |->
     queue[(read_index + i - 1) % QUEUE_SIZE]]

Fifo == INSTANCE LossyFifo WITH
          Capacity <- QUEUE_SIZE - 1, fifo <- Waiting,
          out <- IF pc = "handle" THEN Append(handled, event) ELSE handled

(* Although interrupt and main loop share the ring without a lock, and the *)
(* interrupt may strike between the test, the copy and the index update of *)
(* input_pop, events come out once, in order and unharmed, and one is lost *)
(* only when all QUEUE_SIZE - 1 entries are taken.                         *)
Implements == Fifo!Spec

(* Every event that found room is processed, even one that arrives between *)
(* the last test of input_pop and hlt: the timer interrupt ends the halt.  *)
EventuallyHandled ==
  \A n \in 1 .. EVENT_MAX : (sent - lost >= n) ~> (Len(handled) >= n)
=============================================================================
