--------------------------- MODULE StartupProofs ----------------------------
(***************************************************************************)
(* Proofs about the way from the firmware to the main loop: the loader, by *)
(* itself and as part of the whole, for maps of any size, any number of    *)
(* changes by the firmware and any number of refused services; the order   *)
(* in which kernel_main sets things up, and its dialogue with the keyboard *)
(* controller.                                                             *)
(***************************************************************************)
EXTENDS Startup, SequenceTheorems, TLAPS

-----------------------------------------------------------------------------
(* The loader.                                                             *)

(* A key identifies a map: a buffer that has the current key has the       *)
(* current map, and no buffer has a key of the future.                     *)
KeysIdentifyMaps ==
  \A b \in Buffer : /\ filled[b].key <= fw.key
                    /\ filled[b].key = fw.key => filled[b] = fw

(* A capacity is that of a buffer the loader has.                          *)
CapacityOfBuffer == mem_map = NULL => map_capacity = 0

(* Size and key the loader passes on are those of the map in its buffer,   *)
(* from the moment GetMemoryMap succeeds.                                  *)
BufferRead ==
  pc \in {"update", "exit", "kernel"} =>
    /\ mem_map # NULL
    /\ filled[mem_map].size = map_size /\ filled[mem_map].key = map_key

(* The handoff record names that buffer before an exit is attempted.       *)
RecordRead ==
  pc \in {"exit", "kernel"} =>
    /\ boot_info.magic
    /\ boot_info.memory_map = mem_map /\ boot_info.memory_map_size = map_size

ExitKey == pc = "kernel" => map_key = fw.key

(* The inductive invariant.  HandoffIsCurrent speaks of the last state     *)
(* only; what must be carried along is how buffer, key and record agree    *)
(* while the firmware's map moves on.                                      *)
IInv ==
  /\ TypeOK
  /\ NoLeak
  /\ KeysIdentifyMaps
  /\ CapacityOfBuffer
  /\ BufferRead
  /\ RecordRead
  /\ ExitKey
  /\ pc \in {"start", "returned"} => mem_map = NULL

-----------------------------------------------------------------------------
(* The capacity of a new buffer is a number the firmware can be asked for. *)
LEMMA NewCapacity ==
  ASSUME TypeOK, ~Overflows
  PROVE  Base + Increment + 1 \in 0 .. UINTN_MAX
<1>1. fw.size \in Nat /\ map_capacity \in Nat
  BY BootAssumption DEF TypeOK
<1>2. Base \in Nat /\ Base \div 2 \in Int
  BY <1>1 DEF Base
<1>3. Increment \in Nat
  BY <1>2 DEF Increment
<1>4. QED
  BY <1>2, <1>3, BootAssumption DEF Overflows

(* A change of the map gives it a new key.                                 *)
LEMMA ChangedType ==
  ASSUME TypeOK, Changed
  PROVE  /\ fw' \in [size : 1 .. SIZE_MAX, key : Nat \ {0}]
         /\ fw'.key = fw.key + 1
  BY BootAssumption DEF TypeOK, Changed

(* The loader's initial state.                                             *)
LEMMA InitIInv == Init => IInv
<1> SUFFICES ASSUME Init PROVE IInv
  OBVIOUS
<1>1. TypeOK
  BY BootAssumption DEF Init, TypeOK, Buffer, NULL, Ended
<1>2. NoLeak
  BY DEF Init, NoLeak, NULL
<1>3. KeysIdentifyMaps
  BY DEF Init, KeysIdentifyMaps
<1>4. QED
  BY <1>1, <1>2, <1>3
  DEF Init, IInv, CapacityOfBuffer, BufferRead, RecordRead, ExitKey

(* Every step of the loader and of the firmware keeps the invariant.       *)
LEMMA Inductive == IInv /\ [Next]_vars => IInv'
<1> SUFFICES ASSUME IInv, [Next]_vars PROVE IInv'
  OBVIOUS
<1> USE DEF IInv, NULL, Ended, found, firmware
<1>1. CASE FirmwareEvent
  <2>1. fw' \in [size : 1 .. SIZE_MAX, key : Nat \ {0}] /\ fw'.key = fw.key + 1
    BY <1>1, ChangedType DEF FirmwareEvent
  <2>2. TypeOK'
    BY <1>1, <2>1, BootAssumption DEF FirmwareEvent, TypeOK
  <2>3. KeysIdentifyMaps'
    BY <1>1, <2>1 DEF FirmwareEvent, KeysIdentifyMaps, TypeOK
  <2>4. QED
    BY <1>1, <2>2, <2>3
    DEF FirmwareEvent, NoLeak, CapacityOfBuffer, BufferRead, RecordRead, ExitKey
<1>2. CASE LocateProtocol
  <2>1. TypeOK'
    BY <1>2, BootAssumption DEF LocateProtocol, Refuses, TypeOK
  <2>2. QED
    BY <1>2, <2>1
    DEF LocateProtocol, Refuses, NoLeak, KeysIdentifyMaps, CapacityOfBuffer,
        BufferRead, RecordRead, ExitKey
<1>3. CASE Grow
  <2>1. fw' \in [size : 1 .. SIZE_MAX, key : Nat \ {0}] /\ fw'.key = fw.key + 1
    BY <1>3, ChangedType DEF Grow
  <2>2. map_capacity' \in 0 .. UINTN_MAX
    BY <1>3, NewCapacity DEF Grow
  <2>3. PICK b \in Buffer \ pool : mem_map' = b /\ pool' = (pool \ {mem_map}) \union {b}
    BY <1>3 DEF Grow
  <2>4. TypeOK'
    BY <1>3, <2>1, <2>2, <2>3 DEF Grow, TypeOK, TooSmall
  <2>5. NoLeak'
    BY <1>3, <2>3 DEF Grow, TooSmall, NoLeak, Buffer
  <2>6. KeysIdentifyMaps'
    BY <1>3, <2>1 DEF Grow, KeysIdentifyMaps, TypeOK
  <2>7. QED
    BY <1>3, <2>3, <2>4, <2>5, <2>6
    DEF Grow, TooSmall, CapacityOfBuffer, BufferRead, RecordRead, ExitKey, Buffer
<1>4. CASE GiveUp
  <2>1. TypeOK'
    BY <1>4, BootAssumption DEF GiveUp, Refuses, TypeOK
  <2>2. KeysIdentifyMaps'
    BY <1>4 DEF GiveUp, Refuses, KeysIdentifyMaps
  <2>3. NoLeak'
    BY <1>4 DEF GiveUp, NoLeak
  <2>4. QED
    BY <1>4, <2>1, <2>2, <2>3 DEF GiveUp, CapacityOfBuffer, BufferRead, RecordRead, ExitKey
<1>5. CASE GotMap
  <2>1. fw.size \in 1 .. SIZE_MAX /\ fw.key \in Nat \ {0} /\ mem_map \in Buffer
    BY <1>5, BootAssumption DEF GotMap, TypeOK, CapacityOfBuffer
  <2>2. TypeOK'
    BY <1>5, <2>1, BootAssumption DEF GotMap, TypeOK
  <2>3. KeysIdentifyMaps'
    BY <1>5, <2>1 DEF GotMap, KeysIdentifyMaps, TypeOK
  <2>4. BufferRead'
    BY <1>5, <2>1 DEF GotMap, BufferRead, TypeOK, Buffer
  <2>5. QED
    BY <1>5, <2>2, <2>3, <2>4 DEF GotMap, NoLeak, CapacityOfBuffer, RecordRead, ExitKey
<1>6. CASE update_boot_info
  <2>1. TypeOK'
    BY <1>6 DEF update_boot_info, TypeOK
  <2>2. QED
    BY <1>6, <2>1
    DEF update_boot_info, NoLeak, KeysIdentifyMaps, CapacityOfBuffer, BufferRead,
        RecordRead, ExitKey
<1>7. CASE ExitRefused
  <2>1. TypeOK'
    BY <1>7, BootAssumption DEF ExitRefused, Refuses, TypeOK
  <2>2. QED
    BY <1>7, <2>1
    DEF ExitRefused, Refuses, NoLeak, KeysIdentifyMaps, CapacityOfBuffer, BufferRead,
        RecordRead, ExitKey
<1>8. CASE ExitDone
  <2>1. TypeOK'
    BY <1>8 DEF ExitDone, TypeOK
  <2>2. QED
    BY <1>8, <2>1
    DEF ExitDone, NoLeak, KeysIdentifyMaps, CapacityOfBuffer, BufferRead, RecordRead, ExitKey
<1>9. CASE UNCHANGED vars
  BY <1>9 DEF vars, TypeOK, NoLeak, KeysIdentifyMaps, CapacityOfBuffer, BufferRead,
              RecordRead, ExitKey
<1>10. QED
  BY <1>1, <1>2, <1>3, <1>4, <1>5, <1>6, <1>7, <1>8, <1>9 DEF Next, Loader

(* What the kernel relies on follows from the invariant.                   *)
LEMMA Implied == IInv => HandoffIsCurrent
<1> SUFFICES ASSUME IInv, pc = "kernel" PROVE HandoffIsCurrent
  BY DEF HandoffIsCurrent
<1>1. mem_map \in Buffer /\ mem_map \in pool
  BY DEF IInv, TypeOK, NoLeak, BufferRead
<1>2. filled[mem_map] = fw
  BY <1>1 DEF IInv, KeysIdentifyMaps, BufferRead, ExitKey
<1>3. QED
  BY <1>1, <1>2 DEF IInv, HandoffIsCurrent, BufferRead, RecordRead

-----------------------------------------------------------------------------
(* The loader is type correct: the size it asks of AllocatePool never      *)
(* overflows.                                                              *)
THEOREM TypeCorrect == Spec => []TypeOK
<1>1. IInv => TypeOK
  BY DEF IInv
<1>2. QED
  BY <1>1, InitIInv, Inductive, PTL DEF Spec

(* The kernel is entered with the map the firmware exited with.            *)
THEOREM HandoffCorrect == Spec => []HandoffIsCurrent
  BY InitIInv, Inductive, Implied, PTL DEF Spec

(* No path through the loader loses or keeps a buffer.                     *)
THEOREM LeakFree == Spec => []NoLeak
<1>1. IInv => NoLeak
  BY DEF IInv
<1>2. QED
  BY <1>1, InitIInv, Inductive, PTL DEF Spec

-----------------------------------------------------------------------------
(* The loader as part of the whole.                                        *)

(* A step of the start-up is a step of loader or firmware, or leaves their *)
(* state alone.                                                            *)
LEMMA StartStepOfBoot == [StartNext]_all => [Next]_vars
<1> SUFFICES ASSUME [StartNext]_all PROVE [Next]_vars
  OBVIOUS
<1>1. CASE LoaderStep
  BY <1>1 DEF LoaderStep, Next
<1>2. CASE FirmwareStep
  BY <1>2 DEF FirmwareStep, Next
<1>3. CASE Kernel
  <2>1. ASSUME KeyboardInit PROVE UNCHANGED rest
    BY <2>1 DEF KeyboardInit, Fails, Disable1, Disable2, Drain, SelfTest, TestPassed,
       ReadConfig, TakeConfig, WriteConfig, Reset, Acknowledged, SelfTested, Enable,
       Ask, Expect
  <2>2. UNCHANGED vars
    BY <1>3, <2>1 DEF Kernel, CheckMagic, Tables, Memory, TimerInit, Storage, Sti, rest
  <2>3. QED
    BY <2>2
<1>4. CASE Drive
  BY <1>4 DEF Drive
<1>5. CASE KeyByte \/ Answered \/ TimerIrq \/ KeyboardIrq
  BY <1>5 DEF KeyByte, Answered, Arrives, TimerIrq, KeyboardIrq, rest
<1>6. CASE UNCHANGED all
  BY <1>6 DEF all
<1>7. QED
  BY <1>1, <1>2, <1>3, <1>4, <1>5, <1>6 DEF StartNext

(* The start-up contains the loader's specification, so what is proved of  *)
(* the loader holds for the kernel that it enters: a current map and no    *)
(* buffer lost.                                                            *)
THEOREM StartImplementsBoot == StartSpec => Spec
<1>1. StartInit => Init
  BY DEF StartInit
<1>2. QED
  BY <1>1, StartStepOfBoot, PTL DEF StartSpec, Spec

-----------------------------------------------------------------------------
(* kernel_main.                                                            *)

Set     == Dialogue \union {"drain", "probe", "storage", "console", "loop"}
Place   == {"enter", "tables", "memory", "apic", "halted"} \union Set
NoneDue == Place \ {"halted", "passed", "config", "write", "reset", "ack", "bat"}

(* What is set up before kernel_main comes to a place.                     *)
SetUp ==
  /\ k \in Place
  /\ k \notin {"enter", "tables", "halted"} => {32, 33} \subseteq gates
  /\ k \in Set => tick_hz > 0
  /\ k \in Set \ {"disable1"} => queue
  /\ sti => k = "loop"

(* What the controller may hold or send at each place of the dialogue.     *)
(* Keys may come in between if the interface is not disabled.  A key that  *)
(* is read for an answer ends the dialogue, at once or, if it was taken    *)
(* for the configuration byte, when that byte is read for the              *)
(* acknowledgement: see Stale.                                             *)
Due(byte) == \/ answers = <<byte>> /\ out \in {"empty", "key"}
             \/ answers = << >> /\ out \in {byte, "bad"}

Stale == \/ answers = <<"config">> /\ out = "empty"
         \/ answers = << >> /\ out \in {"config", "bad"}

Talk ==
  /\ k \in NoneDue => answers = << >> /\ out \in {"empty", "key"}
  /\ k = "passed" => Due("passed")
  /\ k = "config" => Due("config")
  /\ k \in {"write", "reset"} => Stale \/ (answers = << >> /\ out \in {"empty", "key"})
  /\ k = "ack" => \/ answers = <<"config", "ack", "bat">> /\ out = "empty"
                  \/ answers = <<"ack", "bat">> /\ out \in {"empty", "key", "config", "bad"}
                  \/ answers = <<"bat">> /\ out \in {"ack", "bad"}
  /\ k = "bat" => \/ answers = <<"bat">> /\ out = "empty"
                  \/ answers = << >> /\ out \in {"bat", "bad"}

KernelInv == SetUp /\ Talk /\ decoded \subseteq {"key"}

(* The state the loader hands over.                                        *)
LEMMA KernelInit == StartInit => KernelInv
  BY DEF StartInit, KernelInv, SetUp, Talk, Place, NoneDue, Set, Dialogue, Due, Stale

(* Bytes that arrive: the answer that is due, anything instead of it, or a *)
(* key when none is due.                                                   *)
LEMMA ArrivalKeeps == KernelInv /\ (KeyByte \/ Answered) => KernelInv'
<1> SUFFICES ASSUME KernelInv, KeyByte \/ Answered PROVE KernelInv'
  OBVIOUS
<1>1. /\ out = "empty" /\ UNCHANGED <<k, gates, sti, tick_hz, port, queue, decoded>>
  BY DEF KeyByte, Answered, Arrives, cpu, keyboard
<1>2. SetUp' /\ decoded' \subseteq {"key"}
  BY <1>1 DEF KernelInv, SetUp
<1>3. CASE KeyByte
  <2>1. port /\ answers = << >> /\ answers' = answers /\ out' = "key"
    BY <1>3 DEF KeyByte, Arrives
  <2>2. Talk'
    BY <1>1, <2>1 DEF KernelInv, SetUp, Talk, NoneDue, Due, Stale, Place
  <2>3. QED
    BY <1>2, <2>2 DEF KernelInv
<1>4. CASE Answered
  <2>1. /\ answers # << >> /\ answers' = Tail(answers) /\ out' \in {Head(answers), "bad"}
    BY <1>4 DEF Answered, Arrives
  <2>2. \A x, y, z : /\ Head(<<x>>) = x /\ Tail(<<x>>) = << >>
                     /\ Head(<<x, y>>) = x /\ Tail(<<x, y>>) = <<y>>
                     /\ Head(<<x, y, z>>) = x /\ Tail(<<x, y, z>>) = <<y, z>>
    OBVIOUS
  <2>3. Talk'
    <3>1. CASE k \in {"passed", "config", "bat"}
      BY <1>1, <2>1, <2>2, <3>1 DEF KernelInv, Talk, NoneDue, Due, Place
    <3>2. CASE k \in {"write", "reset"}
      BY <1>1, <2>1, <2>2, <3>2 DEF KernelInv, Talk, NoneDue, Stale, Place
    <3>3. CASE k = "ack"
      <4>1. CASE answers = <<"config", "ack", "bat">>
        BY <1>1, <2>1, <2>2, <3>3, <4>1 DEF Talk, NoneDue, Place
      <4>2. CASE answers = <<"ack", "bat">>
        BY <1>1, <2>1, <2>2, <3>3, <4>2 DEF Talk, NoneDue, Place
      <4>3. CASE answers = <<"bat">> /\ out \in {"ack", "bad"}
        BY <1>1, <4>3
      <4>4. QED
        BY <3>3, <4>1, <4>2, <4>3 DEF KernelInv, Talk
    <3>4. CASE k \in NoneDue \union {"halted"}
      BY <1>1, <2>1, <3>4 DEF KernelInv, Talk, NoneDue, Place
    <3>5. QED
      BY <3>1, <3>2, <3>3, <3>4 DEF KernelInv, SetUp, NoneDue
  <2>4. QED
    BY <1>2, <2>3 DEF KernelInv
<1>5. QED
  BY <1>3, <1>4

(* The bytes that Reset makes due follow one that is still to come.        *)
LEMMA ThreeDue == <<"config">> \o <<"ack", "bat">> = <<"config", "ack", "bat">>
<1> DEFINE S == {"config", "ack", "bat"}
           s == <<"config">>
           t == <<"ack", "bat">>
           u == <<"config", "ack", "bat">>
           c == s \o t
<1>1. s \in Seq(S) /\ t \in Seq(S) /\ u \in Seq(S)
  OBVIOUS
<1>2. Len(s) = 1 /\ Len(t) = 2 /\ Len(u) = 3
  OBVIOUS
<1>3. s[1] = u[1] /\ t[1] = u[2] /\ t[2] = u[3]
  OBVIOUS
<1> HIDE DEF S, s, t, u
<1>4. /\ c \in Seq(S) /\ Len(c) = Len(s) + Len(t)
      /\ \A i \in 1 .. Len(s) + Len(t) : c[i] = IF i <= Len(s) THEN s[i] ELSE t[i - Len(s)]
  BY <1>1, ConcatProperties, Zenon
<1> HIDE DEF c
<1>5. Len(c) = 3 /\ c[1] = u[1] /\ c[2] = u[2] /\ c[3] = u[3]
  BY <1>2, <1>3, <1>4
<1>6. \A i \in 1 .. 3 : i = 1 \/ i = 2 \/ i = 3
  OBVIOUS
<1>7. \A i \in 1 .. Len(c) : c[i] = u[i]
  BY <1>5, <1>6, Zenon
<1>8. c = u
  BY <1>1, <1>2, <1>4, <1>5, <1>7, SeqEqual
<1>9. QED
  BY <1>8 DEF c, s, t, u

(* keyboard_init.                                                          *)
LEMMA DialogueKeeps == KernelInv /\ KeyboardInit => KernelInv'
<1> SUFFICES ASSUME KernelInv, KeyboardInit PROVE KernelInv'
  OBVIOUS
<1> USE DEF KernelInv, SetUp, Talk, NoneDue, Place, Set, Dialogue, Due, Stale, At, Goto, cpu,
            controller, keyboard
<1>1. CASE Fails
  BY <1>1 DEF Fails
<1>2. CASE Disable1
  BY <1>2 DEF Disable1
<1>3. CASE Disable2
  BY <1>3 DEF Disable2
<1>4. CASE Drain
  BY <1>4 DEF Drain
<1>5. CASE SelfTest
  <2>1. answers = << >> => answers \o <<"passed">> = <<"passed">>
    OBVIOUS
  <2>2. QED
    BY <1>5, <2>1 DEF SelfTest, Ask
<1>6. CASE TestPassed
  BY <1>6 DEF TestPassed, Expect
<1>7. CASE ReadConfig
  <2>1. answers = << >> => answers \o <<"config">> = <<"config">>
    OBVIOUS
  <2>2. QED
    BY <1>7, <2>1 DEF ReadConfig, Ask
<1>8. CASE TakeConfig
  BY <1>8 DEF TakeConfig
<1>9. CASE WriteConfig
  BY <1>9 DEF WriteConfig
<1>10. CASE Reset
  <2>1. answers = << >> => answers \o <<"ack", "bat">> = <<"ack", "bat">>
    OBVIOUS
  <2>2. QED
    BY <1>10, <2>1, ThreeDue DEF Reset
<1>11. CASE Acknowledged
  BY <1>11 DEF Acknowledged, Expect
<1>12. CASE SelfTested
  BY <1>12 DEF SelfTested, Expect
<1>13. CASE Enable
  BY <1>13 DEF Enable
<1>14. QED
  BY <1>1, <1>2, <1>3, <1>4, <1>5, <1>6, <1>7, <1>8, <1>9, <1>10, <1>11, <1>12, <1>13
  DEF KeyboardInit

(* No step of loader, kernel, devices or interrupts breaks the invariant.  *)
LEMMA KernelNext == KernelInv /\ [StartNext]_all => KernelInv'
<1> SUFFICES ASSUME KernelInv, [StartNext]_all PROVE KernelInv'
  OBVIOUS
<1>1. CASE UNCHANGED <<k, cpu, controller, keyboard>>
  BY <1>1 DEF KernelInv, SetUp, Talk, Due, Stale, cpu, controller, keyboard
<1>2. CASE LoaderStep \/ FirmwareStep \/ Drive \/ UNCHANGED all
  BY <1>1, <1>2 DEF LoaderStep, FirmwareStep, Drive, all, kernel
<1>3. CASE KeyByte \/ Answered
  BY <1>3, ArrivalKeeps
<1>4. CASE KeyboardInit
  BY <1>4, DialogueKeeps
<1> USE DEF KernelInv, SetUp, Talk, NoneDue, Place, Set, Dialogue, Due, Stale, At, Goto, cpu,
            controller, keyboard
<1>5. CASE CheckMagic
  BY <1>5 DEF CheckMagic
<1>6. CASE Tables
  BY <1>6 DEF Tables
<1>7. CASE Memory
  BY <1>7 DEF Memory
<1>8. CASE TimerInit
  BY <1>8 DEF TimerInit
<1>9. CASE Storage
  BY <1>9 DEF Storage
<1>10. CASE Sti
  BY <1>10 DEF Sti
<1>11. CASE TimerIrq
  BY <1>11 DEF TimerIrq
<1>12. CASE KeyboardIrq
  BY <1>12 DEF KeyboardIrq
<1>13. QED
  BY <1>2, <1>3, <1>4, <1>5, <1>6, <1>7, <1>8, <1>9, <1>10, <1>11, <1>12
  DEF StartNext, Kernel

(* The kernel keeps its invariant through any start-up.                    *)
LEMMA KernelAlways == StartSpec => []KernelInv
  BY KernelInit, KernelNext, PTL DEF StartSpec

(* Whatever fails and in whatever order, interrupts are enabled only when  *)
(* the gates are set, the queue is initialised and the timer has a         *)
(* frequency.                                                              *)
THEOREM HandlersInPlace == StartSpec => []InterruptsFindHandlers
<1>1. KernelInv => InterruptsFindHandlers
  BY DEF KernelInv, SetUp, InterruptsFindHandlers, Set
<1>2. QED
  BY <1>1, KernelAlways, PTL

(* No byte of the dialogue with the controller, true or not, is ever       *)
(* decoded as a key.                                                       *)
THEOREM DialogueIsOver == StartSpec => []NoPhantomKey
<1>1. KernelInv => NoPhantomKey
  BY DEF KernelInv, NoPhantomKey
<1>2. QED
  BY <1>1, KernelAlways, PTL

-----------------------------------------------------------------------------
(* The drive as part of the whole.                                         *)

(* A step of the start-up is one of the driver, its callers or the drive,  *)
(* or leaves them alone.                                                   *)
LEMMA StartStepOfAta ==
  ASSUME [StartNext]_all
  PROVE  Driver \/ Caller \/ Answer \/ Commit \/ UNCHANGED ata
<1>1. CASE LoaderStep \/ FirmwareStep \/ UNCHANGED all
  BY <1>1 DEF LoaderStep, FirmwareStep, kernel, all
<1>2. CASE Kernel
  <2>1. ASSUME KeyboardInit PROVE UNCHANGED rest
    BY <2>1 DEF KeyboardInit, Fails, Disable1, Disable2, Drain, SelfTest, TestPassed,
       ReadConfig, TakeConfig, WriteConfig, Reset, Acknowledged, SelfTested, Enable,
       Ask, Expect
  <2>2. ASSUME Storage PROVE Driver \/ Caller \/ UNCHANGED ata
    BY <2>2 DEF Storage
  <2>3. QED
    BY <1>2, <2>1, <2>2 DEF Kernel, CheckMagic, Tables, Memory, TimerInit, Sti, rest
<1>3. CASE Drive
  BY <1>3 DEF Drive
<1>4. CASE KeyByte \/ Answered \/ TimerIrq \/ KeyboardIrq
  BY <1>4 DEF KeyByte, Answered, Arrives, TimerIrq, KeyboardIrq, rest
<1>5. QED
  BY <1>1, <1>2, <1>3, <1>4 DEF StartNext

(* Everything the start-up does with the drive, driver, callers and drive  *)
(* do by themselves in Ata, so what AtaProofs shows holds for it.          *)
THEOREM StartImplementsAta == StartSpec => AtaSpec
<1>1. StartInit => AtaInit
  BY DEF StartInit
<1>2. [StartNext]_all => [AtaNext]_ata
  <2> SUFFICES ASSUME [StartNext]_all PROVE [AtaNext]_ata
    OBVIOUS
  <2>1. CASE Driver \/ Caller \/ Answer \/ Commit
    BY <2>1 DEF AtaNext
  <2>2. CASE UNCHANGED ata
    BY <2>2
  <2>3. QED
    BY <2>1, <2>2, StartStepOfAta
<1>3. QED
  BY <1>1, <1>2, PTL DEF StartSpec, AtaSpec
=============================================================================
