------------------------------ MODULE Startup ------------------------------
(***************************************************************************)
(* From the firmware to the main loop: the loader (Boot), then kernel_main *)
(* (kernel/main.c) with the interrupt gates (idt.c), the timer (apic.c),   *)
(* the dialogue with the keyboard controller (keyboard_init), the drive    *)
(* (Ata) and, once interrupts are enabled, the first interrupts.           *)
(*                                                                         *)
(* External: the 8042 controller with the keyboard behind it, the user,    *)
(* the latch for IRQ 1 in the 8259, and whether hardware is there at all.  *)
(* A byte in the controller's output buffer is named for what it is; a key *)
(* byte is any scan code.  Serial output and the boot screen are left out. *)
(***************************************************************************)
EXTENDS Boot, Ata, Sequences

CONSTANTS
  VmmOutcomes,           \* how vmm_init may end: subset of {"mapped", "fault"}
  TRANSFER_MAX           \* bound on the sector transfers of the storage phase

VARIABLES
  suspect,  \* the one device that may misbehave
  k,        \* where kernel_main is
  gates,    \* the interrupt gates that are set up
  sti,      \* the processor takes interrupts
  tick_hz,  \* 0 until the timer runs
  ticks,    \* 0, or 1 for any later count
  masked,   \* IRQ 1 is masked in the 8259
  irr,      \* IRQ 1 is latched in the 8259
  out,      \* the controller's output buffer
  answers,  \* the bytes controller and keyboard have yet to send
  port,     \* the keyboard interface is enabled
  irq_on,   \* the configuration byte enables IRQ 1
  config,   \* what keyboard_init took for the configuration byte
  queue,    \* input_init was called
  decoded,  \* history: the bytes keyboard_irq has read
  transfers

ASSUME StartupAssumption == TRANSFER_MAX \in Nat /\ VmmOutcomes \subseteq {"mapped", "fault"}

cpu        == <<gates, sti, tick_hz, ticks>>
controller == <<out, answers, port, irq_on, irr>>
keyboard   == <<config, queue, masked, decoded>>
kernel     == <<suspect, k, cpu, controller, keyboard, transfers, ata>>
all        == <<vars, kernel>>
rest       == <<vars, suspect, transfers, ata>>

Exceptions == {0, 1, 3, 6, 8, 13, 14}
At(place)  == pc = "kernel" /\ k = place
Goto(next) == k' = next

-----------------------------------------------------------------------------
(* The controller, the keyboard and the user.                              *)

(* A byte enters the output buffer, and IRQ 1 is raised if it is enabled.  *)
Arrives(byte) ==
  /\ pc = "kernel" /\ out = "empty" /\ out' = byte
  /\ irr' = (irr \/ irq_on)
  /\ UNCHANGED <<rest, k, cpu, port, irq_on, keyboard>>

(* The user presses a key.                                                 *)
KeyByte ==
  /\ suspect = "controller" /\ port /\ answers = << >>
  /\ Arrives("key") /\ UNCHANGED answers

(* The controller or the keyboard answers; one that is broken answers      *)
(* anything, with one byte for each that is due.                           *)
Answered ==
  /\ answers # << >> /\ answers' = Tail(answers)
  /\ \/ Arrives(Head(answers))
     \/ suspect = "controller" /\ Arrives("bad")

-----------------------------------------------------------------------------
(* kernel_main up to apic_timer_init.                                      *)

CheckMagic ==
  /\ At("enter") /\ Goto(IF boot_info.magic THEN "tables" ELSE "halted")
  /\ UNCHANGED <<rest, cpu, controller, keyboard>>

(* gdt_init and idt_init.                                                  *)
Tables ==
  /\ At("tables") /\ Goto("memory")
  /\ sti' = FALSE /\ gates' = Exceptions \union 32 .. 47
  /\ UNCHANGED <<rest, tick_hz, ticks, controller, keyboard>>

(* pmm_init, vmm_init, heap_init, scheduler_init, syscall_init.  A fault   *)
(* ends in exception_dispatch, which halts.                                *)
Memory ==
  /\ At("memory")
  /\ \E outcome \in VmmOutcomes : Goto(IF outcome = "fault" THEN "halted" ELSE "apic")
  /\ UNCHANGED <<rest, cpu, controller, keyboard>>

(* Initialising the 8259 clears its latch.                                 *)
pic_mask_all == masked' = TRUE /\ irr' = FALSE

(* Mutant of TimerInit: a failure is reported and ignored.                 *)
TimerInitGoesOn ==
  /\ At("apic") /\ Goto("disable1") /\ pic_mask_all
  /\ \/ UNCHANGED <<tick_hz, ticks>>
     \/ tick_hz' = 100 /\ ticks' = 0
  /\ UNCHANGED <<rest, gates, sti, out, answers, port, irq_on, config, queue, decoded>>

(* apic_timer_init: no usable local APIC; or a calibration that fails or   *)
(* a timer that ticks, with the 8259 masked.                               *)
TimerInit ==
  /\ At("apic")
  /\ \/ Goto("halted") /\ UNCHANGED <<masked, irr, tick_hz, ticks>>
     \/ Goto("halted") /\ pic_mask_all /\ UNCHANGED <<tick_hz, ticks>>
     \/ Goto("disable1") /\ pic_mask_all /\ tick_hz' = 100 /\ ticks' = 0
  /\ UNCHANGED <<rest, gates, sti, out, answers, port, irq_on, config, queue, decoded>>

-----------------------------------------------------------------------------
(* keyboard_init.  Each command first waits until the controller accepts   *)
(* it; that wait, and the wait for an answer, may run out.                 *)

Dialogue == {"disable1", "disable2", "test", "passed", "ask", "config", "write",
             "reset", "ack", "bat", "enable"}

(* Mutant of Fails: the wait for the result of the self test has no limit. *)
FailsNotAtBat ==
  /\ pc = "kernel" /\ k \in Dialogue \ {"bat"} /\ Goto("halted")
  /\ UNCHANGED <<rest, cpu, controller, keyboard>>

Fails ==
  /\ pc = "kernel" /\ k \in Dialogue /\ Goto("halted")
  /\ UNCHANGED <<rest, cpu, controller, keyboard>>

(* A controller that is broken may leave the keyboard enabled.             *)
Disable1 ==
  /\ At("disable1") /\ Goto("disable2") /\ queue' = TRUE
  /\ port' \in IF suspect = "controller" THEN BOOLEAN ELSE {FALSE}
  /\ UNCHANGED <<rest, cpu, out, answers, irq_on, irr, config, masked, decoded>>

Disable2 ==
  /\ At("disable2") /\ Goto("drain")
  /\ UNCHANGED <<rest, cpu, controller, keyboard>>

(* The loop that empties the output buffer has no limit.                   *)
Drain ==
  /\ At("drain")
  /\ IF out = "empty" THEN Goto("test") /\ UNCHANGED out ELSE out' = "empty" /\ UNCHANGED k
  /\ UNCHANGED <<rest, cpu, answers, port, irq_on, irr, keyboard>>

Ask(place, next, bytes) ==
  /\ At(place) /\ Goto(next) /\ answers' = answers \o bytes
  /\ UNCHANGED <<rest, cpu, out, port, irq_on, irr, keyboard>>

SelfTest   == Ask("test", "passed", <<"passed">>)
ReadConfig == Ask("ask", "config", <<"config">>)

(* An answer is read; any other byte than the expected one is a failure.   *)
Expect(byte, next) ==
  /\ At(byte) /\ out # "empty" /\ out' = "empty"
  /\ Goto(IF out = byte THEN next ELSE "halted")
  /\ UNCHANGED <<rest, cpu, answers, port, irq_on, irr, keyboard>>

TestPassed == Expect("passed", "ask")

(* The configuration byte can be any value, so it is not compared.         *)
TakeConfig ==
  /\ At("config") /\ out # "empty" /\ config' = out /\ out' = "empty" /\ Goto("write")
  /\ UNCHANGED <<rest, cpu, answers, port, irq_on, irr, queue, masked, decoded>>

(* Bit 4 of it, which is written back as it was read, disables the         *)
(* interface; bit 0 enables IRQ 1.                                         *)
WriteConfig ==
  /\ At("write") /\ Goto("reset") /\ irq_on' = TRUE
  /\ port' \in IF config = "config" THEN {port} ELSE BOOLEAN
  /\ irr' = (irr \/ out # "empty")
  /\ UNCHANGED <<rest, cpu, out, answers, keyboard>>

(* A byte for the keyboard enables its interface again.                    *)
Reset ==
  /\ At("reset") /\ Goto("ack") /\ answers' = answers \o <<"ack", "bat">> /\ port' = TRUE
  /\ UNCHANGED <<rest, cpu, out, irq_on, irr, keyboard>>

(* Mutant of Acknowledged: the result of the self test is left unread.     *)
AcknowledgedOnly == Expect("ack", "enable")

Acknowledged == Expect("ack", "bat")
SelfTested   == Expect("bat", "enable")

(* Mutant of Enable: IRQ 1 stays masked.                                   *)
EnableMasked ==
  /\ At("enable") /\ Goto("probe") /\ port' = TRUE
  /\ UNCHANGED <<rest, cpu, out, answers, irq_on, irr, keyboard>>

(* The keyboard is enabled and IRQ 1 unmasked.                             *)
Enable ==
  /\ At("enable") /\ Goto("probe") /\ port' = TRUE /\ masked' = FALSE
  /\ UNCHANGED <<rest, cpu, out, answers, irq_on, irr, config, queue, decoded>>

KeyboardInit == \/ Fails \/ Disable1 \/ Disable2 \/ Drain \/ SelfTest \/ TestPassed
                \/ ReadConfig \/ TakeConfig \/ WriteConfig \/ Reset \/ Acknowledged
                \/ SelfTested \/ Enable

-----------------------------------------------------------------------------
(* The drive is probed, then vfs_init and later calls transfer sectors.    *)
(* The interrupt handlers touch nothing of the drive, so the transfers are *)
(* explored here, before the interrupts.                                   *)

Storage ==
  /\ pc = "kernel" /\ k \in {"probe", "storage"}
  /\ \/ Driver /\ Goto("storage") /\ UNCHANGED transfers
     \/ /\ k = "storage" /\ transfers < TRANSFER_MAX /\ Caller
        /\ transfers' = transfers + 1 /\ UNCHANGED k
     \/ k = "storage" /\ wait = "none" /\ Goto("console") /\ UNCHANGED <<transfers, ata>>
  /\ UNCHANGED <<vars, suspect, cpu, controller, keyboard>>

Drive ==
  /\ k = "storage" /\ (Answer \/ Commit)
  /\ UNCHANGED <<vars, suspect, k, cpu, controller, keyboard, transfers>>

(* console_init, and the loop is entered with interrupts enabled.          *)
Sti ==
  /\ At("console") /\ Goto("loop") /\ sti' = TRUE
  /\ UNCHANGED <<rest, gates, tick_hz, ticks, controller, keyboard>>

(* timer_irq.                                                              *)
TimerIrq ==
  /\ pc = "kernel" /\ sti /\ tick_hz > 0 /\ ticks' = 1
  /\ UNCHANGED <<rest, k, gates, sti, tick_hz, controller, keyboard>>

(* keyboard_irq reads the byte, if there is one.                           *)
KeyboardIrq ==
  /\ pc = "kernel" /\ sti /\ irr /\ ~masked /\ irr' = FALSE
  /\ out' = "empty" /\ decoded' = decoded \union ({out} \ {"empty"})
  /\ UNCHANGED <<rest, k, cpu, answers, port, irq_on, config, queue, masked>>

Kernel == CheckMagic \/ Tables \/ Memory \/ TimerInit \/ KeyboardInit \/ Storage \/ Sti

(* The firmware may leave the keyboard enabled and a byte in the buffer.   *)
(* At most one device misbehaves in a behaviour: the firmware changes its  *)
(* map by itself or refuses a service; or the controller fails while keys  *)
(* are pressed; or a drive is attached.                                    *)
StartInit ==
  /\ suspect \in {"firmware", "controller", "drive"}
  /\ Init /\ AtaInit
  /\ suspect # "firmware" => fw.size = 1
  /\ suspect # "drive" => kind = "none" /\ sectors = [l \in Sector |-> NoCall.data]
  /\ k = "enter" /\ gates = {} /\ sti = FALSE /\ tick_hz = 0 /\ ticks = 0
  /\ masked \in BOOLEAN /\ irr \in BOOLEAN /\ irq_on \in BOOLEAN /\ out \in {"empty", "key"}
  /\ suspect # "controller" => masked /\ ~irr /\ irq_on /\ out = "empty"
  /\ answers = << >> /\ port = TRUE /\ config = "none" /\ queue = FALSE
  /\ decoded = {} /\ transfers = 0

LoaderStep ==
  /\ Loader /\ UNCHANGED kernel
  /\ suspect # "firmware" => failures' = failures

FirmwareStep == suspect = "firmware" /\ FirmwareEvent /\ UNCHANGED kernel

StartNext == \/ LoaderStep \/ FirmwareStep
             \/ Kernel \/ Drive \/ KeyByte \/ Answered \/ TimerIrq \/ KeyboardIrq

StartSpec == StartInit /\ [][StartNext]_all

(* The processor keeps executing; interrupts that are due are taken.       *)
FairStart == /\ StartSpec
             /\ WF_all(LoaderStep) /\ WF_all(Kernel)
             /\ WF_all(TimerIrq) /\ WF_all(KeyboardIrq)

-----------------------------------------------------------------------------
(* Interrupts are enabled only when both gates are set, the queue is       *)
(* initialised and timer_irq has a frequency to divide by: no failure on   *)
(* the way, in whatever order, leads into the loop without one of them.    *)
InterruptsFindHandlers ==
  pc = "kernel" /\ sti => {32, 33} \subseteq gates /\ queue /\ tick_hz > 0

(* The interrupt handler decodes only key bytes: no acknowledgement, test  *)
(* result or wrong answer of the controller is left over from the start-up *)
(* and typed into the console.                                             *)
NoPhantomKey == decoded \subseteq {"key"}

(* A kernel that is entered comes to its main loop or halts, also when the *)
(* controller leaves the keyboard enabled, answers wrongly or not at all,  *)
(* and when the drive never answers.  One thing keeps it from doing so:    *)
(* the loop that drains the controller has no limit, and goes on for ever  *)
(* if bytes never stop coming.  (The serial port is left out; its waits    *)
(* have no limit either and are taken to end.)                             *)
Flooded == []<>(k = "drain" /\ out # "empty")
StartsOrHalts == ((pc = "kernel") ~> (k \in {"loop", "halted"})) \/ Flooded

(* A byte that is in the controller's buffer in the main loop, or came     *)
(* there before it, is read in the end.  While it stays no other byte      *)
(* arrives, so one whose interrupt was lost would silence the keyboard.    *)
KeyboardNotWedged == (k = "loop" /\ out # "empty") ~> (out = "empty")
=============================================================================
