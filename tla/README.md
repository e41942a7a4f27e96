# A TLA+ verification of MinOS

MinOS is a small x86_64 UEFI kernel: a boot loader that takes over from the
firmware, memory management, a PS/2 keyboard feeding an input queue, a console
with a line editor, and a filesystem on an ATA disk. This directory holds TLA+
models of its parts, TLC configurations that check them on small instances, and
TLAPS proofs of the results that can be had for every instance.

Every definition is translated from the source. `PROJECT.json` maps each one to
the lines it stands for, lists what each run checks, and gives for every
property a mutation of the code that breaks it.

## 1. Inventory

| Part (files) | State it keeps | Operations | What makes it hard |
| --- | --- | --- | --- |
| Boot loader (`boot/bootx64.c`) | buffer, capacity and key of the memory map; the handoff record | grow the buffer, read the map, exit boot services, retry | the firmware's map changes under the loader, by the loader's own allocations too |
| Frame allocator (`kernel/pmm.c`) | bitmap, number of frames, free counter | init, allocate one or a run, free, reserve | unsigned counters, holes in the map, double frees |
| Virtual memory (`kernel/vmm.c`) | page tables in frames of the allocator | init, map, unmap | tables are written through the mapping they create |
| Heap (`kernel/heap.c`) | slab list on pages of both | init, kmalloc, kfree | a frame that is there and a mapping that is not |
| Scheduler and system calls (`kernel/scheduler.c`, `kernel/syscall.c`) | ready list through the control blocks, current thread | create, schedule, yield, exit; dispatch | nothing: no call gets past the memory the heap refuses |
| Interrupts and timer (`kernel/idt.c`, `kernel/apic.c`) | gates, handlers, tick counter | dispatch, timer interrupt, masking | handlers strike between any two instructions of the main loop |
| Keyboard (`kernel/keyboard.c`) | prefix flag, modifier bits | dialogue with the controller; one interrupt per scan code byte | keys pressed during the dialogue; state carried from byte to byte |
| Input queue (`kernel/input.c`) | ring with two indices | push in the interrupt, pop in the main loop | one producer, one consumer, no lock; the ring at its limit |
| Console (`kernel/console.c`) | line, cursor, history, working directory | one action per key; the commands | arrays edited in place; long key sequences |
| Filesystem (`kernel/vfs.c`) | record table and content cache in memory, metadata and data sectors on disk | mkdir, rmdir, touch, rm, cat, write, append, cp, mv; mount | power loss between sectors, failed transfers, stale cache, slot reuse |
| ATA driver (`kernel/ata.c`) | presence and size of the disk | identify, read, write a sector | a drive that fails, hangs or answers after the driver gave up |
| Disk image (`tools/mkdisk.py`) | layout of the image | build | must agree with the filesystem about sectors |
| Main loop (`kernel/main.c`) | none | start-up, then poll and halt | the order of start-up when a step fails; a key arriving just before `hlt` |

They interact as follows. The loader passes one handoff record to `kernel_main`,
which passes it to the frame allocator. Page tables and heap call the frame
allocator. The keyboard interrupt pushes decoded events into the queue; the main
loop pops them in `console_poll`, edits the line, and on Enter runs a command,
which may call the filesystem, which calls the ATA driver sector by sector. Only
the interrupt handlers run concurrently with the main loop; the filesystem is
called from the main loop alone.

What makes the parts correct:

- boot: the kernel gets the map the firmware exited with; nothing leaks; the
  loops end;
- start-up: it comes to the main loop or halts; interrupts find handlers; no
  answer of a device is taken for another or left over;
- drive: a sector read is that sector; a write reported done is stored and has left
  the drive's cache; every transfer returns;
- frames: no frame has two owners; the counter matches the bitmap; only
  conventional memory is handed out;
- queue: a FIFO that loses events only when full; every accepted event is handled;
- keyboard: the event names the key; no modifier is stuck; Shift and Caps Lock
  give the right character;
- line editor: the array is always the text the user sees; history recalls what
  was run;
- filesystem: the table is a tree; a mount finds the old tree or the new one; an
  acknowledged write is read back; mv never loses the file; without faults it is
  a map from paths to contents;
- shell: paths resolve as defined; a removed working directory leads nowhere; what
  find shows is all there is.

At this commit `vmm_init` writes to page tables through the direct map before the
direct map exists, and `walk_pml4` takes a missing table for one at physical
address 0, so start-up ends in a fault (run `vmm`). The other parts are checked over the
states their own interfaces can reach, as if `vmm_init` succeeded; in `Startup`
its outcome is a parameter. Behind it, `kmalloc` returns NULL on every call (theorem
`KmallocReturnsNull`), so that `scheduler_init` and `thread_create` return at once, no
thread ever exists, and the calls on threads return in their first line: scheduler and
system calls have no state that could change and no module.

The hazards, each at its line, with the properties aimed at it, are in
`PROJECT.json`.

## 2. Modules

| Module | Models | Used by |
| --- | --- | --- |
| `Startup`, `StartupProofs` | `kernel_main` with gates, timer, `keyboard_init`, drive and first interrupts; extends `Boot` and `Ata`; the theorems about start-up and loader | run `startup` |
| `Boot` | `efi_main`, `get_memory_map`, `update_boot_info`, against an external firmware | `Startup` |
| `Ata`, `AtaProofs` | the ATA driver against an external drive; its theorems | `Startup`; run `ata` |
| `Heap`, `MemoryProofs` | `kmalloc` on the frame allocator; extends `Pmm`; the theorems about both | run `memory` (`MCHeap`) |
| `Pmm` | the frame allocator | `Heap`; run `pmm_hole` (`MCPmm`) |
| `Vmm` | `vmm_init`, `walk_pml4`, against an external page walk | run `vmm` |
| `InputPath`, `InputProofs` | decoder, ring and main loop together; extends `InputLoop`, instantiates `Keyboard`; the theorems about all three | run `input` |
| `InputLoop` | queue, interrupts and main loop; refines `LossyFifo` | `InputPath` |
| `LossyFifo` | abstract bounded FIFO that may refuse | `InputLoop` |
| `Keyboard` | the scan code decoder, fed by an external keyboard | `InputPath` |
| `Console`, `ConsoleProofs` | line editor and history; refines `LineEditor`; its theorems | run `console` (`MCConsole`) |
| `LineEditor` | abstract text with a cursor and a list of earlier lines | `Console` |
| `Shell`, `ShellProofs` | file commands, paths, working directory, reboot; extends `Vfs`; its theorems | run `shell` (`MCShell`) |
| `Vfs`, `VfsProofs`, `VfsTreeProofs` | filesystem, disk, faults and power; refines `FileStore`; its theorems: contents, the tree, and the refinement | `Shell`; runs `vfs_*` (`MCVfs`) |
| `FileStore` | abstract map from paths to contents | `Vfs` |

Definitions whose comment starts with "Mutant of" are the deliberately wrong
variants `PROJECT.json` names; no action uses them.

### Boot

`fw` is the firmware's map, as size and key; `pool` the buffers allocated from
it. `Grow` is one turn of the loop in `get_memory_map` (AllocatePool, FreePool,
new capacity), `GiveUp` its four error returns, `GotMap` its success.
`update_boot_info` fills the handoff record and decides, on a retry, whether to
halt. `ExitRefused` and `ExitDone` are the two outcomes of ExitBootServices. The
firmware may change the map (`FirmwareEvent`) between any two of these steps.
The byte totals, CPU vendor and framebuffer fields of the record are displayed
only and left out.

### Startup and Ata

`k` is where `kernel_main` is; it runs once `Boot` has left the firmware. `Tables`,
`Memory` and `TimerInit` stand for the set-up calls with their outcomes; the steps
of `KeyboardInit` are the commands and answers of `keyboard_init` one by one, with
the 8042, the keyboard behind it, the user and the latch for IRQ 1 in the 8259 as
environment: a key byte or an answer may arrive between any two of them. `Storage`
probes the drive and makes `TRANSFER_MAX` transfers; `Sti` enters the loop, and
`TimerIrq` and `KeyboardIrq` are the first interrupts. `VmmOutcomes` says how
`vmm_init` may end: of its two members the code at this commit has only the fault;
the other is what the calls after it are written for.

`suspect` is chosen at the start and never changes: one device per behaviour may
misbehave (the firmware changes its map or refuses a service, the controller
answers nonsense and may not obey the disable command while keys are pressed, or a
drive of any kind is attached). The three do not share state, so that combining them
would multiply the states and show nothing new. A wrong answer is one byte in the
place of the right one, and the devices start no conversation of their own except
for keys.

In `Ata` the drive is busy, has data, is storing, has failed or hangs; while it is
busy or has data it ignores the command register. What it was sent it stores or keeps
in a volatile write cache (`dirty`) until a flush. It may fail or be late before the
data and after it. Each wait of the driver is one step that finds what it looks for or
gives up; a drive that is given up answers later, or never. The drive is busy from the
last data word on; BSY is not modelled as rising a moment later. `promise`, `doubt` and
`abandoned` are history variables: per sector, what a reader may be given; whether the
drive failed after taking the data of the write in progress or ignored its flush; and
whether the answer to a command that was given up before its data may still come. The
driver does not survive three things such a drive does: it answers a command late, it
fails after the data, or it is still busy when the flush command comes. Run `ata` shows
the last, which needs neither a fault nor a delay; run `startup`, with all of them, says
what holds otherwise.

### Vmm

Memory is an array of words, `N` to a frame; tables have three levels as in the
code, the last mapping large pages. The steps are those of `vmm_init`; a write
through the direct map faults unless the firmware happens to map it, and after the
load of CR3 the processor fetches the next instruction through the new tables.
Words behind the last frame are there so that an index past a table has a target.

### Heap

Two steps, `kmalloc` up to the frame and `slab_alloc` from there; the other
users of the frame allocator call it before and after. The heap's addresses lie above
`MINOS_HHDM_BASE`, where `vmm_map_user_page` accepts nothing, so that the frame is
always given back and `kmalloc` always returns NULL; `HeapAssumption` states the
layout. `block` is what `kmalloc` returned, and `entry`, a history variable, is
bitmap and counter as they were when it was called. What the code does with a finished
slab is not modelled: no state reaches it.

### Pmm

`bitmap` is the set of frames whose bit is set. The actions are the functions of
`pmm.c`. Counters are unsigned and wrap at `WORD`. `usable`, `held`, `pinned` and
`grant` are history variables: conventional frames, frames held by callers,
frames the kernel reserved, frames handed out by the last call. Callers may free
a frame twice as long as nobody else has it. Machines with memory above 64 GiB
are excluded by `BootInfoAssumption`: there `pmm_init` computes an end below a
start and accesses the bitmap out of bounds. `reserved_bytes_total` is only
printed and left out. A handoff record without a map leads to a bitmap without a
frame. A frame that is reserved while a caller holds it is not among `pinned`: the
call succeeds and the reservation is gone when the caller frees the frame
(`pmm_reserve` has no caller at this commit).

### InputLoop

The interrupt handler is one step, because interrupt gates clear IF. `input_pop`
is three steps (test, copy, advance), as the handler may strike between any two.
The two indices are volatile; the queue entries are not, and the model takes the
compiler to keep the copy of an entry between the accesses to the indices. `Halt` is the `hlt` after `console_poll`; any interrupt
wakes the loop.

### Keyboard

The user presses, releases and holds keys; the bytes of each wait on `wire` until
`keyboard_irq` takes them one at a time. `PrefixByte`, `ModifierByte` and
`OrdinaryByte` are the three ways through the handler. The key tables are kept
for one letter, one digit, one arrow key, the modifiers and Pause; every other row
behaves as one of these. `seen` and `caps` are what the decoder should know, and
`clipped` the modifiers whose bit was cleared while a key of theirs stayed down: one
bit stands for the left and the right key, and Pause ends in the break code of Ctrl.

`InputPath` puts the decoder in front of the ring: a byte that completes an event
is one `KeyboardIrq` of `InputLoop`, any other byte only wakes the processor.

### Console

`command` is the character array with its stale bytes behind the terminator;
`Inserted` and `Backspace` are its shifting loops in closed form. `history` is the
used part of the array, newest first. What a command does is left to `Shell`, except
that it may change the prompt's length, which Tab depends on. The blinking of the
cursor is left out: it is drawn and nothing else.

### Vfs

Calls are made one at a time from the main loop. A call first changes the table
and the cache in memory and then writes sectors, and each sector write is a step
of its own (`StoreSector`, `PersistSector`), so that power can be lost between
any two (`Crash`) and any one can fail (`StoreFails`, `PersistFails`). A failed
write may or may not have reached the disk: `ata_transfer` also fails when the
wait after the cache flush times out. `PowerOn` is `vfs_init`. `todo` holds the
calls `vfs_copy` and `vfs_move` still have to make. Paths are normalized
sequences of names; the unit of content is the sector, so that a file of
`DATA_SECTORS` units is one of 4096 bytes. Records lie back to back in the
metadata, so that some have their name in one sector and their fields in the
next, as in the real layout. `want`, `claim`, `saved` and `cargo` are history
variables: promised contents, the promise of the write in progress, the table of
the last complete save, and what an mv carries.

`world` is chosen at the start and never changes: which calls are made together
with what may go wrong, so that one run covers combinations that do not all hold
the same promises.

`InputAssumption` bounds the depth of a path by `DEPTH_MAX`, the length of `parts[]`
in `vfs_normalize` and of `stack[]` in `find`. `LayoutAssumption` states what the
proofs need of the layout: the parts of a record lie inside the metadata, its name not
behind its fields, and the root's fields in the sector with the magic number.

Assumed: a sector write is atomic, and one that reported success is on the disk; what
the driver really ensures of that is the subject of `Ata`. Left out: the generation number (written, never
compared) and the 127-byte limit of `cat`'s buffer.

### Shell

`cwd` is the working directory; a typed path is a sequence of what stands between
its slashes, with the lengths the limits of `vfs_normalize` need. `OnPath` is a
command with one path: `console_arg`, then the call of `Vfs`, whose sector writes
follow as `Transfer` steps. `Cd` without an argument takes its own name for the
path, as the code does. `PowerOff` is reboot or shutdown; `cwd` is "/" after it.
`scope` and `orderly` are history variables: how far up the path just typed may
lead, and whether the machine was switched off by a command. `ls`, `tree` and
`find` change nothing; `console_find_walk` is the set of paths they show. Splitting
the line into words is left out.

## 3. Runs

Passing runs:

- `shell` (four records, two names, eleven paths; four kinds of session: directory
  commands with power loss anywhere, directory commands with cd and reboot, file
  commands with cd, and commands one of whose transfers times out): `SessionOK` (with the type invariant of `Vfs`), `TreeWellFormed`,
  `NormalizeResolves`, `FindListsSubtree`, `MountRestoresTree`, `MountKeepsDisk`,
  `StaleCwdInert`, `OffKeepsTree`. Three metadata sectors with two
  records that straddle a sector boundary, so that a torn save mixes an old name with
  new fields; three non-root slots fill the table. Depth 2 and a path length of 17
  put directories at both limits, and one name is one character too long. Power
  loss and cd are not combined: a crash resets `cwd`.
- `vfs_content` (two files of two sectors): `ReadBack` and `MoveKeepsContent`, in two worlds. With power loss anywhere, `append` is left out,
  see the findings. With up to two failed transfers there is no power loss; two
  failures allow one to leave memory and disk apart and another to strike while they
  are.
- `vfs_refines` (no faults, all nine calls, with and without a disk, table full
  with two entries): `Implements`, that is `FileStore`.
- `memory` (ten frames; no map, maps without a hole, with a hole, and with more reserved than
  conventional frames; kmalloc among the callers): `TypeOK`, `CounterMatchesBitmap`,
  `HoleFreeMapsAreSafe`, `HandoutExclusive`, `KmallocLeavesNothing`.
- `input` (ring of three, four events, so that it fills and wraps; both Shift keys, an
  extended Ctrl key, Caps Lock, a letter, a digit, an extended arrow key and Pause):
  `TypeOK`, `ModifiersFollowKeys`, `EventNamesKey`, `ShiftedCharacter`, `Implements`,
  that is `LossyFifo`, and `EventuallyHandled`. One key at a time is on the wire: the
  decoder works byte by byte and knows nothing of what waits.
- `console` (lines of up to three characters, two history entries): `TypeOK`,
  `LineIsString`, `Implements`, that is `LineEditor`, and `RecallsLast`. With
  length three an edit in the middle has text on both sides; with two entries
  newest and oldest differ and old ones drop out.
- `startup` (maps of up to five descriptors, three spontaneous changes, one refused
  service, the size limit so low that the overflow test is reached; a drive of two
  sectors asked for a third, two transfers, so that one can follow a failed one): `TypeOK`, `HandoffIsCurrent`, `NoLeak`, `Terminates`
  of the loader; `InterruptsFindHandlers`, `NoPhantomKey`, `StartsOrHalts`,
  `KeyboardNotWedged` of the kernel; `ReadIsPossible`, `WriteIsStored`,
  `TransferReturns` of the driver, with every failure and delay the drive's model has.
  Two sectors are enough to confuse one with another, two contents to tell old from new. `StartsOrHalts` has one exception, `Flooded`: the
  loop of `keyboard_init` that drains the controller (`keyboard.c:210`) has no limit and
  goes on for ever if bytes never stop coming; without the exception TLC finds that.

Violation runs, each a disagreement between the code and what the repository says
of it:

- `vfs_append_reboot`: `append` writes the whole file from the cache, which is
  empty after a boot, so appending to an older file destroys its content. README
  of MinOS, lines 16-20: a persistent filesystem with safe file operations.
- `vfs_mount_fault`: if one metadata read times out during the mount, `vfs_init`
  goes on with an empty table and writes it over the stored one.
  `docs/ARCHITECTURE.md:92` calls the format recoverable.
- `pmm_hole`: `total_frames` counts frames and bounds frame numbers, and bits
  outside conventional memory are clear; on a map with a hole the allocator hands
  out the hole. README of MinOS, lines 52-53: only `EfiConventionalMemory`.
- `vmm`: `vmm_init` faults. Without a direct map of the firmware's its first write to
  a table does; with one, `walk_pml4` tests an entry for 0 only after the base of the
  direct map was added, so no page directory is created, entries are written over
  frame 0, and the fetch after the load of CR3 finds no mapping. README of MinOS,
  lines 54-55: identity and higher-half page tables, loaded into CR3.
- `ata`: with a drive that is never late and never fails, the flush command is
  written while the drive is busy with the data and ignored; the write returns 0 with
  the sector in the volatile cache. `docs/ARCHITECTURE.md:91`: metadata changes are
  flushed after each mutation. The same property, `SuccessIsTrue`, fails for two more
  reasons with other constants. With `Late = {"command"}` a read is given up and answered
  later; the next read finds the data, its own command is ignored, and it returns the
  wrong sector with success. With `Errors = {"commit"}` the drive sets ERR after the data
  and the write returns 0, because the last wait looks at BSY only; a trace of the ignored
  flush is as short, and TLC may show that one.

Met while modelling, without a run of their own: mv of a file onto itself removes
it; the last record's data slot lies behind the end of the disk, because
`create()` counts the root's slot and `mkdisk.py` does not; the
history's test for a repeated line compares with the oldest entry; `ls`, `cd`,
`tree` and `find` without an argument take the command word itself as the path.
A failed save followed by another that is cut short by a power loss can leave
a record without a parent on disk (a world with faults "write" and "crash").
Releasing one of two held Shift keys clears the modifier, and a letter typed with the
other comes out unshifted. The bytes behind 0xE1 of the Pause key are decoded as left
Ctrl, where the comment at `keyboard.c:154` calls the sequence intentionally ignored.
`kmalloc` returns NULL on every call, where `docs/ARCHITECTURE.md:39,63` has a slab
allocator and preemptive threads. Behind the first `kmalloc`, in code that no execution
reaches at this commit: `slab_alloc` ignores the size, so that an 8 KiB stack would get
a slab of 4 KiB; after `thread_exit` there is no current thread, and `schedule` returns
at once for ever while the ended code runs on; `context_switch` takes its argument from
`rdi`, where the calling convention of the build passes it in `rcx`, and so stores `rsp`
through a stray address. The timer interrupt never calls `schedule`. `syscall_entry`
passes no system call number. `apic_timer_init` refuses processors whose CPUID reports
x2APIC as supported, where its comment says "already selected". Serial output waits
without a limit.

### Fairness

`InputPath`: weak fairness of the main loop, since the processor executes it
whenever no handler runs and handlers are finite, and of the timer interrupt,
since `apic_timer_init` programs the local APIC timer in periodic mode; the loop
is entered only after that has succeeded. No fairness is assumed of the user.
`Startup`: weak fairness of the loader and of the kernel, which are one processor
executing instructions, and of the two interrupts when they are enabled and
pending. Nothing is assumed of firmware, controller, keyboard and drive: their
steps may stop for ever, and the limits in the polling loops must cope. The
firmware changes its map of its own accord `EVENT_MAX` times at most, without which
the retry loop has no bound in the code either. All other specifications are used
for safety only.

Deadlock is checked everywhere except in `startup`, where a machine may halt by
design, and in `vmm`, which ends.

## 4. Proofs

All proofs have the same shape: an inductive invariant, that `Init` implies it, one
step per action that `[Next]_vars` preserves it, and the property as a consequence
of it, or for an action property of it and one step. They rest on the named
`ASSUME`s of the modules, which TLC evaluates in every run, and on nothing else
unless a theorem's own hypotheses say so. The invariants were checked with TLC
before they were proved.

### MemoryProofs

For every number of frames, every memory map within the bitmap (`PmmAssumption`,
`BootInfoAssumption`) and every sequence of calls:
`TypeCorrect`, `CounterExact` (the counter matches the bitmap modulo the word
size), `Exclusive` (`HandoutExclusive`) and `HoleFreeSafe`. The invariant is
`TypeOK`, `HeldMarked`, `HeldInRange` and `CounterMatchesBitmap`. The counter is
not inductive alone: that a freed frame had its bit set, and that a reserved frame
is counted once, needs the ownership part; and exclusive hand-out holds because
what is held or reserved is marked. The lemmas `DisjointUnion`, `SubSub` and
`AddSub` reduce the counter to cardinalities of disjoint sets and to wrapping
arithmetic. That `OnlyConventional` holds on maps without holes (`HoleFreeSafe`)
and fails with one (`pmm_hole`) shows exactly where the allocator is wrong.

`HeapImplementsPmm`: with `kmalloc` among the callers the allocator still satisfies
its own specification, so all of the above holds with the heap at work.
`HeapInv` says that `heap_top` never moves, since no page of the direct map is accepted,
and that while `slab_alloc` works on a frame the allocator differs from what it was at
the call in that frame only: its bit was clear, is set, and the counter is one less. From
it `HeapLeavesNothing` (`KmallocLeavesNothing`): `pmm_free_frame` takes the branch that
clears the bit, which needs the frame to be within `total_frames` and marked, and adding
one undoes the wrapped subtraction. `KmallocReturnsNull` is why
the scheduler has no module.

### StartupProofs

Of the loader, for maps of any size, any number of changes and of refused services
(`BootAssumption`): `HandoffCorrect` (`HandoffIsCurrent`), `LeakFree` (`NoLeak`)
and `TypeCorrect`. `HandoffIsCurrent` speaks of the last state only. What has to
be carried along is that no buffer has a key from the future and a buffer with the
current key has the current map (`KeysIdentifyMaps`), that size and key are those
of the map in the buffer (`BufferRead`) and that the record names this buffer
(`RecordRead`); a successful exit then equates the loader's key with the
firmware's. `StartImplementsBoot` carries these results over to the whole start-up.

`HandlersInPlace` (`InterruptsFindHandlers`) and `DialogueIsOver` (`NoPhantomKey`)
follow from `KernelInv`. Its part `SetUp` says what is in place at each point of
`kernel_main`. Its part `Talk` says which byte the controller may hold or still owe
at each point of the dialogue: while the interface is disabled no key interferes;
after the reset a key may wait before the acknowledgement, and then the dialogue
fails and the bytes still owed reach nobody, because interrupts stay off. A controller
that left the keyboard enabled may have a key byte taken for an answer (`Stale`): then
one more byte than asked for is on its way, the dialogue meets it where it expects
another, and halts.

`StartImplementsAta`: the steps of the start-up are steps of `Ata` or leave it alone, so
that the results of `AtaProofs` hold of the transfers the kernel makes.

### AtaProofs

For drives of any size, contents, failures and delays (`AtaAssumption`), without further
hypotheses: `ReadsArePossible` (`ReadIsPossible`) and `WritesAreStored`
(`WriteIsStored`). The invariant holds until the answer to a command given up before its
data is owed (`abandoned`), which never ends (`OwedStays`). `DriveKnown` relates the
drive's phase to the wait the driver is in: until then a command that was given up never
leaves data to transfer behind. `Kept` says that what the drive has, or has still to take,
is among what was promised, and that a write past its data has reached the drive unless
an error was reported. `Flushed` says that a flush which was taken and is over has
emptied the cache of the sector.

### InputProofs

For every ring size, number of events and set of keys (`InputAssumption`). `RingInv`
says that between the indices lie events and nothing of the zeroed ring, that the
ring is not empty from `input_pop`'s test to its advance, and that the entry copied
is still the oldest, whatever the interrupt did in between. From it follow `RingTypes`
and `RingIsFifo`: the lock-free ring implements `LossyFifo`. The mapping takes the
entries from `read_index` to `write_index` modulo the size; `Between` and `Ring` carry
the lemmas about modular arithmetic. `PathImplementsRing` shows that the decoder in
front leaves the ring's specification intact, and `PathIsFifo` combines the two.

`ModifiersNeverStick` (`ModifiersFollowKeys`), `KeysAreNamed` (`EventNamesKey`) and
`CharactersAreRight` (`ShiftedCharacter`) follow from `KeyInv`: the bytes on the wire are
whole keys but for the first, the prefix flag is set exactly when the rest of a
prefixed key is next, and the modifier bits follow the keys, less the `clipped` ones,
except inside a Pause, whose bytes are decoded as left Ctrl. None has a hypothesis: the
set of keys may hold both Shift keys and Pause.

### ConsoleProofs

For every line length, history length and prompt
(`ConsoleAssumption`): `AlwaysString` (`LineIsString`) and `TypeCorrect`. The two
form the invariant together: history entries are lines of bounded length because
the array was a string when Enter was pressed (`TextIsLine`), and the array stays a
string when Up copies an entry back (`SetKeeps`). `InsertKeeps` covers typing and
Tab at once.

`ConsoleIsEditor` is the refinement of `LineEditor`: the abstract text before and
behind the cursor is the array up to its terminator, cut at the cursor (`Before`,
`Behind`), and each loop that shifts the array is an edit of these two sequences.
`UpRecalls` (`RecallsLast`) needs `Recent` besides: the newest entry is the last line
run unless that line was the oldest one over again.

### VfsProofs

For every table size, sector layout, set of paths and texts, and any number of faults
(`LayoutAssumption`, `InputAssumption`). `TypeCorrect` comes first; its invariant
`Types` also keeps every parent inside the table. `Written` says that while `persist`
runs the sectors before the one it is at already hold the table.

`ReadsBack` (`ReadBack`) follows from `ContentInv`:

- `Kept`: a promise is kept by the size in memory, the size on disk, the data sectors,
  and the cache where an append builds on it or no disk is there;
- `Claimed`: what the write in progress will promise is in the cache, on the disk as
  far as it was stored, and nothing else is promised of that slot meanwhile;
- `Lost`: where neither disk nor cache survives, no promise survives a power loss;
- `Fetching`: the record being read is in use.

`SlotsApart` (files share no sectors) lets a write leave the other promises alone;
`AppendIs` says what the cache holds after an append. The hypothesis
`NoAppendOverCrash` excludes appending where power may be lost; run
`vfs_append_reboot` is the counterexample without it.

### VfsTreeProofs

The path of a record is a recursive function, so the facts about it need induction.
`EveryNat` and `LeastNat` give induction over the natural numbers for a set,
`WalkEquation` the recursion of `Walk`. From these: a walk that has reached the root
does not change with more steps (`AtStable`), the path of a record is the place of its
parent and its name (`PathIsPlace`), different records have different places
(`PlacesDiffer`), and `find` returns the record at a place (`FindsPlace`).

A table is `Sound` if used records have used directories for parents (`Closed`), no
two siblings share a name (`Distinct`) and no path is deeper than the walk
(`Shallow`). `CreateIsSound` and `DropIsSound` show that the calls keep it so. The disk
is harder: `persist` overwrites it sector by sector, and a record may have its name
in one sector and its fields in the next. Each call changes one record only, so
`Near` says that the stored table differs from the one in memory in at most one, and
`SectorNear` that a sector write leaves the old tree or makes it the new one: a name
is written before or together with the flag that makes it count. `TreeInv` puts
this together: the table in memory is sound, and so is what a mount would find.

- `TreesStayWellFormed` (`TreeWellFormed`);
- `MountsRestoreTrees` (`MountRestoresTree`), with `SavedInv`: the stored tree is that
  of the last complete save or the one being saved;
- `MountsKeepDisk` (`MountKeepsDisk`), with `MountInv`: what `vfs_init` writes back is
  what it read, or both are bare;
- `MovesKeepContent` (`MoveKeepsContent`), with `MoveInv`. A move is a read, a touch, a
  write and a remove, each of several steps. `OnTheWay` lists which of them are still to
  come at each point, `Arriving` says that the text under way is the one that was
  read, and the source stays until the target has been promised the text. Where power may be
  lost, `SavedKeeps` asks the same of the tree of the last complete save, because that is
  the tree the next boot finds. The proof uses the invariants of the other theorems:
  `ContentInv` for what a file holds, `TreeInv` for what `find` returns, `SavedInv` for
  what a mount restores.

All but `MountsKeepDisk` have the hypothesis `RestartAlone`: in a world in which the
machine may be started again, after a power loss or by a command, no transfer fails.
It is needed: a failed save leaves memory and disk more than one record apart, and TLC
finds `TreeWellFormed` violated with the faults "crash" and "write" and
`MountRestoresTree` with "crash" and "read", one failure being enough. Where the
machine is never started again, any transfer may fail.
`MountsRestoreTrees` also assumes that the disk is found at every boot: a session without it
forgets which tree was being saved. `MountsKeepDisk` assumes that reads do not fail where the
machine may be started again (`MountsRead`); run `vfs_mount_fault` is the counterexample without it.
`MovesKeepContent` takes the hypotheses of `MountsRestoreTrees` and of `ReadsBack`
(`NoAppendOverCrash`: run `vfs_append_reboot` is the counterexample), and `PairsDiffer`: no file
is moved onto itself, since `vfs_move` copies and then removes, and would
remove the only copy.

`StoreIsMap` (`Implements`) is the refinement of `FileStore`, with `NoFaults`: no
transfer fails and the power stays on. It is needed: a write that fails has changed
the cache already, and the next read brings the old content back. `MarkerAssumption`
keeps the entries that stand for a directory and for nothing apart from contents. The map
of a table and a cache is `Files`; `OneEntry` says that a change of one record changes
the entry of its path and no other, which needs a sound table. From this each call is a
step of `FileStore`: `CreateStores` (where a record is free there is room, by counting:
`RoomLeft`), `RmdirStores` (no child means no path below), `UnlinkStores` and
`WriteStores` (`WrittenContent`: overlaying the buffer at the old size is appending to the
text and cutting it). All other steps must leave the map alone, for which `MapInv` adds to
the tree that every entry is at a path a call named, and `SameOnDisk`: as far as a file
reaches, its sectors hold what the cache holds, except in the last record, whose slot lies
behind the end of the disk and whose transfers fail before they change anything; while
`vfs_write` stores, this holds of the sectors stored. `CopyInv` follows cp and mv through
their calls: until the write, the buffer holds what some file holds.

### ShellProofs

For every table size and layout, names, limits and typed paths of any length
(`ShellAssumption` besides those of `Vfs`). `SessionInv` says that the working directory,
and every path in a call still to be made, consists of names and is within the limits of
`vfs_normalize` (`FitPath`, `FitPending`). From it `SessionsStayTyped` (`SessionOK`).

- `PathsResolve` (`NormalizeResolves`). The loop over the components is a recursive
  function (`Absolute`), and so is the definition it is compared with: a name remains if
  no `..` takes it back. The loop's invariant is that after k components the parts are
  the names that remain of those k (`Resolved`, over `KeptNames`).
- `SessionsKeepTrees`, `SessionsRestoreTrees` and `SessionsKeepDisk` carry the results of
  `VfsTreeProofs` over to sessions: a command is one of the calls of `Vfs`, or leaves
  the filesystem alone, and the proofs there are by call (`Calls`, `Transfers`).
- `OffKeepsTrees` (`OffKeepsTree`): between two commands the stored tree is the one in
  memory (`OffInv`), so a reboot loses nothing.
- `StaleCwdsAreInert` (`StaleCwdInert`): a call leaves the tree alone, adds one entry
  below a directory or takes one away (`SameTree`, `Grown`, `Shrunk`); a tree holds all
  directories on the way to an entry (`WayThere`), so below a missing directory there is
  none to add to or take away.
- `FindListsSubtrees` (`FindListsSubtree`): `FitInv` says that every path in the table and
  on the disk is within the limits, since it came through `vfs_normalize`. The walk of
  `console_find_walk` then lists, level by level, what is below its start (`LevelIs`,
  `SubtreeStep`), and ends before its depth limit is felt.

The hypotheses are those of `VfsTreeProofs`: `RestartAlone`, `MountsRead`, and for
`SessionsRestoreTrees` a disk found at every boot.

### Left to TLC

- Liveness, which is out of the prover's reach: `EventuallyHandled`, `Terminates`,
  `StartsOrHalts`, `KeyboardNotWedged`, `TransferReturns`.
- `Vmm`, which has only a violation to show.

## 5. Plan

All parts of the inventory whose state can change at this commit are modelled. What could be
added:

1. Threads and system calls, and heap and user pages beyond the first call, once the
   code gets there.
2. The serial port as a device shared by the main loop and the handlers.

### Not modelled

- Framebuffer and boot screen: pixels are written and never read; other parts use
  the size only.
- Serial output: nothing reads it. The waits for the transmitter have no limit and
  are taken to end, in `StartsOrHalts` too.
- GDT, entry code and stack probe: straight-line set-up.
- `boot/efi.h`: declarations.
- The bodies of `heap.c` and `vmm.c` behind a mapped heap page, `kfree` of a real
  block, `vmm_unmap_user_page`, and scheduler and system calls, with `context_switch`,
  behind their first test: no execution reaches them at this commit.
- The MSRs of `syscall_init` and the entry code `syscall_entry`: no user code exists.
- A controller that sends more wrong bytes than it was asked for, and a drive whose BSY
  rises later than the last data word.
- The calibration of the timer and the register save of `irq_common`: arithmetic on
  device counters and instruction sequences; `Startup` has their outcomes.
- The Python build and run scripts, apart from the layout of the disk image.
