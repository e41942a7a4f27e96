-------------------------------- MODULE Boot --------------------------------
(***************************************************************************)
(* The boot loader's way out of the firmware (boot/bootx64.c, efi_main and *)
(* get_memory_map): obtain the memory map in a buffer of one's own, whose  *)
(* allocation changes the map, then call ExitBootServices with the key of  *)
(* that map, and start over if the map has changed meanwhile.              *)
(*                                                                         *)
(* The firmware is external: it owns the map and the pool, may change the  *)
(* map at any time before it exits, and may refuse any service.  The size  *)
(* of a map is its number of descriptors; its key identifies it.           *)
(***************************************************************************)
EXTENDS Integers

CONSTANTS
  SIZE_MAX,     \* bound on the size of the firmware's map
  EVENT_MAX,    \* bound on the changes the firmware makes of its own accord
  FAILURE_MAX,  \* bound on the services the firmware refuses
  UINTN_MAX     \* the largest buffer size that can be asked for

ASSUME BootAssumption ==
  /\ SIZE_MAX \in Nat \ {0} /\ EVENT_MAX \in Nat
  /\ FAILURE_MAX \in Nat /\ UINTN_MAX \in Nat

VARIABLES
  fw,           \* the firmware's current map
  pool,         \* the buffers allocated from the firmware's pool
  events,       \* changes so far of the firmware's own (for EVENT_MAX only)
  failures,     \* services refused so far (for FAILURE_MAX only)
  pc,           \* where efi_main is
  exit_status,  \* of the last ExitBootServices; "none" before the first
  mem_map, map_capacity, map_key, map_size,
  filled,       \* the map each buffer was filled with last
  boot_info     \* the handoff record: magic, buffer and size of the map

firmware == <<fw, pool, events, failures>>
found    == <<map_key, map_size, filled>>
vars     == <<firmware, pc, exit_status, mem_map, map_capacity, found, boot_info>>

NULL   == 0
Buffer == {1, 2}   \* at most the old and the new one are allocated
Ended  == {"kernel", "halted", "returned"}

-----------------------------------------------------------------------------
(* The firmware.                                                           *)

(* Allocating and freeing changes the map: descriptors split and merge.    *)
Changed == \E d \in {-1, 0, 1} :
             /\ fw.size + d \in 1 .. SIZE_MAX
             /\ fw' = [size |-> fw.size + d, key |-> fw.key + 1]

(* A timer or driver of the firmware allocates or frees memory.            *)
FirmwareEvent ==
  /\ pc \notin Ended /\ events < EVENT_MAX
  /\ events' = events + 1 /\ Changed
  /\ UNCHANGED <<pool, failures, pc, exit_status, mem_map, map_capacity, found, boot_info>>

Refuses == failures < FAILURE_MAX /\ failures' = failures + 1 /\ UNCHANGED <<fw, events>>

-----------------------------------------------------------------------------
(* efi_main up to the first call of get_memory_map.                        *)

LocateProtocol ==
  /\ pc = "start"
  /\ \/ pc' = "get" /\ UNCHANGED firmware
     \/ pc' = "returned" /\ Refuses /\ UNCHANGED pool
  /\ UNCHANGED <<exit_status, mem_map, map_capacity, found, boot_info>>

-----------------------------------------------------------------------------
(* get_memory_map.                                                         *)

TooSmall  == pc = "get" /\ fw.size > map_capacity
Base      == IF fw.size > map_capacity THEN fw.size ELSE map_capacity
Increment == IF Base \div 2 > 0 THEN Base \div 2 ELSE 1

(* Mutant of Overflows: the extra unit is forgotten.                       *)
OverflowsLate == Base > UINTN_MAX - Increment

Overflows == Base > UINTN_MAX - Increment - 1

(* Mutant of Grow: the old buffer is not freed.                            *)
GrowLeaks ==
  /\ TooSmall /\ ~Overflows /\ Changed
  /\ \E b \in Buffer \ {mem_map} : mem_map' = b /\ pool' = pool \union {b}
  /\ map_capacity' = Base + Increment + 1
  /\ UNCHANGED <<events, failures, pc, exit_status, found, boot_info>>

(* EFI_BUFFER_TOO_SMALL: a buffer half as large again as what is required  *)
(* takes the place of the old one.                                         *)
Grow ==
  /\ TooSmall /\ ~Overflows /\ Changed
  /\ \E b \in Buffer \ pool : mem_map' = b /\ pool' = (pool \ {mem_map}) \union {b}
  /\ map_capacity' = Base + Increment + 1
  /\ UNCHANGED <<events, failures, pc, exit_status, found, boot_info>>

(* The size overflows, AllocatePool or GetMemoryMap fails, or the firmware *)
(* reports descriptors of size 0: the buffer is freed.  The error ends     *)
(* efi_main at first and halts the machine once an exit was attempted.     *)
GiveUp ==
  /\ pc = "get"
  /\ \/ TooSmall /\ Overflows /\ UNCHANGED <<fw, events, failures>>
     \/ ~(TooSmall /\ Overflows) /\ Refuses
  /\ pool' = pool \ {mem_map} /\ mem_map' = NULL /\ map_capacity' = 0
  /\ pc' = IF exit_status = "none" THEN "returned" ELSE "halted"
  /\ UNCHANGED <<exit_status, found, boot_info>>

GotMap ==
  /\ pc = "get" /\ fw.size <= map_capacity
  /\ filled' = [filled EXCEPT ![mem_map] = fw]
  /\ map_size' = fw.size /\ map_key' = fw.key
  /\ pc' = "update"
  /\ UNCHANGED <<firmware, exit_status, mem_map, map_capacity, boot_info>>

-----------------------------------------------------------------------------
(* The rest of efi_main.                                                   *)

(* Mutant of update_boot_info: only the first map is recorded.             *)
update_boot_infoOnce ==
  /\ pc = "update"
  /\ boot_info' = IF boot_info.magic THEN boot_info
                  ELSE [magic |-> TRUE, memory_map |-> mem_map, memory_map_size |-> map_size]
  /\ pc' = IF exit_status \in {"none", "invalid_parameter"} THEN "exit" ELSE "halted"
  /\ UNCHANGED <<firmware, exit_status, mem_map, map_capacity, found>>

(* The handoff record is brought up to date; the machine then halts if the *)
(* last exit failed for another reason than an outdated key.               *)
update_boot_info ==
  /\ pc = "update"
  /\ boot_info' = [magic |-> TRUE, memory_map |-> mem_map, memory_map_size |-> map_size]
  /\ pc' = IF exit_status \in {"none", "invalid_parameter"} THEN "exit" ELSE "halted"
  /\ UNCHANGED <<firmware, exit_status, mem_map, map_capacity, found>>

(* Mutant of ExitRefused: the exit is tried again with the same key.       *)
ExitRefusedSameKey ==
  /\ pc = "exit" /\ map_key # fw.key /\ exit_status' = "invalid_parameter"
  /\ UNCHANGED <<firmware, pc, mem_map, map_capacity, found, boot_info>>

(* ExitBootServices with an outdated key, or refused for another reason:   *)
(* the map is read again in either case.                                   *)
ExitRefused ==
  /\ pc = "exit"
  /\ \/ map_key # fw.key /\ exit_status' = "invalid_parameter" /\ UNCHANGED firmware
     \/ map_key = fw.key /\ exit_status' = "other" /\ Refuses /\ UNCHANGED pool
  /\ pc' = "get"
  /\ UNCHANGED <<mem_map, map_capacity, found, boot_info>>

(* ExitBootServices succeeds and kernel_enter is called.                   *)
ExitDone ==
  /\ pc = "exit" /\ map_key = fw.key
  /\ exit_status' = "success" /\ pc' = "kernel"
  /\ UNCHANGED <<firmware, mem_map, map_capacity, found, boot_info>>

Init ==
  /\ fw \in {[size |-> n, key |-> 1] : n \in 1 .. SIZE_MAX}
  /\ pool = {} /\ events = 0 /\ failures = 0
  /\ pc = "start" /\ exit_status = "none"
  /\ mem_map = NULL /\ map_capacity = 0 /\ map_key = 0 /\ map_size = 0
  /\ filled = [b \in Buffer |-> [size |-> 0, key |-> 0]]
  /\ boot_info = [magic |-> FALSE, memory_map |-> NULL, memory_map_size |-> 0]

Loader == \/ LocateProtocol \/ Grow \/ GiveUp \/ GotMap
          \/ update_boot_info \/ ExitRefused \/ ExitDone

Next == Loader \/ FirmwareEvent

Spec == Init /\ [][Next]_vars

(* The processor keeps executing the loader.                               *)
FairSpec == Spec /\ WF_vars(Loader)

-----------------------------------------------------------------------------
(* The type invariant.                                                     *)
TypeOK ==
  /\ fw \in [size : 1 .. SIZE_MAX, key : Nat \ {0}]
  /\ pool \subseteq Buffer /\ mem_map \in Buffer \union {NULL}
  /\ events \in 0 .. EVENT_MAX /\ failures \in 0 .. FAILURE_MAX
  /\ pc \in {"start", "get", "update", "exit"} \union Ended
  /\ exit_status \in {"none", "invalid_parameter", "other", "success"}
  /\ map_capacity \in 0 .. UINTN_MAX /\ map_key \in Nat /\ map_size \in 0 .. SIZE_MAX
  /\ filled \in [Buffer -> [size : 0 .. SIZE_MAX, key : Nat]]
  /\ boot_info \in [magic : BOOLEAN, memory_map : Buffer \union {NULL},
                    memory_map_size : 0 .. SIZE_MAX]

(* The kernel is entered with the map the firmware exited with: the buffer *)
(* boot_info names is still allocated, holds that very map, and the size   *)
(* is its size, however often the map changed and the exit was retried.    *)
HandoffIsCurrent ==
  pc = "kernel" =>
    /\ boot_info.magic
    /\ boot_info.memory_map \in pool
    /\ filled[boot_info.memory_map] = fw
    /\ boot_info.memory_map_size = fw.size

(* The loader owns one buffer at most, and none when it returns to the     *)
(* firmware: no path through the growing loop and the retries leaks one.   *)
NoLeak == /\ pool = {mem_map} \ {NULL}
          /\ pc = "returned" => pool = {}

(* If the firmware leaves its map alone sooner or later, the loader comes  *)
(* to an end: it enters the kernel, gives up or returns, and is never      *)
(* caught between growing the buffer and retrying the exit.                *)
Terminates == <>(pc \in Ended)
=============================================================================
