-------------------------------- MODULE Vmm --------------------------------
(***************************************************************************)
(* The kernel's page tables (kernel/vmm.c, vmm_init and walk_pml4), from   *)
(* the allocation of the first table to the load of CR3.                   *)
(*                                                                         *)
(* Memory is an array of words, N to a frame, as a frame holds N table     *)
(* entries; an entry is 0 or names a frame.  Tables have three levels, and *)
(* an entry of the third maps a large page of N frames.  A virtual address *)
(* is a page number.  External: the processor's translation, the tables of *)
(* the firmware, which map every frame to itself and may or may not map    *)
(* the direct map too, and the free frames, from which pmm_alloc_frame     *)
(* takes the lowest.                                                       *)
(***************************************************************************)
EXTENDS Integers, FiniteSetsExt

CONSTANTS
  N,           \* entries of a table
  HHDM,        \* MINOS_HHDM_PML4_INDEX
  LIMIT,       \* MINOS_VMM_BOOTSTRAP_MAP_LIMIT, in frames
  TOTAL,       \* total_memory_bytes, in frames
  Kernel,      \* the frames of the kernel image
  FB_END,      \* the frame after the framebuffer
  FreeSets     \* the sets of frames the allocator may have left

VARIABLES
  direct,      \* the firmware maps the direct map
  free, mem,
  kernel_pml4, pdpt,
  mapped_2mb_pages,
  i,           \* the large page the loop has come to
  at           \* where vmm_init is

vars == <<direct, free, mem, kernel_pml4, pdpt, mapped_2mb_pages, i, at>>

NULL        == 0
Frame       == 0 .. LIMIT - 1
HHDM_BASE   == HHDM * N * N * N
Entry(f, h) == [frame |-> f, huge |-> h]
Missing     == Entry(0, FALSE)

(* The indices of a page number.                                           *)
PML4I(page) == (page \div (N * N * N)) % N
PDPTI(page) == (page \div (N * N)) % N
PDI(page)   == (page \div N) % N

-----------------------------------------------------------------------------
(* table_alloc, up to the first access through the direct map.             *)
table_alloc(next) ==
  IF free = {} THEN at' = "returned" /\ UNCHANGED <<free, kernel_pml4, pdpt>>
  ELSE /\ free' = free \ {Min(free)}
       /\ IF at = "pml4" THEN kernel_pml4' = Min(free) /\ UNCHANGED pdpt
          ELSE pdpt' = Min(free) /\ UNCHANGED kernel_pml4
       /\ at' = next

AllocPml4 == /\ at = "pml4" /\ table_alloc("clear_pml4")
             /\ UNCHANGED <<direct, mem, mapped_2mb_pages, i>>

AllocPdpt == /\ at = "pdpt" /\ table_alloc("clear_pdpt")
             /\ UNCHANGED <<direct, mem, mapped_2mb_pages, i>>

(* A frame is cleared through the direct map.                              *)
Cleared(f) == [w \in DOMAIN mem |-> IF w \div N = f THEN Missing ELSE mem[w]]

ClearPml4 ==
  /\ at = "clear_pml4"
  /\ IF direct THEN mem' = Cleared(kernel_pml4) /\ at' = "pdpt"
     ELSE UNCHANGED mem /\ at' = "fault"
  /\ UNCHANGED <<direct, free, kernel_pml4, pdpt, mapped_2mb_pages, i>>

(* How much is mapped: the memory, the kernel and the framebuffer, up to   *)
(* the limit, in large pages.                                              *)
MapFrames ==
  Min({LIMIT, Max({IF TOTAL = 0 THEN N ELSE TOTAL, Max(Kernel) + 1, FB_END})})

ClearPdpt ==
  /\ at = "clear_pdpt"
  /\ mem' = [Cleared(pdpt) EXCEPT ![kernel_pml4 * N] = Entry(pdpt, FALSE),
                                  ![kernel_pml4 * N + HHDM] = Entry(pdpt, FALSE)]
  /\ mapped_2mb_pages' = (MapFrames + N - 1) \div N
  /\ at' = "loop"
  /\ UNCHANGED <<direct, free, kernel_pml4, pdpt, i>>

(* walk_pml4.  A missing entry gives the table at frame 0: the tests for a *)
(* null pointer come after the base of the direct map was added, so that   *)
(* no table is ever created.                                               *)
walk_pml4(words, page) ==
  LET pdpt_table == words[kernel_pml4 * N + PML4I(page)].frame
      pd_table   == words[pdpt_table * N + PDPTI(page)].frame
  IN  pd_table * N + PDI(page)

(* The entry for a large page is written.  The index into the table is     *)
(* added to what walk_pml4 returns, which includes it already.             *)
Mapped(words, page) ==
  [words EXCEPT ![walk_pml4(words, page) + PDI(page)] = Entry(i * N, TRUE)]

MapPage ==
  /\ at = "loop" /\ i < mapped_2mb_pages
  /\ mem' = Mapped(Mapped(mem, i * N), HHDM_BASE + i * N)
  /\ i' = i + 1
  /\ UNCHANGED <<direct, free, kernel_pml4, pdpt, mapped_2mb_pages, at>>

-----------------------------------------------------------------------------
(* The processor's translation with the new tables: a frame, or a fault.   *)
Translate(page) ==
  LET e4 == mem[kernel_pml4 * N + PML4I(page)]
      e3 == mem[e4.frame * N + PDPTI(page)]
      e2 == mem[e3.frame * N + PDI(page)]
  IN  IF Missing \in {e4, e3, e2} \/ ~e2.huge THEN -1 ELSE e2.frame + (page % N)

(* CR3 is loaded, and the next instruction is fetched.                     *)
LoadCr3 ==
  /\ at = "loop" /\ i = mapped_2mb_pages
  /\ at' = IF \A f \in Kernel : Translate(f) = f THEN "loaded" ELSE "fault"
  /\ UNCHANGED <<direct, free, mem, kernel_pml4, pdpt, mapped_2mb_pages, i>>

Init ==
  /\ direct \in BOOLEAN /\ free \in FreeSets
  /\ mem = [w \in 0 .. (LIMIT + 1) * N - 1 |-> Missing]
  /\ kernel_pml4 = NULL /\ pdpt = NULL /\ mapped_2mb_pages = 0 /\ i = 0 /\ at = "pml4"

Next == AllocPml4 \/ ClearPml4 \/ AllocPdpt \/ ClearPdpt \/ MapPage \/ LoadCr3

Spec == Init /\ [][Next]_vars

-----------------------------------------------------------------------------
(* Once vmm_init has loaded CR3 the kernel keeps running: neither setting  *)
(* up the tables nor the first instruction after the load faults.          *)
KernelKeepsRunning == at # "fault"
=============================================================================
