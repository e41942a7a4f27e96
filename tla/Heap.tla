-------------------------------- MODULE Heap --------------------------------
(***************************************************************************)
(* kmalloc (kernel/heap.c) on the frame allocator.  Addresses are page     *)
(* numbers, and 0 is NULL.                                                 *)
(*                                                                         *)
(* The heap lies in the direct map, where vmm_map_user_page accepts no     *)
(* page: a slab is never finished, the free list stays empty, and kmalloc  *)
(* returns NULL every time (MemoryProofs proves it).  The search of the    *)
(* free list and kfree, which need a finished slab, are left out.          *)
(***************************************************************************)
EXTENDS Pmm

CONSTANTS
  HHDM_BASE,   \* MINOS_HHDM_BASE
  HEAP_BASE,   \* heap_base
  HEAP_LIMIT,  \* heap_limit
  Sizes        \* the arguments of kmalloc

ASSUME HeapAssumption ==
  /\ {HHDM_BASE, HEAP_BASE, HEAP_LIMIT} \subseteq Nat /\ Sizes \subseteq Nat
  /\ 0 < HHDM_BASE /\ HHDM_BASE <= HEAP_BASE /\ HEAP_BASE < HEAP_LIMIT

VARIABLES
  heap_top,
  page,        \* the frame slab_alloc works on; 0 if kmalloc is not running
  block,       \* what the last kmalloc returned
  entry        \* history: the allocator's state when kmalloc was called

heap == <<heap_top, page, block, entry>>

-----------------------------------------------------------------------------
(* heap_init, after pmm_init.                                              *)
HeapInit ==
  /\ Init
  /\ heap_top = HEAP_BASE /\ page = 0 /\ block = 0 /\ entry = <<bitmap, free_frames>>

(* kmalloc up to pmm_alloc_frame in slab_alloc.  Without a frame, and for  *)
(* a size of 0, it returns NULL.                                           *)
kmalloc(size) ==
  /\ page = 0 /\ size > 0 /\ pmm_alloc_frame
  /\ page' \in IF grant' = {} THEN {0} ELSE grant'
  /\ block' = 0 /\ entry' = <<bitmap, free_frames>>
  /\ UNCHANGED heap_top

kmallocZero(size) ==
  /\ page = 0 /\ size = 0 /\ block' = 0 /\ UNCHANGED <<vars, heap_top, page, entry>>

(* The tests at the head of vmm_map_user_page.                             *)
vmm_map_user_page(physical, virtual) ==
  physical # 0 /\ virtual # 0 /\ virtual < HHDM_BASE

(* The rest of slab_alloc and of kmalloc: a frame that is mapped becomes   *)
(* the caller's slab, and one that cannot be mapped is given back.         *)
slab_alloc ==
  /\ page # 0 /\ page' = 0
  /\ IF vmm_map_user_page(page, heap_top)
     THEN block' = heap_top + HHDM_BASE /\ heap_top' = heap_top + 1 /\ UNCHANGED vars
     ELSE block' = 0 /\ pmm_free_frame(page) /\ UNCHANGED heap_top
  /\ UNCHANGED entry

(* The other callers of the frame allocator.                               *)
Others == page = 0 /\ Next /\ UNCHANGED heap

HeapNext == Others \/ slab_alloc \/ \E size \in Sizes : kmalloc(size) \/ kmallocZero(size)

HeapSpec == HeapInit /\ [][HeapNext]_<<vars, heap>>

-----------------------------------------------------------------------------
(* A kmalloc that fails after pmm_alloc_frame has no effect: when it       *)
(* returns NULL the bitmap and the free counter are what they were when it *)
(* was called, so that failing calls, however many, neither use up memory  *)
(* nor make the counter drift.  It takes a pmm_free_frame that undoes      *)
(* whatever pmm_alloc_frame can do, at its bounds and over a wrapped       *)
(* counter too.                                                            *)
KmallocLeavesNothing ==
  [][page # 0 /\ page' = 0 /\ block' = 0 => <<bitmap', free_frames'>> = entry]_<<vars, heap>>
=============================================================================
