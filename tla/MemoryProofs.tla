---------------------------- MODULE MemoryProofs ----------------------------
(***************************************************************************)
(* Proofs about the frame allocator and about the heap as one of its       *)
(* callers, for every number of frames, every memory map and every         *)
(* sequence of calls.                                                      *)
(***************************************************************************)
EXTENDS Heap, FiniteSetTheorems, TLAPS

(* What callers hold and what the kernel reserved stays marked and apart.  *)
HeldMarked == held \union pinned \subseteq bitmap /\ held \intersect pinned = {}

(* The frames that pmm_alloc_frame and pmm_alloc_frames search.            *)
HeldInRange == held \subseteq 1 .. total_frames - 1

(* The inductive invariant.  The counter is exact only because a frame is  *)
(* marked before it is held, and exclusive handout needs the same fact.    *)
IInv ==
  /\ TypeOK
  /\ HeldMarked
  /\ HeldInRange
  /\ CounterMatchesBitmap

-----------------------------------------------------------------------------
(* Sets of frames are finite and have at most MAX_FRAMES members.          *)
LEMMA FrameSets ==
  ASSUME NEW S, S \subseteq Frame
  PROVE  IsFiniteSet(S) /\ Cardinality(S) \in 0 .. MAX_FRAMES
<1>1. IsFiniteSet(Frame) /\ Cardinality(Frame) = MAX_FRAMES
  BY FS_Interval, PmmAssumption, 0 \in Int, MAX_FRAMES - 1 \in Int DEF Frame
<1>2. IsFiniteSet(S) /\ Cardinality(S) <= Cardinality(Frame)
  BY <1>1, FS_Subset
<1>3. Cardinality(S) \in Nat
  BY <1>2, FS_CardinalityType
<1>4. QED
  BY <1>1, <1>2, <1>3, PmmAssumption

(* Disjoint sets of frames add up.                                         *)
LEMMA DisjointUnion ==
  ASSUME NEW S, NEW T, S \subseteq Frame, T \subseteq Frame, S \intersect T = {}
  PROVE  Cardinality(S \union T) = Cardinality(S) + Cardinality(T)
<1>1. IsFiniteSet(S) /\ IsFiniteSet(T) /\ Cardinality(S) \in Nat /\ Cardinality(T) \in Nat
  BY FrameSets, PmmAssumption
<1>2. Cardinality(S \union T) = Cardinality(S) + Cardinality(T) - Cardinality(S \intersect T)
  BY <1>1, FS_Union
<1>3. Cardinality(S \intersect T) = 0
  <2>1. Cardinality({}) = 0
    BY FS_EmptySet
  <2>2. QED
    BY <2>1, Zenon
<1>4. QED
  BY <1>1, <1>2, <1>3

(* The unsigned counter: differences add up, and adding undoes taking off. *)
LEMMA SubType ==
  ASSUME NEW x \in 0 .. WORD - 1, NEW n \in 0 .. MAX_FRAMES
  PROVE  Sub(x, n) \in 0 .. WORD - 1
  BY PmmAssumption DEF Sub

LEMMA SubSub ==
  ASSUME NEW c \in 0 .. MAX_FRAMES, NEW m \in Nat, NEW n \in Nat, m + n <= MAX_FRAMES
  PROVE  Sub(Sub(c, m), n) = Sub(c, m + n)
  BY PmmAssumption DEF Sub

LEMMA AddSub ==
  ASSUME NEW c \in 0 .. MAX_FRAMES, NEW m \in 1 .. MAX_FRAMES
  PROVE  Add(Sub(c, m), 1) = Sub(c, m - 1)
  BY PmmAssumption DEF Add, Sub

(* Marking frames that were not marked keeps the counter exact.            *)
LEMMA MarkUsedCounts ==
  ASSUME TypeOK, CounterMatchesBitmap, NEW frames, frames \subseteq Frame,
         frames \intersect bitmap = {}, MarkUsed(frames), usable' = usable
  PROVE  CounterMatchesBitmap' /\ bitmap' \subseteq Frame /\ free_frames' \in 0 .. WORD - 1
<1>1. bitmap' = bitmap \union frames /\ free_frames' = Sub(free_frames, Cardinality(frames))
  BY DEF MarkUsed
<1>2. Cardinality(bitmap') = Cardinality(bitmap) + Cardinality(frames)
  BY <1>1, DisjointUnion DEF TypeOK
<1>3. bitmap' \subseteq Frame
  BY <1>1 DEF TypeOK
<1>4. /\ Cardinality(usable) \in 0 .. MAX_FRAMES
      /\ Cardinality(bitmap) \in 0 .. MAX_FRAMES
      /\ Cardinality(frames) \in 0 .. MAX_FRAMES
      /\ Cardinality(bitmap') \in 0 .. MAX_FRAMES
  BY <1>3, FrameSets DEF TypeOK
<1>5. Sub(Sub(Cardinality(usable), Cardinality(bitmap)), Cardinality(frames))
        = Sub(Cardinality(usable), Cardinality(bitmap) + Cardinality(frames))
  BY <1>2, <1>4, SubSub, PmmAssumption
<1>6. CounterMatchesBitmap'
  BY <1>1, <1>2, <1>5 DEF CounterMatchesBitmap
<1>7. free_frames' \in 0 .. WORD - 1
  BY <1>1, <1>4, SubType DEF TypeOK
<1>8. QED
  BY <1>3, <1>6, <1>7

-----------------------------------------------------------------------------
(* After pmm_init the bits set are the kernel's regions.                   *)
LEMMA InitIInv == Init => IInv
<1>1. SUFFICES ASSUME NEW info \in BootInfos, pmm_init(info)
               PROVE  IInv
  BY DEF Init
<1>2. Conventional(info) \subseteq Frame /\ KernelRegions(info) \subseteq Frame
  BY DEF Conventional, KernelRegions, ConvFrames, Touched
<1>3. usable \subseteq Frame /\ bitmap \subseteq Frame
  BY <1>1, <1>2 DEF pmm_init
<1>4. Cardinality(usable) \in 0 .. MAX_FRAMES /\ Cardinality(bitmap) \in 0 .. MAX_FRAMES
  BY <1>3, FrameSets
<1>5. CounterMatchesBitmap /\ free_frames = Sub(Cardinality(usable), Cardinality(bitmap))
  BY <1>1 DEF pmm_init, CounterMatchesBitmap
<1>6. free_frames \in 0 .. WORD - 1
  BY <1>4, <1>5, SubType, PmmAssumption
<1>7. total_frames \in 0 .. MAX_FRAMES
  BY <1>1, <1>4 DEF pmm_init
<1>8. HeldMarked /\ HeldInRange
  BY <1>1 DEF pmm_init, HeldMarked, HeldInRange
<1>9. QED
  BY <1>1, <1>2, <1>3, <1>5, <1>6, <1>7, <1>8 DEF IInv, TypeOK, pmm_init

(* Handing out unmarked frames below total_frames keeps the invariant.     *)
LEMMA HandOutIInv ==
  ASSUME IInv, NEW frames, frames \subseteq 1 .. total_frames - 1,
         frames \intersect bitmap = {}, HandOut(frames),
         UNCHANGED <<total_frames, usable, pinned>>
  PROVE  IInv' /\ grant' \intersect (held \union pinned) = {}
<1>1. frames \subseteq Frame
  BY PmmAssumption DEF IInv, TypeOK, Frame
<1>2. MarkUsed(frames) /\ held' = held \union frames /\ grant' = frames
  BY DEF HandOut
<1>3. CounterMatchesBitmap' /\ bitmap' \subseteq Frame /\ free_frames' \in 0 .. WORD - 1
  BY <1>1, <1>2, MarkUsedCounts DEF IInv
<1>4. bitmap' = bitmap \union frames
  BY <1>2 DEF MarkUsed
<1>5. HeldMarked' /\ grant' \intersect (held \union pinned) = {}
  BY <1>2, <1>4 DEF IInv, HeldMarked
<1>6. HeldInRange'
  BY <1>2 DEF IInv, HeldInRange
<1>7. TypeOK'
  BY <1>1, <1>2, <1>3 DEF IInv, TypeOK
<1>8. QED
  BY <1>3, <1>5, <1>6, <1>7 DEF IInv

(* So does an allocation that finds nothing.                               *)
LEMMA HandOutNothingIInv ==
  ASSUME IInv, HandOutNothing, UNCHANGED <<total_frames, usable, pinned>>
  PROVE  IInv' /\ grant' \intersect (held \union pinned) = {}
  BY DEF IInv, HandOutNothing, TypeOK, HeldMarked, HeldInRange, CounterMatchesBitmap

(* pmm_free_frame clears a bit only if it was set.                         *)
LEMMA FreeIInv ==
  ASSUME IInv, NEW f \in Frame, pmm_free_frame(f)
  PROVE  IInv' /\ grant' \intersect (held \union pinned) = {}
<1>1. /\ held' = held \ {f} /\ grant' = {} /\ CallerFrees(f)
      /\ total_frames' = total_frames /\ usable' = usable /\ pinned' = pinned
  BY DEF pmm_free_frame
<1>2. CASE f < total_frames /\ f \in bitmap
  <2>1. bitmap' = bitmap \ {f} /\ free_frames' = Add(free_frames, 1)
    BY <1>2 DEF pmm_free_frame
  <2>2. f \in held
    BY <1>1, <1>2 DEF CallerFrees
  <2>3. IsFiniteSet(bitmap) /\ Cardinality(bitmap) \in 0 .. MAX_FRAMES
        /\ Cardinality(usable) \in 0 .. MAX_FRAMES
    BY FrameSets DEF IInv, TypeOK
  <2>4. Cardinality(bitmap') = Cardinality(bitmap) - 1
    BY <1>2, <2>1, <2>3, FS_RemoveElement
  <2>5. Cardinality(bitmap') \in 0 .. MAX_FRAMES
    BY <2>1, FrameSets DEF IInv, TypeOK
  <2>6. Add(Sub(Cardinality(usable), Cardinality(bitmap)), 1)
          = Sub(Cardinality(usable), Cardinality(bitmap) - 1)
    BY <2>3, <2>4, <2>5, AddSub, PmmAssumption
  <2>7. CounterMatchesBitmap'
    BY <1>1, <2>1, <2>4, <2>6 DEF IInv, CounterMatchesBitmap
  <2>8. HeldMarked'
    BY <1>1, <2>1, <2>2 DEF IInv, HeldMarked
  <2>9. free_frames' \in 0 .. WORD - 1
    BY <2>1, PmmAssumption DEF IInv, TypeOK, Add
  <2>10. TypeOK' /\ HeldInRange'
    BY <1>1, <2>1, <2>9 DEF IInv, TypeOK, HeldInRange
  <2>11. QED
    BY <1>1, <2>7, <2>8, <2>10 DEF IInv
<1>3. CASE ~(f < total_frames /\ f \in bitmap)
  <2>1. bitmap' = bitmap /\ free_frames' = free_frames
    BY <1>3 DEF pmm_free_frame
  <2>2. QED
    BY <1>1, <2>1 DEF IInv, TypeOK, HeldMarked, HeldInRange, CounterMatchesBitmap
<1>4. QED
  BY <1>2, <1>3

(* pmm_reserve takes off the counter only the frames it newly marks.       *)
LEMMA ReserveIInv ==
  ASSUME IInv, NEW start, NEW size, pmm_reserve(start, size)
  PROVE  IInv' /\ grant' \intersect (held \union pinned) = {}
<1> DEFINE range == {f \in Frame : f >= Up(start) /\ f < Up(start + size)}
<1>1. grant' = {} /\ total_frames' = total_frames /\ usable' = usable /\ held' = held
  BY DEF pmm_reserve
<1>2. CASE MarkUsed(range \ bitmap) /\ pinned' = pinned \union (range \ held)
  <2>1. CounterMatchesBitmap' /\ bitmap' \subseteq Frame /\ free_frames' \in 0 .. WORD - 1
    BY <1>1, <1>2, MarkUsedCounts DEF IInv
  <2>2. bitmap' = bitmap \union range
    BY <1>2 DEF MarkUsed
  <2>3. HeldMarked' /\ pinned' \subseteq Frame
    BY <1>1, <1>2, <2>2 DEF IInv, HeldMarked, TypeOK
  <2>4. TypeOK' /\ HeldInRange'
    BY <1>1, <2>1, <2>3 DEF IInv, TypeOK, HeldInRange
  <2>5. QED
    BY <1>1, <2>1, <2>3, <2>4 DEF IInv
<1>3. CASE UNCHANGED <<bitmap, free_frames, pinned>>
  BY <1>1, <1>3 DEF IInv, TypeOK, HeldMarked, HeldInRange, CounterMatchesBitmap
<1>4. QED
  BY <1>2, <1>3 DEF pmm_reserve

(* One step of any call.                                                   *)
LEMMA NextIInv ==
  ASSUME IInv, Next
  PROVE  IInv' /\ grant' \intersect (held \union pinned) = {}
<1>1. CASE pmm_alloc_frame
  <2>1. UNCHANGED <<total_frames, usable, pinned>>
    BY <1>1 DEF pmm_alloc_frame
  <2>2. CASE HandOutNothing
    BY <2>1, <2>2, HandOutNothingIInv
  <2>3. ASSUME NEW f \in Candidates, HandOut({f})
        PROVE  IInv' /\ grant' \intersect (held \union pinned) = {}
    <3>1. {f} \subseteq 1 .. total_frames - 1 /\ {f} \intersect bitmap = {}
      BY <2>3 DEF Candidates
    <3>2. QED
      BY <2>1, <2>3, <3>1, HandOutIInv
  <2>4. QED
    BY <1>1, <2>2, <2>3 DEF pmm_alloc_frame
<1>2. ASSUME NEW count \in Counts, pmm_alloc_frames(count)
      PROVE  IInv' /\ grant' \intersect (held \union pinned) = {}
  <2>1. UNCHANGED <<total_frames, usable, pinned>>
    BY <1>2 DEF pmm_alloc_frames
  <2>2. CASE HandOutNothing
    BY <2>1, <2>2, HandOutNothingIInv
  <2>3. ASSUME NEW f \in RunStarts(count), HandOut(Run(f, count))
        PROVE  IInv' /\ grant' \intersect (held \union pinned) = {}
    <3>1. total_frames \in Nat /\ count \in Nat
      BY PmmAssumption DEF IInv, TypeOK
    <3>2. f \in 1 .. total_frames - count /\ Run(f, count) \intersect bitmap = {}
      BY DEF RunStarts
    <3>3. Run(f, count) \subseteq 1 .. total_frames - 1
      BY <3>1, <3>2 DEF Run
    <3>4. QED
      BY <2>1, <2>3, <3>2, <3>3, HandOutIInv
  <2>4. QED
    BY <1>2, <2>2, <2>3 DEF pmm_alloc_frames
<1>3. ASSUME NEW f \in Frame, pmm_free_frame(f)
      PROVE  IInv' /\ grant' \intersect (held \union pinned) = {}
  BY <1>3, FreeIInv
<1>4. ASSUME NEW r \in Reserves, pmm_reserve(r[1], r[2])
      PROVE  IInv' /\ grant' \intersect (held \union pinned) = {}
  BY <1>4, ReserveIInv
<1>5. QED
  BY <1>1, <1>2, <1>3, <1>4 DEF Next

-----------------------------------------------------------------------------
(* The inductive invariant holds in every reachable state.                 *)
THEOREM Inductive == Spec => []IInv
<1>1. Init => IInv
  BY InitIInv
<1>2. IInv /\ [Next]_vars => IInv'
  <2>1. SUFFICES ASSUME IInv, [Next]_vars PROVE IInv'
    OBVIOUS
  <2>2. CASE Next
    BY <2>1, <2>2, NextIInv
  <2>3. CASE UNCHANGED vars
    BY <2>1, <2>3 DEF vars, IInv, TypeOK, HeldMarked, HeldInRange, CounterMatchesBitmap
  <2>4. QED
    BY <2>1, <2>2, <2>3
<1>3. QED
  BY <1>1, <1>2, PTL DEF Spec

(* Types: in particular no call marks a frame outside the bitmap.          *)
THEOREM TypeCorrect == Spec => []TypeOK
<1>1. IInv => TypeOK
  BY DEF IInv
<1>2. QED
  BY <1>1, Inductive, PTL

(* The free counter never drifts from the bitmap.                          *)
THEOREM CounterExact == Spec => []CounterMatchesBitmap
<1>1. IInv => CounterMatchesBitmap
  BY DEF IInv
<1>2. QED
  BY <1>1, Inductive, PTL

(* No frame is handed out twice, nor while the kernel occupies it.         *)
THEOREM Exclusive == Spec => HandoutExclusive
<1>1. IInv /\ [Next]_vars => [grant' \intersect (held \union pinned) = {}]_vars
  BY NextIInv
<1>2. QED
  BY <1>1, Inductive, PTL DEF Spec, HandoutExclusive

(* On a memory map without holes only conventional memory is handed out.   *)
THEOREM HoleFreeSafe == Spec => []HoleFreeMapsAreSafe
<1>1. IInv => HoleFreeMapsAreSafe
  BY DEF IInv, TypeOK, HeldInRange, HoleFreeMapsAreSafe, HoleFree
<1>2. QED
  BY <1>1, Inductive, PTL

-----------------------------------------------------------------------------
(* The heap.                                                               *)

(* What slab_alloc knows of the frame it works on: it alone has changed    *)
(* since kmalloc was called.                                               *)
Working ==
  /\ page \in held /\ page < total_frames
  /\ bitmap = entry[1] \union {page} /\ page \notin entry[1]
  /\ entry[2] \in 0 .. WORD - 1 /\ free_frames = Sub(entry[2], 1)
  /\ entry = <<entry[1], entry[2]>>

(* The inductive invariant.  heap_top never moves, because no page of the  *)
(* direct map is accepted.                                                 *)
HeapInv ==
  /\ IInv
  /\ heap_top = HEAP_BASE /\ block = 0 /\ page \in Frame
  /\ page # 0 => Working

-----------------------------------------------------------------------------
(* heap_init.                                                              *)
LEMMA HeapInitInv == HeapInit => HeapInv
<1>1. 0 \in Frame
  BY PmmAssumption DEF Frame
<1>2. QED
  BY <1>1, InitIInv DEF HeapInit, HeapInv

(* Giving back the one taken last undoes a wrap, too.                      *)
LEMMA AddUndoesSub ==
  ASSUME NEW x \in 0 .. WORD - 1
  PROVE  Add(Sub(x, 1), 1) = x
  BY PmmAssumption DEF Add, Sub

(* No page of the heap is accepted.                                        *)
LEMMA Refused ==
  ASSUME HeapInv
  PROVE  ~vmm_map_user_page(page, heap_top)
  BY HeapAssumption DEF HeapInv, vmm_map_user_page

(* What pmm_alloc_frame hands out is nothing, or one frame other than 0,   *)
(* which was not marked.                                                   *)
LEMMA OneFrame ==
  ASSUME IInv, pmm_alloc_frame
  PROVE  \/ grant' = {}
         \/ \E f \in Frame \ {0} :
              /\ grant' = {f} /\ f \in held' /\ f < total_frames' /\ f \notin bitmap
              /\ bitmap' = bitmap \union {f} /\ free_frames' = Sub(free_frames, 1)
<1>1. CASE HandOutNothing
  BY <1>1 DEF HandOutNothing
<1>2. ASSUME NEW f \in Candidates, HandOut({f}), total_frames' = total_frames
      PROVE  /\ f \in Frame \ {0} /\ grant' = {f} /\ f \in held' /\ f < total_frames'
             /\ f \notin bitmap /\ bitmap' = bitmap \union {f}
             /\ free_frames' = Sub(free_frames, 1)
  <2>1. Cardinality({f}) = 1
    BY FS_Singleton
  <2>2. f \in 1 .. total_frames - 1 /\ f \notin bitmap /\ total_frames \in 0 .. MAX_FRAMES
    BY DEF Candidates, IInv, TypeOK
  <2>3. /\ grant' = {f} /\ f \in held' /\ bitmap' = bitmap \union {f}
        /\ free_frames' = Sub(free_frames, 1)
    BY <1>2, <2>1 DEF HandOut, MarkUsed
  <2>4. QED
    BY <1>2, <2>2, <2>3, PmmAssumption DEF Frame
<1>3. QED
  BY <1>1, <1>2 DEF pmm_alloc_frame

(* Every step of the heap is a call of the frame allocator or leaves it    *)
(* alone.                                                                  *)
LEMMA HeapStepOfPmm ==
  ASSUME HeapInv, [HeapNext]_<<vars, heap>>
  PROVE  [Next]_vars
<1>1. CASE Others
  BY <1>1 DEF Others
<1>2. CASE slab_alloc
  BY <1>2, Refused DEF slab_alloc, Next, HeapInv
<1>3. ASSUME NEW size \in Sizes, kmalloc(size) \/ kmallocZero(size)
      PROVE  [Next]_vars
  BY <1>3 DEF kmalloc, kmallocZero, Next
<1>4. QED
  BY <1>1, <1>2, <1>3 DEF HeapNext

(* The end of slab_alloc: what pmm_alloc_frame did is undone.              *)
LEMMA GivenBack ==
  ASSUME HeapInv, slab_alloc
  PROVE  /\ page' = 0 /\ block' = 0 /\ heap_top' = heap_top
         /\ <<bitmap', free_frames'>> = entry
<1>1. /\ page # 0 /\ page' = 0 /\ block' = 0 /\ heap_top' = heap_top
      /\ pmm_free_frame(page)
  BY Refused DEF slab_alloc
<1>2. Working
  BY <1>1 DEF HeapInv
<1>3. bitmap' = bitmap \ {page} /\ free_frames' = Add(free_frames, 1)
  BY <1>1, <1>2 DEF Working, pmm_free_frame
<1>4. bitmap' = entry[1]
  BY <1>2, <1>3 DEF Working
<1>5. free_frames' = entry[2]
  BY <1>2, <1>3, AddUndoesSub DEF Working
<1>6. QED
  BY <1>1, <1>2, <1>4, <1>5 DEF Working

(* Every step keeps the invariant.                                         *)
LEMMA HeapNextInv == HeapInv /\ [HeapNext]_<<vars, heap>> => HeapInv'
<1> SUFFICES ASSUME HeapInv, [HeapNext]_<<vars, heap>> PROVE HeapInv'
  OBVIOUS
<1>0. 0 \in Frame
  BY PmmAssumption DEF Frame
<1>1. IInv'
  <2>1. CASE Next
    BY <2>1, NextIInv DEF HeapInv
  <2>2. CASE UNCHANGED vars
    BY <2>2 DEF HeapInv, vars, IInv, TypeOK, HeldMarked, HeldInRange, CounterMatchesBitmap
  <2>3. QED
    BY <2>1, <2>2, HeapStepOfPmm
<1>2. CASE Others
  BY <1>1, <1>2 DEF Others, heap, HeapInv
<1>3. CASE slab_alloc
  BY <1>0, <1>1, <1>3, GivenBack DEF HeapInv
<1>4. ASSUME NEW size \in Sizes, kmalloc(size)
      PROVE  HeapInv'
  <2>1. /\ pmm_alloc_frame /\ block' = 0 /\ heap_top' = heap_top
        /\ page' \in IF grant' = {} THEN {0} ELSE grant'
        /\ entry' = <<bitmap, free_frames>>
    BY <1>4 DEF kmalloc
  <2>2. CASE grant' = {}
    BY <1>0, <1>1, <2>1, <2>2 DEF HeapInv
  <2>3. ASSUME NEW f \in Frame \ {0}, grant' = {f}, f \in held', f < total_frames',
               f \notin bitmap, bitmap' = bitmap \union {f},
               free_frames' = Sub(free_frames, 1)
        PROVE  HeapInv'
    <3>1. page' = f
      BY <2>1, <2>3
    <3>2. free_frames \in 0 .. WORD - 1
      BY DEF HeapInv, IInv, TypeOK
    <3>3. Working'
      BY <2>1, <2>3, <3>1, <3>2 DEF Working
    <3>4. QED
      BY <1>1, <2>1, <3>1, <3>3 DEF HeapInv
  <2>4. QED
    BY <2>1, <2>2, <2>3, OneFrame DEF HeapInv
<1>5. ASSUME NEW size \in Sizes, kmallocZero(size)
      PROVE  HeapInv'
  BY <1>1, <1>5 DEF kmallocZero, HeapInv
<1>6. CASE UNCHANGED <<vars, heap>>
  BY <1>1, <1>6 DEF vars, heap, HeapInv, Working
<1>7. QED
  BY <1>2, <1>3, <1>4, <1>5, <1>6 DEF HeapNext

(* The invariant holds in every reachable state.                           *)
LEMMA HeapAlways == HeapSpec => []HeapInv
  BY HeapInitInv, HeapNextInv, PTL DEF HeapSpec

-----------------------------------------------------------------------------
(* kmalloc behaves as a caller of pmm.c should: with the heap among the    *)
(* callers the frame allocator does what its own specification allows, so  *)
(* its theorems hold: the counter is exact and no frame has two holders.   *)
THEOREM HeapImplementsPmm == HeapSpec => Spec
<1>1. HeapInit => Init
  BY DEF HeapInit
<1>2. HeapInv /\ [HeapNext]_<<vars, heap>> => [Next]_vars
  BY HeapStepOfPmm
<1>3. QED
  BY <1>1, <1>2, HeapAlways, PTL DEF HeapSpec, Spec

(* A kmalloc that fails leaves the bitmap and the counter as it found      *)
(* them, whatever the other callers did before.                            *)
THEOREM HeapLeavesNothing == HeapSpec => KmallocLeavesNothing
<1>1. HeapInv /\ [HeapNext]_<<vars, heap>>
        => [page # 0 /\ page' = 0 /\ block' = 0
              => <<bitmap', free_frames'>> = entry]_<<vars, heap>>
  <2> SUFFICES ASSUME HeapInv, HeapNext, page # 0, page' = 0
               PROVE  <<bitmap', free_frames'>> = entry
    OBVIOUS
  <2>1. slab_alloc
    BY DEF HeapNext, Others, kmalloc, kmallocZero, heap
  <2>2. QED
    BY <2>1, GivenBack
<1>2. QED
  BY <1>1, HeapAlways, PTL DEF HeapSpec, KmallocLeavesNothing

(* kmalloc returns NULL every time: no heap that begins at or above        *)
(* MINOS_HHDM_BASE gets a page from vmm_map_user_page.  This is why the    *)
(* free list and the threads of scheduler.c need no model.                 *)
THEOREM KmallocReturnsNull == HeapSpec => [](block = 0)
<1>1. HeapInv => block = 0
  BY DEF HeapInv
<1>2. QED
  BY <1>1, HeapAlways, PTL
=============================================================================
