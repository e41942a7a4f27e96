-------------------------------- MODULE Pmm --------------------------------
(***************************************************************************)
(* The physical frame allocator (kernel/pmm.c): a bitmap with one bit per  *)
(* 4 KiB frame, filled from the UEFI memory map, and its free counter.     *)
(*                                                                         *)
(* The callers are vmm.c (page tables) and heap.c (slabs).  They free what *)
(* they were given; a second free of the same frame may slip through as    *)
(* long as nobody else has received the frame in between.                  *)
(*                                                                         *)
(* reserved_bytes_total, which is only printed, is left out.  Memory and   *)
(* regions above 64 GiB, where the bitmap ends, are assumed away.          *)
(***************************************************************************)
EXTENDS Integers, FiniteSets

CONSTANTS
  MAX_FRAMES,  \* PMM_MAX_FRAMES
  WORD,        \* the counters are unsigned and count modulo WORD
  PAGE,        \* bytes in a frame
  BootInfos,   \* the handoff records the loader may pass
  Counts,      \* the arguments of pmm_alloc_frames
  Reserves     \* the <<start, size>> arguments of pmm_reserve

Frame == 0 .. MAX_FRAMES - 1

(* The frames that lie wholly inside the descriptor, below 64 GiB.         *)
ConvFrames(d) ==
  {f \in Frame : f * PAGE >= d.start /\ (f + 1) * PAGE <= d.start + d.pages * PAGE}

(* EfiConventionalMemory.  Descriptors of a UEFI map do not overlap, so    *)
(* counting the union is what the loop over the descriptors does.          *)
Conventional(info) ==
  UNION {ConvFrames(d) : d \in {e \in info.memory_map : e.type = "conventional"}}

(* The frames a kernel region touches, as pmm_init rounds it.              *)
Touched(region) ==
  {f \in Frame : f >= region.base \div PAGE
                 /\ f < (region.base + region.size + PAGE - 1) \div PAGE}

KernelRegions(info) == UNION {Touched(r) : r \in info.regions}

ASSUME PmmAssumption ==
  /\ MAX_FRAMES \in Nat \ {0} /\ WORD \in Nat /\ MAX_FRAMES < WORD
  /\ PAGE \in Nat \ {0}
  /\ Counts \subseteq Nat
  /\ Reserves \subseteq Nat \X Nat

(* The memory and the kernel's regions lie inside what the bitmap covers.  *)
ASSUME BootInfoAssumption ==
  \A info \in BootInfos :
    /\ \A d \in info.memory_map : d.start + d.pages * PAGE <= MAX_FRAMES * PAGE
    /\ \A r \in info.regions : r.base + r.size <= MAX_FRAMES * PAGE

VARIABLES
  bitmap,        \* the frames whose bit is set
  total_frames,  \* conventional frames counted by pmm_init
  free_frames,   \* the free counter
  (* History variables. *)
  usable,        \* the conventional frames
  held,          \* the frames callers hold
  pinned,        \* the frames the kernel reserved
  grant          \* the frames the last call handed out

vars == <<bitmap, total_frames, free_frames, usable, held, pinned, grant>>

(* Mutant of Sub: the difference does not wrap.                            *)
SubSigned(x, n) == x - n

(* uint64_t arithmetic: n is at most MAX_FRAMES.                           *)
Sub(x, n) == IF n <= x THEN x - n ELSE x - n + WORD
Add(x, n) == IF x + n < WORD THEN x + n ELSE x + n - WORD

First(f, S) == f \in S /\ \A g \in S : f <= g

-----------------------------------------------------------------------------
(* A record without a memory map counts and reserves nothing: its sets of  *)
(* descriptors and of regions are empty.                                   *)
pmm_init(info) ==
  /\ usable = Conventional(info)
  /\ pinned = KernelRegions(info)
  /\ bitmap = KernelRegions(info)
  /\ total_frames = Cardinality(Conventional(info))
  /\ free_frames = Sub(Cardinality(Conventional(info)), Cardinality(KernelRegions(info)))
  /\ held = {} /\ grant = {}

(* The bits of the frames are set and the counter goes down by as many.    *)
MarkUsed(frames) ==
  /\ bitmap' = bitmap \union frames
  /\ free_frames' = Sub(free_frames, Cardinality(frames))

HandOut(frames) ==
  /\ MarkUsed(frames)
  /\ held' = held \union frames /\ grant' = frames

(* The call returns 0.                                                     *)
HandOutNothing == grant' = {} /\ UNCHANGED <<bitmap, free_frames, held>>

(* Mutant of Candidates: the search goes one frame too far.                *)
CandidatesInclusive == {f \in 1 .. total_frames : f \notin bitmap}

(* The frames pmm_alloc_frame looks through: 0 is its error code.          *)
Candidates == {f \in 1 .. total_frames - 1 : f \notin bitmap}

pmm_alloc_frame ==
  /\ \/ \E f \in Candidates : First(f, Candidates) /\ HandOut({f})
     \/ Candidates = {} /\ HandOutNothing
  /\ UNCHANGED <<total_frames, usable, pinned>>

Run(f, count) == f .. f + count - 1

(* Mutant of RunStarts: only the first frame of the run is tested.         *)
RunStartsFirstOnly(count) == {f \in 1 .. total_frames - count : f \notin bitmap}

RunStarts(count) ==
  {f \in 1 .. total_frames - count : Run(f, count) \intersect bitmap = {}}

pmm_alloc_frames(count) ==
  /\ \/ /\ count > 0
        /\ \E f \in RunStarts(count) : First(f, RunStarts(count)) /\ HandOut(Run(f, count))
     \/ (count = 0 \/ RunStarts(count) = {}) /\ HandOutNothing
  /\ UNCHANGED <<total_frames, usable, pinned>>

(* Callers free frames they hold, or have freed already.                   *)
CallerFrees(f) == f # 0 /\ (f \in bitmap => f \in held)

(* Mutant of pmm_free_frame: the last frame cannot be freed.               *)
pmm_free_frameNotLast(f) ==
  /\ CallerFrees(f)
  /\ IF f < total_frames - 1 /\ f \in bitmap
     THEN bitmap' = bitmap \ {f} /\ free_frames' = Add(free_frames, 1)
     ELSE UNCHANGED <<bitmap, free_frames>>
  /\ held' = held \ {f} /\ grant' = {}
  /\ UNCHANGED <<total_frames, usable, pinned>>

(* Mutant of pmm_free_frame: the bit is not tested first.                  *)
pmm_free_frameUntested(f) ==
  /\ CallerFrees(f)
  /\ f < total_frames
  /\ bitmap' = bitmap \ {f} /\ free_frames' = Add(free_frames, 1)
  /\ held' = held \ {f} /\ grant' = {}
  /\ UNCHANGED <<total_frames, usable, pinned>>

pmm_free_frame(f) ==
  /\ CallerFrees(f)
  /\ IF f < total_frames /\ f \in bitmap
     THEN bitmap' = bitmap \ {f} /\ free_frames' = Add(free_frames, 1)
     ELSE UNCHANGED <<bitmap, free_frames>>
  /\ held' = held \ {f} /\ grant' = {}
  /\ UNCHANGED <<total_frames, usable, pinned>>

(* pmm_reserve rounds both ends up, then calls reserve_range.  It succeeds *)
(* for frames that a caller holds as well, but has no effect on them: when *)
(* the caller frees such a frame its reservation is gone.  pinned leaves   *)
(* these frames out.  (Nothing in the kernel calls pmm_reserve.)           *)
Up(n) == (n + PAGE - 1) \div PAGE
pmm_reserve(start, size) ==
  LET range == {f \in Frame : f >= Up(start) /\ f < Up(start + size)}
  IN  /\ \/ /\ size > 0 /\ Up(start + size) <= MAX_FRAMES
            /\ MarkUsed(range \ bitmap)
            /\ pinned' = pinned \union (range \ held)
         \/ (size = 0 \/ Up(start + size) > MAX_FRAMES)
            /\ UNCHANGED <<bitmap, free_frames, pinned>>
      /\ grant' = {}
      /\ UNCHANGED <<total_frames, usable, held>>

-----------------------------------------------------------------------------
Init == \E info \in BootInfos : pmm_init(info)

Next ==
  \/ pmm_alloc_frame
  \/ \E count \in Counts : pmm_alloc_frames(count)
  \/ \E f \in Frame : pmm_free_frame(f)
  \/ \E r \in Reserves : pmm_reserve(r[1], r[2])

Spec == Init /\ [][Next]_vars

-----------------------------------------------------------------------------
(* The type invariant.                                                     *)
TypeOK ==
  /\ bitmap \subseteq Frame /\ usable \subseteq Frame
  /\ held \subseteq Frame /\ pinned \subseteq Frame /\ grant \subseteq Frame
  /\ total_frames \in 0 .. MAX_FRAMES
  /\ free_frames \in 0 .. WORD - 1

(* Every bit that is set, by pmm_init, by an allocation or by pmm_reserve, *)
(* took one off the free counter, and every bit that is cleared gave one   *)
(* back: after any sequence of calls, double frees included, the counter   *)
(* has not drifted from the bitmap.  When the kernel's regions lie outside *)
(* conventional memory the counter may pass below zero and wraps.          *)
CounterMatchesBitmap ==
  free_frames = Sub(Cardinality(usable), Cardinality(bitmap))

(* A frame is handed out to one holder at a time, and never while the      *)
(* kernel, its stack, the framebuffer or the handoff data occupy it, or    *)
(* after pmm_reserve took it while nobody held it.  Nothing is claimed for *)
(* a frame that was reserved while a caller held it.                       *)
HandoutExclusive == [][grant' \intersect (held \union pinned) = {}]_vars

(* total_frames counts frames but bounds frame numbers.  That is harmless  *)
(* when conventional memory starts at frame 0 and has no holes: then only  *)
(* conventional frames are handed out.                                     *)
HoleFree == usable = 0 .. total_frames - 1
HoleFreeMapsAreSafe == HoleFree => held \subseteq usable

(* The allocator hands out nothing but conventional memory.                *)
OnlyConventional == held \subseteq usable
=============================================================================
