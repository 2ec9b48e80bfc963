------------------------------ MODULE PmmOps ------------------------------
(***************************************************************************)
(* The physical memory manager of kernel/pmm.c as functions on its one     *)
(* static record: a bitmap of frames, a count of the clear bits and a hint *)
(* below which no search is made first.  The bitmap is the set of frames   *)
(* whose bit is set.  Nothing in the build calls pmm.c from an interrupt   *)
(* handler, so each function is one step.                                  *)
(***************************************************************************)
EXTENDS Integers, FiniteSets

CONSTANTS
    TotalFrames,  (* MEMORY_SIZE / PAGE_SIZE                              *)
    PageSize,     (* PAGE_SIZE, in bytes                                  *)
    MemoryStart   (* MEMORY_START, the address of frame 0                 *)

ASSUME PmmAssumption ==
    /\ TotalFrames \in Nat \ {0}
    /\ PageSize \in Nat \ {0}
    /\ MemoryStart \in Nat \ {0}

Frames == 0 .. TotalFrames - 1

(* The values the static record ranges over. *)
PmmState == [bitmap : SUBSET Frames, free_frames : Nat, first_free_frame : Nat]

AddrOf(i) == MemoryStart + i * PageSize

(* The frame of an address at or above MEMORY_START; the C division floors. *)
FrameOf(addr) == (addr - MemoryStart) \div PageSize

(* Addresses pmm_free_frame acts on: both range checks passed. *)
Managed(addr) == addr >= MemoryStart /\ FrameOf(addr) < TotalFrames

(* The bitmap lies at MEMORY_START and covers itself: one bit per frame,   *)
(* rounded up to 32-bit words, rounded up to frames.                       *)
BitmapWords  == (TotalFrames + 31) \div 32
BitmapFrames == {i \in Frames : i < (BitmapWords * 4 + PageSize - 1) \div PageSize}

LowestOf(S) == CHOOSE i \in S : \A j \in S : i <= j

-----------------------------------------------------------------------------
(* pmm_init *)
PmmInit == [bitmap           |-> BitmapFrames,
            free_frames      |-> TotalFrames - Cardinality(BitmapFrames),
            first_free_frame |-> 0]

(* The two searches of pmm_alloc_frame: from the hint up, then, as the     *)
(* fallback, from frame 0 up to the hint.                                  *)
FreeAbove(p) == {i \in Frames : i >= p.first_free_frame /\ i \notin p.bitmap}
FreeBelow(p) == {i \in Frames : i <  p.first_free_frame /\ i \notin p.bitmap}

(* mutant: the last frame is never handed out *)
AllocFailsEarly(p) == p.free_frames <= 1 \/ (FreeAbove(p) = {} /\ FreeBelow(p) = {})

(* pmm_alloc_frame returns 0 at its first test or after both searches.     *)
AllocFails(p) == p.free_frames = 0 \/ (FreeAbove(p) = {} /\ FreeBelow(p) = {})

AllocFrame(p) ==
    IF FreeAbove(p) # {} THEN LowestOf(FreeAbove(p)) ELSE LowestOf(FreeBelow(p))

AfterAlloc(p) ==
    [bitmap           |-> p.bitmap \cup {AllocFrame(p)},
     free_frames      |-> p.free_frames - 1,
     first_free_frame |-> IF AllocFrame(p) = p.first_free_frame
                          THEN p.first_free_frame + 1
                          ELSE p.first_free_frame]

(* mutant: frees without lowering the hint *)
AfterFreeHintKept(p, addr) ==
    IF Managed(addr) /\ FrameOf(addr) \in p.bitmap
    THEN [p EXCEPT !.bitmap = @ \ {FrameOf(addr)}, !.free_frames = @ + 1]
    ELSE p

(* mutant: counts a frame that was not allocated as freed *)
AfterFreeUnchecked(p, addr) ==
    IF Managed(addr)
    THEN [bitmap           |-> p.bitmap \ {FrameOf(addr)},
          free_frames      |-> p.free_frames + 1,
          first_free_frame |-> IF FrameOf(addr) < p.first_free_frame
                               THEN FrameOf(addr) ELSE p.first_free_frame]
    ELSE p

(* pmm_free_frame: silently ignores an address outside the managed range   *)
(* and a frame that is not allocated.                                      *)
AfterFree(p, addr) ==
    IF Managed(addr) /\ FrameOf(addr) \in p.bitmap
    THEN [bitmap           |-> p.bitmap \ {FrameOf(addr)},
          free_frames      |-> p.free_frames + 1,
          first_free_frame |-> IF FrameOf(addr) < p.first_free_frame
                               THEN FrameOf(addr) ELSE p.first_free_frame]
    ELSE p

(* mutant: counts the frame down even when its bit was already set *)
AfterMarkUnchecked(p, i) ==
    IF i \in Frames
    THEN [p EXCEPT !.bitmap = @ \cup {i}, !.free_frames = @ - 1]
    ELSE p

(* pmm_mark_frame_used: the hint is left alone.                            *)
AfterMark(p, i) ==
    IF i \in Frames \ p.bitmap
    THEN [p EXCEPT !.bitmap = @ \cup {i}, !.free_frames = @ - 1]
    ELSE p

-----------------------------------------------------------------------------
(* What every reachable record satisfies, whoever the callers are.         *)

(* The count is the number of clear bits. *)
CountExact(p) == p.free_frames = Cardinality(Frames \ p.bitmap)

(* Every frame below the hint is allocated. *)
HintSound(p) == \A i \in Frames : i < p.first_free_frame => i \in p.bitmap

PmmSound(p) == p \in PmmState /\ CountExact(p) /\ HintSound(p)
=============================================================================
