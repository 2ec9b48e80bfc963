-------------------------------- MODULE Pmm --------------------------------
(***************************************************************************)
(* pmm.c called by anyone, in any order, with any address or frame number: *)
(* the functions of PmmOps as the actions of a state machine.              *)
(***************************************************************************)
EXTENDS PmmOps

CONSTANT HeapFrames  (* the frames under heap_init(0x800000, 0x400000)     *)

ASSUME HeapAssumption == HeapFrames \subseteq Frames

VARIABLES
    pmm,    (* static physical_memory_manager_t pmm                       *)
    ret,    (* the value the last call returned, 0 for a void one         *)
    lent    (* history: frames handed out and not given back since        *)

vars == <<pmm, ret, lent>>

(* Every frame's first and second byte, the bytes around the managed range. *)
Addresses == 0 .. AddrOf(TotalFrames + 1)
Indices   == 0 .. TotalFrames

Init == pmm = PmmInit /\ ret = 0 /\ lent = {}

pmm_alloc_frame ==
    \/ /\ AllocFails(pmm)
       /\ ret' = 0
       /\ UNCHANGED <<pmm, lent>>
    \/ /\ ~ AllocFails(pmm)
       /\ pmm' = AfterAlloc(pmm)
       /\ ret' = AddrOf(AllocFrame(pmm))
       /\ lent' = lent \cup {AllocFrame(pmm)}

pmm_free_frame(addr) ==
    /\ pmm' = AfterFree(pmm, addr)
    /\ ret' = 0
    /\ lent' = lent \ (pmm.bitmap \ pmm'.bitmap)

pmm_mark_frame_used(i) ==
    /\ pmm' = AfterMark(pmm, i)
    /\ ret' = 0
    /\ UNCHANGED lent

pmm_get_free_frames == ret' = pmm.free_frames /\ UNCHANGED <<pmm, lent>>

Next == \/ pmm_alloc_frame
        \/ \E addr \in Addresses : pmm_free_frame(addr)
        \/ \E i \in Indices : pmm_mark_frame_used(i)
        \/ pmm_get_free_frames

Spec == Init /\ [][Next]_vars

-----------------------------------------------------------------------------
(* Type invariant of the static record, the returned word and the history. *)
TypeOK == pmm \in PmmState /\ ret \in Nat /\ lent \in SUBSET Frames

(* Whatever is called, free_frames (which gates pmm_alloc_frame and is     *)
(* shown by meminfo) stays the number of clear bits, and no free frame is  *)
(* ever below first_free_frame, the hint the search trusts.                *)
BookkeepingSound == CountExact(pmm) /\ HintSound(pmm)

(* pmm_alloc_frame refuses a caller exactly when every frame is taken: no  *)
(* frame is lost to the hint, the counter or the fallback search.          *)
FailsOnlyWhenExhausted == AllocFails(pmm) <=> pmm.bitmap = Frames

Abstract == INSTANCE FrameAllocator
    WITH taken <- pmm.bitmap, answer <- ret,
         Names <- LAMBDA addr, i : Managed(addr) /\ FrameOf(addr) = i

(* pmm.c, hint, bitmap and counter included, behaves as the allocator that *)
(* always takes the lowest free frame and counts exactly.                  *)
ImplementsFrameAllocator == Abstract!Spec

-----------------------------------------------------------------------------
(* The callers the build has (vmm.c, process.c): a frame is returned at    *)
(* most once, by its address, and nobody but pmm_init marks frames.        *)
DisciplinedNext == \/ pmm_alloc_frame
                   \/ \E i \in lent : pmm_free_frame(AddrOf(i))
                   \/ pmm_get_free_frames

DisciplinedSpec == Init /\ [][DisciplinedNext]_vars

(* With such callers the taken frames are exactly the bitmap's own and     *)
(* those lent out: none leaks, none is lent twice, and the frame the       *)
(* bitmap is stored in is never handed to anyone.                          *)
OwnershipExact == /\ pmm.bitmap = BitmapFrames \cup lent
                  /\ BitmapFrames \cap lent = {}
                  /\ 0 \notin lent

(* "Memory starts after kernel (2MB for safety)", pmm.c:9, and "4MB heap   *)
(* at 8MB", kernel.c:1103: what the PMM hands out is free memory, so it is *)
(* not the memory kernel_main gave to the heap.                            *)
HeapMemoryNotHandedOut == lent \cap HeapFrames = {}
=============================================================================
