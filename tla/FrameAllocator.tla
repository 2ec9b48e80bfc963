-------------------------- MODULE FrameAllocator --------------------------
(***************************************************************************)
(* What pmm.c promises its callers: frames are a set, an allocation takes  *)
(* the lowest frame nobody has and fails only when every frame is taken,   *)
(* and the count reported is the number of frames left.  No hint, no       *)
(* bitmap, no counter.                                                     *)
(***************************************************************************)
EXTENDS Integers, FiniteSets

CONSTANTS Frames, Addresses, Indices, AddrOf(_), Names(_, _)

VARIABLES taken,   (* frames not available to an allocation               *)
          answer   (* what the last call returned                         *)

Free == Frames \ taken

Init == taken \subseteq Frames /\ answer = 0

Alloc ==
    IF Free = {}
    THEN answer' = 0 /\ taken' = taken
    ELSE \E i \in Free : /\ \A j \in Free : i <= j
                         /\ taken' = taken \cup {i}
                         /\ answer' = AddrOf(i)

(* An address names at most one frame; any other address frees nothing. *)
Release(addr) == /\ taken' = {i \in taken : ~ Names(addr, i)}
                 /\ answer' = 0

Reserve(i) == taken' = taken \cup ({i} \cap Frames) /\ answer' = 0

Count == answer' = Cardinality(Free) /\ taken' = taken

Next == \/ Alloc
        \/ \E addr \in Addresses : Release(addr)
        \/ \E i \in Indices : Reserve(i)
        \/ Count

Spec == Init /\ [][Next]_<<taken, answer>>
=============================================================================
