----------------------------- MODULE PmmProofs -----------------------------
(***************************************************************************)
(* Lemmas about the functions of pmm.c for every number of frames, page    *)
(* size and start address: each function of PmmOps preserves PmmSound      *)
(* (bookkeeping and hint), an initial record has it, and a record that has *)
(* it fails only when exhausted.                                           *)
(***************************************************************************)
EXTENDS PmmOps, FiniteSetTheorems, WellFoundedInduction, TLAPS

(* Subsets of Frames, and their complements, are finite and counted. *)
LEMMA FramesFinite ==
    ASSUME NEW B \in SUBSET Frames
    PROVE  /\ IsFiniteSet(B) /\ IsFiniteSet(Frames \ B)
           /\ Cardinality(B) \in Nat
           /\ Cardinality(Frames \ B) \in Nat
           /\ Cardinality(Frames \ B) = TotalFrames - Cardinality(B)
<1>1. IsFiniteSet(Frames) /\ Cardinality(Frames) = TotalFrames
  BY PmmAssumption, FS_Interval DEF Frames
<1>2. IsFiniteSet(B)
  BY <1>1, FS_Subset
<1>3. /\ IsFiniteSet(Frames \ B)
      /\ Cardinality(Frames \ B) = Cardinality(Frames) - Cardinality(Frames \cap B)
  BY <1>1, <1>2, FS_Difference
<1>4. Frames \cap B = B
  OBVIOUS
<1>5. Cardinality(B) \in Nat /\ Cardinality(Frames \ B) \in Nat
  BY <1>2, <1>3, FS_CardinalityType
<1> QED
  BY <1>1, <1>2, <1>3, <1>4, <1>5

(* A frame moves between the bitmap and its complement: the count moves by one. *)
LEMMA CountMoves ==
    ASSUME NEW B \in SUBSET Frames, NEW i \in Frames
    PROVE  /\ i \notin B => Cardinality(Frames \ (B \cup {i})) = Cardinality(Frames \ B) - 1
           /\ i \in B    => Cardinality(Frames \ (B \ {i})) = Cardinality(Frames \ B) + 1
<1>1. IsFiniteSet(Frames \ B) /\ Cardinality(Frames \ B) \in Nat
  BY FramesFinite
<1>2. CASE i \notin B
  <2>1. Frames \ (B \cup {i}) = (Frames \ B) \ {i} /\ i \in Frames \ B
    BY <1>2
  <2> QED
    BY <2>1, <1>1, <1>2, FS_RemoveElement
<1>3. CASE i \in B
  <2>1. Frames \ (B \ {i}) = (Frames \ B) \cup {i} /\ i \notin Frames \ B
    BY <1>3
  <2> QED
    BY <2>1, <1>1, <1>3, FS_AddElement
<1> QED
  BY <1>2, <1>3

(* A nonempty set of frames has a least element. *)
LEMMA LowestExists ==
    ASSUME NEW S \in SUBSET Frames, S # {}
    PROVE  LowestOf(S) \in S /\ \A j \in S : LowestOf(S) <= j
<1> DEFINE R == {ss \in Nat \X Nat : ss[1] < ss[2]}
<1>1. IsWellFoundedOn(R, Nat)
  <2>1. R = OpToRel(<, Nat)
    BY DEF OpToRel
  <2> QED
    BY <2>1, NatLessThanWellFounded
<1>2. S \subseteq Nat
  BY PmmAssumption DEF Frames
<1>3. PICK m \in S : \A j \in S : ~ (<<j, m>> \in R)
  <2> HIDE DEF R
  <2> QED
    BY <1>1, <1>2, WFMin
<1>4. ASSUME NEW j \in S PROVE m <= j
  <2>1. j \in Nat /\ m \in Nat
    BY <1>2
  <2>2. ~ (<<j, m>> \in R)
    BY <1>3
  <2>3. <<j, m>> \in Nat \X Nat /\ <<j, m>>[1] = j /\ <<j, m>>[2] = m
    BY <2>1
  <2>4. ~ (j < m)
    BY <2>2, <2>3
  <2> QED
    BY <2>1, <2>4
<1> QED
  BY <1>3, <1>4 DEF LowestOf

-----------------------------------------------------------------------------
(* What pmm_alloc_frame does to a sound record: it fails exactly when      *)
(* nothing is free, and otherwise takes the lowest free frame.             *)
LEMMA AllocOnSound ==
    ASSUME NEW p, PmmSound(p)
    PROVE  /\ AllocFails(p) <=> p.bitmap = Frames
           /\ ~ AllocFails(p) => /\ AllocFrame(p) \in Frames \ p.bitmap
                                 /\ \A j \in Frames \ p.bitmap : AllocFrame(p) <= j
<1> USE DEF PmmSound, PmmState
<1>1. /\ p.bitmap \in SUBSET Frames
      /\ p.free_frames \in Nat /\ p.first_free_frame \in Nat
  OBVIOUS
<1>2. FreeBelow(p) = {}
  BY DEF HintSound, FreeBelow
<1>3. FreeAbove(p) = Frames \ p.bitmap
  BY <1>1, PmmAssumption DEF HintSound, FreeAbove, Frames
<1>4. p.free_frames = 0 <=> Frames \ p.bitmap = {}
  BY <1>1, FramesFinite, FS_EmptySet DEF CountExact
<1>5. AllocFails(p) <=> p.bitmap = Frames
  BY <1>1, <1>2, <1>3, <1>4 DEF AllocFails
<1>6. ASSUME ~ AllocFails(p)
      PROVE  /\ AllocFrame(p) \in Frames \ p.bitmap
             /\ \A j \in Frames \ p.bitmap : AllocFrame(p) <= j
  <2>1. FreeAbove(p) # {}
    BY <1>6, <1>2 DEF AllocFails
  <2>2. AllocFrame(p) = LowestOf(Frames \ p.bitmap)
    BY <2>1, <1>3 DEF AllocFrame
  <2> QED
    BY <2>1, <2>2, <1>3, LowestExists
<1> QED
  BY <1>5, <1>6

(* pmm_init's record is sound. *)
LEMMA InitSound == PmmSound(PmmInit)
<1>1. BitmapFrames \in SUBSET Frames
  BY DEF BitmapFrames
<1> QED
  BY <1>1, FramesFinite, PmmAssumption DEF PmmSound, PmmInit, PmmState, CountExact, HintSound, Frames

(* pmm_alloc_frame keeps a record sound. *)
LEMMA AllocSound ==
    ASSUME NEW p, PmmSound(p), ~ AllocFails(p)
    PROVE  PmmSound(AfterAlloc(p))
<1> DEFINE i == AllocFrame(p)
<1>1. /\ p.bitmap \in SUBSET Frames
      /\ p.free_frames \in Nat /\ p.first_free_frame \in Nat
      /\ p.free_frames = Cardinality(Frames \ p.bitmap)
      /\ \A j \in Frames : j < p.first_free_frame => j \in p.bitmap
  BY DEF PmmSound, PmmState, CountExact, HintSound
<1>2. i \in Frames \ p.bitmap
  BY AllocOnSound
<1>3. Cardinality(Frames \ (p.bitmap \cup {i})) = p.free_frames - 1
  BY <1>1, <1>2, CountMoves
<1>4. p.free_frames - 1 \in Nat
  BY <1>1, <1>3, FramesFinite, <1>2
<1> HIDE DEF i
<1>5. /\ AfterAlloc(p).bitmap = p.bitmap \cup {i}
      /\ AfterAlloc(p).free_frames = p.free_frames - 1
      /\ AfterAlloc(p).first_free_frame = IF i = p.first_free_frame
                                          THEN p.first_free_frame + 1 ELSE p.first_free_frame
      /\ AfterAlloc(p) \in PmmState
  BY <1>1, <1>2, <1>4 DEF AfterAlloc, PmmState, i
<1>6. HintSound(AfterAlloc(p))
  BY <1>1, <1>2, <1>5, PmmAssumption DEF HintSound, Frames
<1> QED
  BY <1>3, <1>5, <1>6 DEF PmmSound, CountExact

(* pmm_free_frame keeps a record sound, whatever address it is given. *)
LEMMA FreeSound ==
    ASSUME NEW p, PmmSound(p), NEW addr \in Nat
    PROVE  PmmSound(AfterFree(p, addr))
<1> DEFINE i == FrameOf(addr)
<1>1. /\ p.bitmap \in SUBSET Frames
      /\ p.free_frames \in Nat /\ p.first_free_frame \in Nat
      /\ p.free_frames = Cardinality(Frames \ p.bitmap)
      /\ \A j \in Frames : j < p.first_free_frame => j \in p.bitmap
  BY DEF PmmSound, PmmState, CountExact, HintSound
<1>2. CASE ~ (Managed(addr) /\ i \in p.bitmap)
  BY <1>2 DEF AfterFree
<1>3. CASE Managed(addr) /\ i \in p.bitmap
  <2>1. i \in Frames /\ i \in Nat
    BY <1>1, <1>3, PmmAssumption DEF Frames
  <2>2. Cardinality(Frames \ (p.bitmap \ {i})) = p.free_frames + 1
    BY <1>1, <1>3, <2>1, CountMoves
  <2> HIDE DEF i
  <2>3. AfterFree(p, addr) =
          [bitmap           |-> p.bitmap \ {i},
           free_frames      |-> p.free_frames + 1,
           first_free_frame |-> IF i < p.first_free_frame THEN i ELSE p.first_free_frame]
    BY <1>3 DEF AfterFree, i
  <2>4. AfterFree(p, addr) \in PmmState
    BY <1>1, <2>1, <2>3 DEF PmmState
  <2>5. HintSound(AfterFree(p, addr))
    BY <1>1, <2>1, <2>3, PmmAssumption DEF HintSound, Frames
  <2> QED
    BY <2>2, <2>3, <2>4, <2>5 DEF PmmSound, CountExact
<1> QED
  BY <1>2, <1>3

(* pmm_mark_frame_used keeps a record sound, whatever index it is given. *)
LEMMA MarkSound ==
    ASSUME NEW p, PmmSound(p), NEW i \in Nat
    PROVE  PmmSound(AfterMark(p, i))
<1>1. /\ p \in PmmState /\ p.bitmap \in SUBSET Frames
      /\ p.free_frames \in Nat /\ p.first_free_frame \in Nat
      /\ p.free_frames = Cardinality(Frames \ p.bitmap)
      /\ \A j \in Frames : j < p.first_free_frame => j \in p.bitmap
  BY DEF PmmSound, PmmState, CountExact, HintSound
<1>2. CASE i \notin Frames \ p.bitmap
  BY <1>2 DEF AfterMark
<1>3. CASE i \in Frames \ p.bitmap
  <2>1. Cardinality(Frames \ (p.bitmap \cup {i})) = p.free_frames - 1
    BY <1>1, <1>3, CountMoves
  <2>2. p.free_frames - 1 \in Nat
    BY <1>1, <1>3, <2>1, FramesFinite
  <2>3. /\ AfterMark(p, i).bitmap = p.bitmap \cup {i}
        /\ AfterMark(p, i).free_frames = p.free_frames - 1
        /\ AfterMark(p, i).first_free_frame = p.first_free_frame
        /\ AfterMark(p, i) \in PmmState
    BY <1>1, <1>3, <2>2 DEF AfterMark, PmmState
  <2> QED
    BY <1>1, <2>1, <2>3 DEF PmmSound, CountExact, HintSound
<1> QED
  BY <1>2, <1>3

-----------------------------------------------------------------------------
(* Arithmetic of addresses. *)

(* Byte addresses are natural numbers. *)
LEMMA AddrNat == \A i \in Nat : AddrOf(i) \in Nat /\ AddrOf(i) >= MemoryStart
  BY PmmAssumption DEF AddrOf

LEMMA Quotient ==
  ASSUME NEW n \in Nat \ {0}, NEW q \in Int, NEW r \in 0 .. n - 1
  PROVE  (q * n + r) \div n = q
  OBVIOUS

(* A frame's address is managed, and names it. *)
LEMMA FrameNamed ==
  ASSUME NEW i \in Frames
  PROVE  /\ AddrOf(i) \in Nat /\ AddrOf(i) >= MemoryStart
         /\ FrameOf(AddrOf(i)) = i /\ Managed(AddrOf(i))
<1>1. i \in Nat /\ i < TotalFrames /\ i * PageSize \in Nat
  BY PmmAssumption DEF Frames
<1>2. AddrOf(i) \in Nat /\ AddrOf(i) >= MemoryStart /\ AddrOf(i) - MemoryStart = i * PageSize + 0
  BY <1>1, PmmAssumption DEF AddrOf
<1>3. FrameOf(AddrOf(i)) = i
  BY <1>1, <1>2, PmmAssumption, Quotient DEF FrameOf
<1> QED
  BY <1>1, <1>2, <1>3 DEF Managed
=============================================================================
