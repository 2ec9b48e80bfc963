----------------------------- MODULE VmmProofs -----------------------------
(***************************************************************************)
(* Proofs about the physical memory manager under any callers, and about   *)
(* the virtual memory manager over it, for every number of frames and      *)
(* every size of pages, directories and tables.  The directories D, the    *)
(* tables T and the placed entries P are sound over the lent frames L when *)
(* every address in use is that of a lent frame, used once, and tables are *)
(* shared only where the kernel's directory has them; each call adds,      *)
(* overwrites or clears one entry of such structures.                      *)
(***************************************************************************)
EXTENDS Vmm, PmmProofs

-----------------------------------------------------------------------------
(* The physical memory manager alone, called by anyone with anything.      *)

(* A frame's address is one the callers pass. *)
LEMMA FrameAddress ==
  ASSUME NEW i \in Frames
  PROVE  /\ AddrOf(i) \in Nat /\ AddrOf(i) >= MemoryStart
         /\ FrameOf(AddrOf(i)) = i
         /\ Managed(AddrOf(i)) /\ AddrOf(i) \in Addresses
<1>1. i \in Nat /\ i < TotalFrames
  BY PmmAssumption DEF Frames
<1>2. AddrOf(i) <= AddrOf(TotalFrames + 1)
  <2>1. i * PageSize <= (TotalFrames + 1) * PageSize
    BY <1>1, PmmAssumption
  <2> QED
    BY <2>1, <1>1, PmmAssumption DEF AddrOf
<1>3. AddrOf(TotalFrames + 1) \in Nat
  BY PmmAssumption, AddrNat
<1> QED
  BY <1>2, <1>3, FrameNamed DEF Addresses

(* The inductive invariant of the machine: a sound record, a word returned *)
(* and a history of frames.                                                *)
IInv == PmmSound(pmm) /\ ret \in Nat /\ lent \in SUBSET Frames

(* pmm_init establishes the inductive invariant. *)
LEMMA InvInit == Init => IInv
  BY InitSound DEF Init, IInv

(* Every call, with any argument, preserves it. *)
LEMMA InvNext == IInv /\ [Next]_vars => IInv'
<1> SUFFICES ASSUME IInv, [Next]_vars PROVE IInv'
  OBVIOUS
<1> USE DEF IInv
<1>1. CASE pmm_alloc_frame
  <2>1. CASE AllocFails(pmm) /\ ret' = 0 /\ UNCHANGED <<pmm, lent>>
    BY <2>1
  <2>2. CASE /\ ~ AllocFails(pmm)
             /\ pmm' = AfterAlloc(pmm)
             /\ ret' = AddrOf(AllocFrame(pmm))
             /\ lent' = lent \cup {AllocFrame(pmm)}
    <3>1. AllocFrame(pmm) \in Frames /\ AllocFrame(pmm) \in Nat
      BY <2>2, AllocOnSound, PmmAssumption DEF Frames
    <3>2. PmmSound(pmm') /\ ret' \in Nat
      BY <2>2, <3>1, AllocSound, AddrNat
    <3> QED
      BY <2>2, <3>1, <3>2
  <2> QED
    BY <1>1, <2>1, <2>2 DEF pmm_alloc_frame
<1>2. ASSUME NEW addr \in Addresses, pmm_free_frame(addr) PROVE IInv'
  <2>1. addr \in Nat
    BY PmmAssumption, AddrNat DEF Addresses
  <2> QED
    BY <1>2, <2>1, FreeSound DEF pmm_free_frame
<1>3. ASSUME NEW i \in Indices, pmm_mark_frame_used(i) PROVE IInv'
  <2>1. i \in Nat
    BY PmmAssumption DEF Indices
  <2> QED
    BY <1>3, <2>1, MarkSound DEF pmm_mark_frame_used
<1>4. CASE pmm_get_free_frames
  BY <1>4 DEF pmm_get_free_frames, PmmSound, PmmState
<1>5. CASE UNCHANGED vars
  BY <1>5 DEF vars
<1> QED
  BY <1>1, <1>2, <1>3, <1>4, <1>5 DEF Next

(* The inductive invariant holds in every state of every behaviour. *)
LEMMA InvHolds == Spec => []IInv
  BY InvInit, InvNext, PTL DEF Spec

(* The static record keeps its type under any calls, in any order. *)
THEOREM TypeCorrect == Spec => []TypeOK
<1>1. IInv => TypeOK
  BY DEF IInv, PmmSound, TypeOK
<1> QED
  BY <1>1, InvHolds, PTL

(* free_frames counts the clear bits and no free frame is below the hint,  *)
(* whatever pmm_alloc_frame, pmm_free_frame and pmm_mark_frame_used get.   *)
THEOREM Bookkeeping == Spec => []BookkeepingSound
<1>1. IInv => BookkeepingSound
  BY DEF IInv, PmmSound, BookkeepingSound
<1> QED
  BY <1>1, InvHolds, PTL

(* pmm_alloc_frame returns 0 exactly when every frame is taken. *)
THEOREM Exhaustion == Spec => []FailsOnlyWhenExhausted
<1>1. IInv => FailsOnlyWhenExhausted
  BY AllocOnSound DEF IInv, FailsOnlyWhenExhausted
<1> QED
  BY <1>1, InvHolds, PTL

-----------------------------------------------------------------------------
(* Each step of pmm.c is a step of FrameAllocator: the hint and the        *)
(* counter are invisible to callers.                                       *)
LEMMA StepRefines == IInv /\ [Next]_vars => [Abstract!Next]_<<pmm.bitmap, ret>>
<1> SUFFICES ASSUME IInv, [Next]_vars PROVE [Abstract!Next]_<<pmm.bitmap, ret>>
  OBVIOUS
<1>0. PmmSound(pmm) /\ pmm.bitmap \in SUBSET Frames
  BY DEF IInv, PmmSound, PmmState
<1>1. CASE pmm_alloc_frame
  <2>1. CASE AllocFails(pmm) /\ ret' = 0 /\ UNCHANGED <<pmm, lent>>
    <3>1. pmm.bitmap = Frames
      BY <1>0, <2>1, AllocOnSound
    <3>2. Abstract!Alloc
      BY <2>1, <3>1 DEF Abstract!Alloc, Abstract!Free
    <3> QED
      BY <3>2 DEF Abstract!Next
  <2>2. CASE /\ ~ AllocFails(pmm)
             /\ pmm' = AfterAlloc(pmm)
             /\ ret' = AddrOf(AllocFrame(pmm))
             /\ lent' = lent \cup {AllocFrame(pmm)}
    <3>1. /\ AllocFrame(pmm) \in Frames \ pmm.bitmap
          /\ \A j \in Frames \ pmm.bitmap : AllocFrame(pmm) <= j
      BY <1>0, <2>2, AllocOnSound
    <3>2. pmm'.bitmap = pmm.bitmap \cup {AllocFrame(pmm)}
      BY <2>2 DEF AfterAlloc
    <3>3. Abstract!Alloc
      BY <2>2, <3>1, <3>2 DEF Abstract!Alloc, Abstract!Free
    <3> QED
      BY <3>3 DEF Abstract!Next
  <2> QED
    BY <1>1, <2>1, <2>2 DEF pmm_alloc_frame
<1>2. ASSUME NEW addr \in Addresses, pmm_free_frame(addr) PROVE Abstract!Next
  <2>1. pmm'.bitmap = {i \in pmm.bitmap : ~ (Managed(addr) /\ FrameOf(addr) = i)}
    <3>1. CASE Managed(addr) /\ FrameOf(addr) \in pmm.bitmap
      BY <1>2, <3>1 DEF pmm_free_frame, AfterFree
    <3>2. CASE ~ (Managed(addr) /\ FrameOf(addr) \in pmm.bitmap)
      BY <1>2, <3>2 DEF pmm_free_frame, AfterFree
    <3> QED
      BY <3>1, <3>2
  <2>2. Abstract!Release(addr)
    BY <1>2, <2>1 DEF Abstract!Release, pmm_free_frame
  <2> QED
    BY <2>2 DEF Abstract!Next
<1>3. ASSUME NEW i \in Indices, pmm_mark_frame_used(i) PROVE Abstract!Next
  <2>0. pmm \in PmmState
    BY <1>0 DEF PmmSound
  <2>1. pmm'.bitmap = pmm.bitmap \cup ({i} \cap Frames)
    <3>1. CASE i \in Frames \ pmm.bitmap
      BY <1>3, <2>0, <3>1 DEF pmm_mark_frame_used, AfterMark, PmmState
    <3>2. CASE i \notin Frames \ pmm.bitmap
      BY <1>3, <3>2 DEF pmm_mark_frame_used, AfterMark
    <3> QED
      BY <3>1, <3>2
  <2>2. Abstract!Reserve(i)
    BY <1>3, <2>1 DEF Abstract!Reserve, pmm_mark_frame_used
  <2> QED
    BY <2>2 DEF Abstract!Next
<1>4. CASE pmm_get_free_frames
  <2>1. Abstract!Count
    BY <1>0, <1>4 DEF pmm_get_free_frames, Abstract!Count, Abstract!Free, PmmSound, CountExact, Cardinality, Abstract!Cardinality
  <2> QED
    BY <2>1 DEF Abstract!Next
<1>5. CASE UNCHANGED vars
  BY <1>5 DEF vars
<1> QED
  BY <1>1, <1>2, <1>3, <1>4, <1>5 DEF Next

(* pmm.c implements the allocator that always takes the lowest free frame  *)
(* and fails only when there is none.                                      *)
THEOREM Refinement == Spec => ImplementsFrameAllocator
<1>1. Init => Abstract!Init
  BY DEF Init, Abstract!Init, PmmInit, BitmapFrames
<1>2. IInv /\ [Next]_vars => [Abstract!Next]_<<pmm.bitmap, ret>>
  BY StepRefines
<1> QED
  BY <1>1, <1>2, InvHolds, PTL DEF Spec, ImplementsFrameAllocator, Abstract!Spec

-----------------------------------------------------------------------------
(* With disciplined callers: taken frames are the bitmap's plus those lent. *)
DInv == IInv /\ OwnershipExact

(* The disciplined machine preserves exact ownership. *)
LEMMA DisciplinedStep == DInv /\ [DisciplinedNext]_vars => DInv'
<1> SUFFICES ASSUME DInv, [DisciplinedNext]_vars PROVE DInv'
  OBVIOUS
<1>0. /\ IInv /\ PmmSound(pmm) /\ lent \in SUBSET Frames
      /\ pmm.bitmap = BitmapFrames \cup lent
      /\ BitmapFrames \cap lent = {} /\ 0 \notin lent
      /\ 0 \in BitmapFrames
  <2>1. BitmapWords \in Nat /\ BitmapWords >= 1
    BY PmmAssumption DEF BitmapWords
  <2>2. 0 < (BitmapWords * 4 + PageSize - 1) \div PageSize
    <3> DEFINE n == BitmapWords * 4
    <3>1. n \in Nat /\ n >= 1
      BY <2>1
    <3> HIDE DEF n
    <3>2. n + PageSize - 1 >= PageSize /\ n + PageSize - 1 \in Nat
      BY <3>1, PmmAssumption
    <3>3. ASSUME NEW m \in Nat, NEW d \in Nat \ {0}, m >= d PROVE m \div d > 0
      BY <3>3, Z3
    <3> QED
      BY <3>2, <3>3, PmmAssumption DEF n
  <2>3. 0 \in BitmapFrames
    BY <2>2, PmmAssumption DEF BitmapFrames, Frames
  <2> QED
    BY <2>3 DEF DInv, IInv, OwnershipExact
<1>1. CASE pmm_alloc_frame
  <2>1. IInv'
    BY <1>0, <1>1, InvNext DEF Next
  <2>2. CASE AllocFails(pmm) /\ ret' = 0 /\ UNCHANGED <<pmm, lent>>
    BY <1>0, <2>1, <2>2 DEF DInv, OwnershipExact
  <2>3. CASE /\ ~ AllocFails(pmm)
             /\ pmm' = AfterAlloc(pmm)
             /\ ret' = AddrOf(AllocFrame(pmm))
             /\ lent' = lent \cup {AllocFrame(pmm)}
    <3>1. AllocFrame(pmm) \in Frames \ pmm.bitmap
      BY <1>0, <2>3, AllocOnSound
    <3>2. pmm'.bitmap = pmm.bitmap \cup {AllocFrame(pmm)}
      BY <2>3 DEF AfterAlloc
    <3> QED
      BY <1>0, <2>1, <2>3, <3>1, <3>2 DEF DInv, OwnershipExact
  <2> QED
    BY <1>1, <2>2, <2>3 DEF pmm_alloc_frame
<1>2. ASSUME NEW i \in lent, pmm_free_frame(AddrOf(i)) PROVE DInv'
  <2>1. i \in Frames /\ i \in Nat /\ i < TotalFrames /\ i \in pmm.bitmap
    BY <1>0, PmmAssumption DEF Frames
  <2>2. FrameOf(AddrOf(i)) = i /\ Managed(AddrOf(i)) /\ AddrOf(i) \in Addresses
    BY <2>1, FrameAddress
  <2>4. IInv'
    BY <1>0, <1>2, <2>2, InvNext DEF Next
  <2>5. pmm'.bitmap = pmm.bitmap \ {i}
    BY <1>2, <2>1, <2>2 DEF pmm_free_frame, AfterFree
  <2>6. lent' = lent \ {i}
    BY <1>2, <2>1, <2>5 DEF pmm_free_frame
  <2> QED
    BY <1>0, <2>4, <2>5, <2>6 DEF DInv, OwnershipExact
<1>3. CASE pmm_get_free_frames
  <2>1. IInv'
    BY <1>0, <1>3, InvNext DEF Next
  <2> QED
    BY <1>0, <2>1, <1>3 DEF pmm_get_free_frames, DInv, OwnershipExact
<1>4. CASE UNCHANGED vars
  BY <1>4 DEF vars, DInv, IInv, OwnershipExact
<1> QED
  BY <1>1, <1>2, <1>3, <1>4 DEF DisciplinedNext

(* Between callers that return what they were lent no frame leaks, none is *)
(* lent twice, and the bitmap's own frame is never lent.                   *)
THEOREM Ownership == DisciplinedSpec => []OwnershipExact
<1>1. Init => DInv
  BY InvInit, PmmAssumption DEF Init, DInv, OwnershipExact, PmmInit
<1>2. DInv => OwnershipExact
  BY DEF DInv
<1> QED
  BY <1>1, <1>2, DisciplinedStep, PTL DEF DisciplinedSpec

-----------------------------------------------------------------------------
(* The directories and tables over it.                                     *)

(* a is the address of a frame of L. *)
Backs(L, a) == FrameOf(a) \in L /\ a = AddrOf(FrameOf(a))

Shaped(D, T, P) ==
    /\ D \in [DOMAIN D -> [PdIndices -> DOMAIN T \cup {NoEntry}]]
    /\ T \in [DOMAIN T -> [PtIndices -> Nat \cup {NoEntry}]]
    /\ KernelDirectory \in DOMAIN D
    /\ P \subseteq (DOMAIN T) \X PtIndices

(* The frames in use are lent. *)
Backed(D, T, P, L) ==
    /\ \A d \in DOMAIN D : d # KernelDirectory => Backs(L, d)
    /\ \A t \in DOMAIN T : Backs(L, t)
    /\ \A e \in P : Backs(L, T[e[1]][e[2]])

(* No frame is in use twice. *)
Apart(D, T, P) ==
    /\ DOMAIN D \cap DOMAIN T = {}
    /\ \A e \in P : T[e[1]][e[2]] \notin DOMAIN D \cup DOMAIN T
    /\ \A e, f \in P : T[e[1]][e[2]] = T[f[1]][f[2]] => e = f

(* A table in two directories is the kernel's in both. *)
SharedByKernel(D) ==
    \A d, e \in DOMAIN D, i, j \in PdIndices :
       D[d][i] # NoEntry /\ D[d][i] = D[e][j] =>
          i = j /\ (d = e \/ (i >= KernelBase /\ D[d][i] = D[KernelDirectory][i]))

Sound(D, T, P, L) ==
    Shaped(D, T, P) /\ Backed(D, T, P, L) /\ Apart(D, T, P) /\ SharedByKernel(D)

-----------------------------------------------------------------------------
(* Callers give any byte of a frame, the last one included. *)
LEMMA PageAligned ==
  ASSUME NEW i \in Frames
  PROVE  PageAlign(AddrOf(i) + PageSize - 1) = AddrOf(i)
<1>1. PageSize \in Nat \ {0} /\ MemoryStart \in Nat /\ i \in Nat
  BY PmmAssumption DEF Frames
<1>2. MemoryStart = (MemoryStart \div PageSize) * PageSize
  BY <1>1, VmmAssumption
<1> DEFINE q == MemoryStart \div PageSize + i
<1>3. q \in Int /\ PageSize - 1 \in 0 .. PageSize - 1
  BY <1>1
<1>4. AddrOf(i) = q * PageSize
  BY <1>1, <1>2 DEF AddrOf
<1>5. (q * PageSize + (PageSize - 1)) \div PageSize = q
  BY <1>1, <1>3, Quotient
<1>6. AddrOf(i) + PageSize - 1 = q * PageSize + (PageSize - 1)
  BY <1>1, <1>3, <1>4
<1> QED
  BY <1>4, <1>5, <1>6 DEF PageAlign

(* The address of a lent frame is no other thing. *)
LEMMA BacksAddress ==
  ASSUME NEW L \in SUBSET Frames, NEW a, Backs(L, a)
  PROVE  a \in Nat /\ a # KernelDirectory /\ a # NoEntry /\ a # 0 /\ Managed(a)
  BY FrameAddress, VmmAssumption, PmmAssumption DEF Backs, NoEntry

(* A frame that is not lent has an address nobody uses. *)
LEMMA FreshAddress ==
  ASSUME NEW L \in SUBSET Frames, NEW i \in Frames \ L
  PROVE  /\ ~ Backs(L, AddrOf(i)) /\ Backs(L \cup {i}, AddrOf(i))
         /\ \A a : Backs(L, a) => Backs(L \cup {i}, a) /\ a # AddrOf(i)
         /\ AddrOf(i) # KernelDirectory /\ AddrOf(i) # NoEntry
  BY FrameAddress, VmmAssumption, PmmAssumption DEF Backs, NoEntry

-----------------------------------------------------------------------------
(* What the calls do to the structures. *)

(* More frames are lent, or some that nobody uses no more. *)
LEMMA SoundRelent ==
  ASSUME NEW D, NEW T, NEW P, NEW L, NEW M, Sound(D, T, P, L),
         \A d \in DOMAIN D \ {KernelDirectory} : FrameOf(d) \in L => FrameOf(d) \in M,
         \A t \in DOMAIN T : FrameOf(t) \in L => FrameOf(t) \in M,
         \A e \in P : FrameOf(T[e[1]][e[2]]) \in L => FrameOf(T[e[1]][e[2]]) \in M
  PROVE  Sound(D, T, P, M)
  BY DEF Sound, Backed, Backs

(* A new directory with the kernel's upper entries. *)
LEMMA SoundNewDirectory ==
  ASSUME NEW D, NEW T, NEW P, NEW L \in SUBSET Frames, Sound(D, T, P, L),
         NEW i \in Frames \ L, NEW copied,
         copied = [j \in PdIndices |-> IF j >= KernelBase THEN D[KernelDirectory][j] ELSE NoEntry]
  PROVE  /\ AddrOf(i) \notin DOMAIN D
         /\ Sound(Extended(D, AddrOf(i), copied), T, P, L \cup {i})
<1> DEFINE a == AddrOf(i)
           E == Extended(D, a, copied)
<1>0. Shaped(D, T, P) /\ Backed(D, T, P, L) /\ Apart(D, T, P) /\ SharedByKernel(D)
  BY DEF Sound
<1>1. /\ a # KernelDirectory /\ a # NoEntry /\ Backs(L \cup {i}, a)
      /\ \A b : Backs(L, b) => Backs(L \cup {i}, b) /\ b # a
  BY FreshAddress
<1>2. a \notin DOMAIN D /\ a \notin DOMAIN T /\ \A e \in P : T[e[1]][e[2]] # a
  BY <1>0, <1>1 DEF Backed
<1>3. /\ DOMAIN E = DOMAIN D \cup {a} /\ E[a] = copied
      /\ \A d \in DOMAIN D : E[d] = D[d]
      /\ KernelDirectory \in DOMAIN D /\ E[KernelDirectory] = D[KernelDirectory]
  BY <1>0, <1>2 DEF Extended, Shaped
<1>4. copied \in [PdIndices -> DOMAIN T \cup {NoEntry}]
  BY <1>0 DEF Shaped
<1>5. Shaped(E, T, P)
  <2>1. \A d \in DOMAIN E : E[d] \in [PdIndices -> DOMAIN T \cup {NoEntry}]
    BY <1>0, <1>3, <1>4 DEF Shaped
  <2>2. E = [d \in DOMAIN E |-> E[d]]
    BY DEF Extended
  <2>3. E \in [DOMAIN E -> [PdIndices -> DOMAIN T \cup {NoEntry}]]
    BY <2>1, <2>2
  <2> QED
    BY <1>0, <1>3, <2>3 DEF Shaped
<1>6. Backed(E, T, P, L \cup {i})
  BY <1>0, <1>1, <1>3 DEF Backed
<1>7. Apart(E, T, P)
  BY <1>0, <1>2, <1>3 DEF Apart
<1>8. SharedByKernel(E)
  <2> SUFFICES ASSUME NEW d \in DOMAIN E, NEW e \in DOMAIN E,
                      NEW j \in PdIndices, NEW k \in PdIndices,
                      E[d][j] # NoEntry, E[d][j] = E[e][k]
               PROVE  j = k /\ (d = e \/ (j >= KernelBase /\ E[d][j] = E[KernelDirectory][j]))
    BY DEF SharedByKernel
  <2>1. \A m \in PdIndices : copied[m] # NoEntry =>
           m >= KernelBase /\ copied[m] = D[KernelDirectory][m]
    OBVIOUS
  <2>2. CASE d = a
    <3>1. j >= KernelBase /\ E[d][j] = D[KernelDirectory][j]
      BY <1>3, <2>1, <2>2
    <3>2. CASE e = a
      BY <1>0, <1>3, <2>1, <2>2, <3>1, <3>2 DEF SharedByKernel
    <3>3. CASE e # a
      BY <1>0, <1>3, <3>1, <3>3 DEF SharedByKernel
    <3> QED
      BY <3>2, <3>3
  <2>3. CASE d # a
    <3>1. d \in DOMAIN D /\ E[d][j] = D[d][j]
      BY <1>3, <2>3
    <3>2. CASE e = a
      <4>1. E[e][k] = D[KernelDirectory][k] /\ k >= KernelBase
        BY <1>3, <2>1, <3>2
      <4> QED
        BY <1>0, <1>3, <3>1, <4>1 DEF SharedByKernel
    <3>3. CASE e # a
      BY <1>0, <1>3, <3>1, <3>3 DEF SharedByKernel
    <3> QED
      BY <3>2, <3>3
  <2> QED
    BY <2>2, <2>3
<1> QED
  BY <1>2, <1>5, <1>6, <1>7, <1>8 DEF Sound

(* A cleared table is made for an entry of a directory that has none. *)
LEMMA SoundNewTable ==
  ASSUME NEW D, NEW T, NEW P, NEW L \in SUBSET Frames, Sound(D, T, P, L),
         NEW i \in Frames \ L, NEW d \in DOMAIN D, NEW j \in PdIndices, D[d][j] = NoEntry
  PROVE  /\ AddrOf(i) \notin DOMAIN T
         /\ Sound([D EXCEPT ![d][j] = AddrOf(i)],
                  Extended(T, AddrOf(i), [k \in PtIndices |-> NoEntry]), P, L \cup {i})
<1> DEFINE a == AddrOf(i)
           E == [D EXCEPT ![d][j] = a]
           U == Extended(T, a, [k \in PtIndices |-> NoEntry])
<1>0. Shaped(D, T, P) /\ Backed(D, T, P, L) /\ Apart(D, T, P) /\ SharedByKernel(D)
  BY DEF Sound
<1>1. /\ a # KernelDirectory /\ a # NoEntry /\ Backs(L \cup {i}, a)
      /\ \A b : Backs(L, b) => Backs(L \cup {i}, b) /\ b # a
  BY FreshAddress
<1>2. a \notin DOMAIN D /\ a \notin DOMAIN T /\ \A e \in P : T[e[1]][e[2]] # a
  BY <1>0, <1>1 DEF Backed
<1>3. /\ DOMAIN U = DOMAIN T \cup {a} /\ U[a] = [k \in PtIndices |-> NoEntry]
      /\ \A t \in DOMAIN T : U[t] = T[t]
      /\ \A e \in P : e[1] \in DOMAIN T /\ U[e[1]] = T[e[1]]
  BY <1>0, <1>2 DEF Extended, Shaped
<1>4. /\ DOMAIN E = DOMAIN D
      /\ \A e \in DOMAIN D, k \in PdIndices :
            E[e][k] = IF e = d /\ k = j THEN a ELSE D[e][k]
      /\ \A e \in DOMAIN D : E[e] \in [PdIndices -> DOMAIN U \cup {NoEntry}]
  BY <1>0, <1>3 DEF Shaped
<1>5. Shaped(E, U, P)
  <2>1. E \in [DOMAIN E -> [PdIndices -> DOMAIN U \cup {NoEntry}]]
    BY <1>4
  <2>2. \A t \in DOMAIN U : U[t] \in [PtIndices -> Nat \cup {NoEntry}]
    BY <1>0, <1>3 DEF Shaped
  <2>3. U = [t \in DOMAIN U |-> U[t]]
    BY DEF Extended
  <2>4. U \in [DOMAIN U -> [PtIndices -> Nat \cup {NoEntry}]]
    BY <2>2, <2>3
  <2> QED
    BY <1>0, <1>3, <1>4, <2>1, <2>4 DEF Shaped
<1>6. Backed(E, U, P, L \cup {i})
  BY <1>0, <1>1, <1>3, <1>4 DEF Backed
<1>7. Apart(E, U, P)
  BY <1>0, <1>2, <1>3, <1>4 DEF Apart
<1>8. SharedByKernel(E)
  <2>1. \A e \in DOMAIN D, k \in PdIndices : D[e][k] # a
    BY <1>0, <1>1, <1>2 DEF Shaped
  <2>2. \A e \in DOMAIN D, k \in PdIndices : E[e][k] = a => e = d /\ k = j
    BY <1>4, <2>1
  <2>3. KernelDirectory \in DOMAIN D
    BY <1>0 DEF Shaped
  <2> SUFFICES ASSUME NEW e \in DOMAIN D, NEW f \in DOMAIN D,
                      NEW k \in PdIndices, NEW m \in PdIndices,
                      E[e][k] # NoEntry, E[e][k] = E[f][m]
               PROVE  k = m /\ (e = f \/ (k >= KernelBase /\ E[e][k] = E[KernelDirectory][k]))
    BY <1>4 DEF SharedByKernel
  <2>4. CASE E[e][k] = a
    BY <2>2, <2>4
  <2>5. CASE E[e][k] # a
    <3>1. E[e][k] = D[e][k] /\ E[f][m] = D[f][m]
      BY <1>4, <2>5
    <3>2. k = m /\ (e = f \/ (k >= KernelBase /\ D[e][k] = D[KernelDirectory][k]))
      BY <1>0, <3>1 DEF SharedByKernel
    <3>3. D[KernelDirectory][k] # NoEntry => E[KernelDirectory][k] = D[KernelDirectory][k]
      BY <1>4, <2>3
    <3> QED
      BY <3>1, <3>2, <3>3
  <2> QED
    BY <2>4, <2>5
<1> QED
  BY <1>2, <1>5, <1>6, <1>7, <1>8 DEF Sound

(* An entry is overwritten with the address of a lent frame nobody uses. *)
LEMMA SoundPlaced ==
  ASSUME NEW D, NEW T, NEW P, NEW L \in SUBSET Frames, Sound(D, T, P, L),
         NEW t \in DOMAIN T, NEW k \in PtIndices, NEW a, Backs(L, a),
         a \notin DOMAIN D \cup DOMAIN T, \A e \in P : T[e[1]][e[2]] # a
  PROVE  Sound(D, [T EXCEPT ![t][k] = a], P \cup {<<t, k>>}, L)
<1> DEFINE U == [T EXCEPT ![t][k] = a]
           Q == P \cup {<<t, k>>}
<1>0. Shaped(D, T, P) /\ Backed(D, T, P, L) /\ Apart(D, T, P) /\ SharedByKernel(D)
  BY DEF Sound
<1>1. a \in Nat
  BY BacksAddress
<1>2. DOMAIN U = DOMAIN T /\ U \in [DOMAIN T -> [PtIndices -> Nat \cup {NoEntry}]]
  BY <1>0, <1>1 DEF Shaped
<1>3. \A s \in DOMAIN T, m \in PtIndices :
         U[s][m] = IF s = t /\ m = k THEN a ELSE T[s][m]
  BY <1>0 DEF Shaped
<1>4. \A e \in Q : /\ e = <<e[1], e[2]>> /\ e[1] \in DOMAIN T /\ e[2] \in PtIndices
                   /\ e = <<t, k>> => U[e[1]][e[2]] = a
                   /\ e # <<t, k>> => e \in P /\ U[e[1]][e[2]] = T[e[1]][e[2]]
  BY <1>0, <1>3 DEF Shaped
<1>5. Shaped(D, U, Q)
  BY <1>0, <1>2, <1>4 DEF Shaped
<1>6. Backed(D, U, Q, L)
  BY <1>0, <1>2, <1>4 DEF Backed
<1>7. Apart(D, U, Q)
  BY <1>0, <1>2, <1>4 DEF Apart
<1> QED
  BY <1>0, <1>5, <1>6, <1>7 DEF Sound

(* An entry is cleared. *)
LEMMA SoundCleared ==
  ASSUME NEW D, NEW T, NEW P, NEW L, Sound(D, T, P, L),
         NEW t \in DOMAIN T, NEW k \in PtIndices
  PROVE  Sound(D, [T EXCEPT ![t][k] = NoEntry], P \ {<<t, k>>}, L)
<1> DEFINE U == [T EXCEPT ![t][k] = NoEntry]
           Q == P \ {<<t, k>>}
<1>0. Shaped(D, T, P) /\ Backed(D, T, P, L) /\ Apart(D, T, P) /\ SharedByKernel(D)
  BY DEF Sound
<1>1. DOMAIN U = DOMAIN T /\ U \in [DOMAIN T -> [PtIndices -> Nat \cup {NoEntry}]]
  BY <1>0 DEF Shaped
<1>2. \A s \in DOMAIN T, m \in PtIndices :
         U[s][m] = IF s = t /\ m = k THEN NoEntry ELSE T[s][m]
  BY <1>0 DEF Shaped
<1>3. \A e \in Q : e \in P /\ U[e[1]][e[2]] = T[e[1]][e[2]]
  BY <1>0, <1>2 DEF Shaped
<1>4. Shaped(D, U, Q)
  BY <1>0, <1>1, <1>3 DEF Shaped
<1>5. Backed(D, U, Q, L)
  BY <1>0, <1>1, <1>3 DEF Backed
<1>6. Apart(D, U, Q)
  BY <1>0, <1>1, <1>3 DEF Apart
<1> QED
  BY <1>0, <1>4, <1>5, <1>6 DEF Sound

-----------------------------------------------------------------------------
(* The machine. *)

VmmIInv ==
    /\ IInv /\ lent \subseteq pmm.bitmap
    /\ vm = [dir |-> vm.dir, table |-> vm.table]
    /\ Sound(vm.dir, vm.table, placed, lent)

(* What is allocated is lent by the same call, what is freed taken back.   *)
LEMMA LentAllocated ==
  ASSUME IInv, lent \subseteq pmm.bitmap, [Next]_vars
  PROVE  lent' \subseteq pmm'.bitmap
<1>1. CASE pmm_alloc_frame
  BY <1>1 DEF pmm_alloc_frame, AfterAlloc
<1>2. ASSUME NEW addr \in Addresses, pmm_free_frame(addr) PROVE lent' \subseteq pmm'.bitmap
  BY <1>2 DEF pmm_free_frame
<1>3. ASSUME NEW i \in Indices, pmm_mark_frame_used(i) PROVE lent' \subseteq pmm'.bitmap
  <2>1. pmm \in PmmState
    BY DEF IInv, PmmSound
  <2>2. pmm.bitmap \subseteq AfterMark(pmm, i).bitmap
    BY <2>1 DEF AfterMark, PmmState
  <2> QED
    BY <1>3, <2>2 DEF pmm_mark_frame_used
<1>4. CASE pmm_get_free_frames
  BY <1>4 DEF pmm_get_free_frames
<1>5. CASE UNCHANGED vars
  BY <1>5 DEF vars
<1> QED
  BY <1>1, <1>2, <1>3, <1>4, <1>5 DEF Next

(* An allocation that succeeds lends a frame that was not lent. *)
LEMMA Lends ==
  ASSUME IInv, lent \subseteq pmm.bitmap, ~ AllocFails(pmm)
  PROVE  lent \in SUBSET Frames /\ AllocFrame(pmm) \in Frames \ lent
  BY AllocOnSound DEF IInv

(* A frame that is freed is the one its address names, or none is. *)
LEMMA TakesBack ==
  ASSUME NEW addr, IInv, pmm_free_frame(addr)
  PROVE  /\ lent' \subseteq lent
         /\ \A i \in lent \ lent' : Managed(addr) /\ i = FrameOf(addr)
<1>1. pmm.bitmap \ pmm'.bitmap \subseteq {i \in Frames : Managed(addr) /\ i = FrameOf(addr)}
  <2>0. pmm \in PmmState
    BY DEF IInv, PmmSound
  <2>1. CASE Managed(addr) /\ FrameOf(addr) \in pmm.bitmap
    <3>1. pmm'.bitmap = pmm.bitmap \ {FrameOf(addr)}
      BY <2>1 DEF pmm_free_frame, AfterFree
    <3> QED
      BY <2>0, <2>1, <3>1 DEF PmmState
  <2>2. CASE ~ (Managed(addr) /\ FrameOf(addr) \in pmm.bitmap)
    BY <2>2 DEF pmm_free_frame, AfterFree
  <2> QED
    BY <2>1, <2>2
<1> QED
  BY <1>1 DEF pmm_free_frame

(* A frame nobody uses has an address that is nowhere. *)
LEMMA UnusedAddress ==
  ASSUME NEW i \in Frames \ UsedFrames
  PROVE  /\ AddrOf(i) \notin Directories \cup DOMAIN vm.table
         /\ \A e \in placed : vm.table[e[1]][e[2]] # AddrOf(i)
<1>1. FrameOf(AddrOf(i)) = i /\ Managed(AddrOf(i))
  BY FrameAddress
<1> QED
  BY <1>1 DEF UsedFrames, StructureFrames, MappedFrames, FramesAt

LEMMA CreateKeeps == VmmIInv /\ vmm_create_page_directory => VmmIInv' /\ [Next]_vars
<1> SUFFICES ASSUME VmmIInv, vmm_create_page_directory PROVE VmmIInv' /\ [Next]_vars
  OBVIOUS
<1> DEFINE i == AllocFrame(pmm)
<1>1. pmm_alloc_frame /\ Next /\ placed' = placed
  BY DEF vmm_create_page_directory, Next
<1>2. IInv' /\ lent' \subseteq pmm'.bitmap
  BY <1>1, InvNext, LentAllocated DEF VmmIInv
<1>3. CASE AllocFails(pmm)
  <2>1. vm' = vm /\ lent' = lent
    BY <1>3 DEF vmm_create_page_directory, pmm_alloc_frame
  <2> QED
    BY <1>1, <1>2, <2>1 DEF VmmIInv
<1>4. CASE ~ AllocFails(pmm)
  <2>1. vm'.dir = Extended(vm.dir, AddrOf(i), CopiedEntries) /\ vm'.table = vm.table
        /\ vm' = [dir |-> vm'.dir, table |-> vm'.table]
    BY <1>4 DEF vmm_create_page_directory, VmmIInv
  <2>2. lent' = lent \cup {i} /\ lent \in SUBSET Frames /\ i \in Frames \ lent
    BY <1>1, <1>4, Lends DEF VmmIInv, pmm_alloc_frame
  <2>3. Sound(vm'.dir, vm'.table, placed', lent')
    BY <1>1, <2>1, <2>2, SoundNewDirectory DEF VmmIInv, CopiedEntries
  <2> QED
    BY <1>1, <1>2, <2>1, <2>3 DEF VmmIInv
<1> QED
  BY <1>3, <1>4

(* A frame of the callers' is mapped. *)
LEMMA MapKeeps ==
  ASSUME VmmIInv, NEW d \in Directories, NEW page \in CallerPages, NEW i \in lent \ UsedFrames,
         vmm_map_page(d, page, AddrOf(i) + PageSize - 1)
  PROVE  VmmIInv' /\ [Next]_vars
<1> DEFINE n == AllocFrame(pmm)
           a == AddrOf(i)
           j == page[1]
           k == page[2]
<1>0. /\ IInv /\ lent \subseteq pmm.bitmap /\ lent \in SUBSET Frames
      /\ vm = [dir |-> vm.dir, table |-> vm.table]
      /\ Sound(vm.dir, vm.table, placed, lent)
  BY DEF VmmIInv, IInv
<1>1. PageAlign(AddrOf(i) + PageSize - 1) = a /\ Backs(lent, a)
  BY <1>0, PageAligned, FrameAddress DEF Backs
<1>2. a \notin Directories \cup DOMAIN vm.table /\ \A e \in placed : vm.table[e[1]][e[2]] # a
  BY <1>0, UnusedAddress
<1>3. j \in PdIndices /\ k \in PtIndices
  BY CallerAssumption DEF Pages
<1>4. vm.dir[d] \in [PdIndices -> DOMAIN vm.table \cup {NoEntry}]
  BY <1>0 DEF Sound, Shaped, Directories
<1>5. CASE MapInTable(d, page, AddrOf(i) + PageSize - 1)
  <2> DEFINE t == vm.dir[d][j]
  <2>1. t \in DOMAIN vm.table
    BY <1>3, <1>4, <1>5 DEF MapInTable, HasTable
  <2>2. /\ vm'.dir = vm.dir /\ vm'.table = [vm.table EXCEPT ![t][k] = a]
        /\ vm' = [dir |-> vm'.dir, table |-> vm'.table]
        /\ placed' = placed \cup {<<t, k>>} /\ UNCHANGED vars
    BY <1>0, <1>1, <1>5 DEF MapInTable, Entry
  <2>3. a \notin DOMAIN vm.dir \cup DOMAIN vm.table
    BY <1>2 DEF Directories
  <2>4. Sound(vm.dir, [vm.table EXCEPT ![t][k] = a], placed \cup {<<t, k>>}, lent)
    <3> HIDE DEF t, k, a
    <3> QED
      BY <1>0, <1>1, <1>2, <1>3, <2>1, <2>3, SoundPlaced
  <2> QED
    BY <1>0, <2>2, <2>4 DEF VmmIInv, vars, IInv
<1>6. CASE MapWithNewTable(d, page, AddrOf(i) + PageSize - 1)
  <2>1. pmm_alloc_frame /\ Next /\ vm.dir[d][j] = NoEntry
    BY <1>6 DEF MapWithNewTable, HasTable, Next
  <2>2. IInv' /\ lent' \subseteq pmm'.bitmap
    BY <1>0, <2>1, InvNext, LentAllocated
  <2>3. CASE AllocFails(pmm)
    <3>1. vm' = vm /\ placed' = placed /\ lent' = lent
      BY <1>6, <2>3 DEF MapWithNewTable, pmm_alloc_frame
    <3> QED
      BY <1>0, <2>1, <2>2, <3>1 DEF VmmIInv
  <2>4. CASE ~ AllocFails(pmm)
    <3> DEFINE t == AddrOf(n)
               E == [vm.dir EXCEPT ![d][j] = t]
               U == Extended(vm.table, t, [m \in PtIndices |-> NoEntry])
    <3>1. lent' = lent \cup {n} /\ n \in Frames \ lent
      BY <1>0, <2>1, <2>4, Lends DEF pmm_alloc_frame
    <3>2. Sound(E, U, placed, lent') /\ t \notin DOMAIN vm.table
      BY <1>0, <1>3, <2>1, <3>1, SoundNewTable DEF Directories
    <3>3. /\ vm'.dir = E
          /\ vm'.table = Extended(vm.table, t, [m \in PtIndices |-> IF m = k THEN a ELSE NoEntry])
          /\ vm' = [dir |-> vm'.dir, table |-> vm'.table]
          /\ placed' = placed \cup {<<t, k>>}
      BY <1>1, <1>6, <2>4 DEF MapWithNewTable
    <3>4. vm'.table = [U EXCEPT ![t][k] = a]
      BY <3>3 DEF Extended
    <3>5. /\ t # a /\ Backs(lent', a) /\ lent' \in SUBSET Frames
          /\ DOMAIN E = DOMAIN vm.dir /\ DOMAIN U = DOMAIN vm.table \cup {t}
      BY <1>0, <1>1, <3>1, FreshAddress DEF Extended
    <3>6. \A e \in placed : U[e[1]][e[2]] = vm.table[e[1]][e[2]]
      BY <1>0, <3>2 DEF Extended, Sound, Shaped
    <3>7. Sound(E, [U EXCEPT ![t][k] = a], placed \cup {<<t, k>>}, lent')
      <4>1. t \in DOMAIN U /\ a \notin DOMAIN E \cup DOMAIN U /\ \A e \in placed : U[e[1]][e[2]] # a
        BY <1>2, <3>5, <3>6 DEF Directories
      <4> HIDE DEF E, U, t, a, k
      <4> QED
        BY <1>3, <3>2, <3>5, <4>1, SoundPlaced
    <3> QED
      BY <2>1, <2>2, <3>3, <3>4, <3>7 DEF VmmIInv
  <2> QED
    BY <2>3, <2>4
<1> QED
  BY <1>5, <1>6 DEF vmm_map_page

(* A page of the callers', or one nobody mapped, is unmapped. *)
LEMMA UnmapKeeps ==
  ASSUME VmmIInv, NEW d \in Directories, NEW page \in CallerPages,
         vmm_get_physical_address(d, page) # NoEntry => Entry(d, page) \in placed,
         vmm_unmap_page(d, page)
  PROVE  VmmIInv' /\ [Next]_vars
<1> DEFINE t == vm.dir[d][page[1]]
           k == page[2]
           a == vm.table[t][k]
<1>0. /\ IInv /\ lent \subseteq pmm.bitmap /\ lent \in SUBSET Frames
      /\ vm = [dir |-> vm.dir, table |-> vm.table]
      /\ Sound(vm.dir, vm.table, placed, lent)
  BY DEF VmmIInv, IInv
<1>1. page[1] \in PdIndices /\ k \in PtIndices
  BY CallerAssumption DEF Pages
<1>2. CASE ~ HasTable(d, page)
  BY <1>0, <1>2 DEF vmm_unmap_page, vmmVars, vars, VmmIInv, IInv
<1>3. CASE HasTable(d, page)
  <2>1. t \in DOMAIN vm.table
    BY <1>0, <1>1, <1>3 DEF HasTable, Sound, Shaped, Directories
  <2>2. /\ vm'.dir = vm.dir /\ vm'.table = [vm.table EXCEPT ![t][k] = NoEntry]
        /\ vm' = [dir |-> vm'.dir, table |-> vm'.table]
        /\ placed' = placed \ {<<t, k>>}
        /\ IF a \notin {NoEntry, 0} THEN pmm_free_frame(a) ELSE UNCHANGED vars
    BY <1>0, <1>3 DEF vmm_unmap_page, Entry
  <2>3. Sound(vm'.dir, vm'.table, placed', lent)
    <3> HIDE DEF t, k, a
    <3>1. Sound(vm.dir, [vm.table EXCEPT ![t][k] = NoEntry], placed \ {<<t, k>>}, lent)
      BY <1>0, <1>1, <2>1, SoundCleared
    <3> QED
      BY <2>2, <3>1
  <2>4. CASE a \in {NoEntry, 0}
    BY <1>0, <2>2, <2>3, <2>4 DEF VmmIInv, vars, IInv
  <2>5. CASE a \notin {NoEntry, 0}
    <3>1. <<t, k>> \in placed
      BY <1>3, <2>5 DEF vmm_get_physical_address, Entry
    <3>2. Backs(lent, a)
      BY <1>0, <3>1 DEF Sound, Backed
    <3>3. a \in Addresses /\ FrameOf(a) \in Frames
      BY <1>0, <3>2, FrameAddress DEF Backs
    <3>4. pmm_free_frame(a) /\ Next
      BY <2>2, <2>5, <3>3 DEF Next
    <3>5. IInv' /\ lent' \subseteq pmm'.bitmap
      BY <1>0, <3>4, InvNext, LentAllocated
    <3>6. lent \ lent' \subseteq {FrameOf(a)}
      BY <1>0, <3>4, TakesBack
    <3>7. \A b : Backs(lent, b) /\ FrameOf(b) = FrameOf(a) => b = a
      BY <3>2 DEF Backs
    <3>8. /\ a \notin DOMAIN vm.dir \cup DOMAIN vm.table
          /\ \A e \in placed : vm.table[e[1]][e[2]] = a => e = <<t, k>>
      BY <1>0, <3>1 DEF Sound, Apart
    <3>9. \A e \in placed' : e \in placed /\ vm'.table[e[1]][e[2]] = vm.table[e[1]][e[2]]
      <4> SUFFICES ASSUME NEW e \in placed'
                   PROVE  e \in placed /\ vm'.table[e[1]][e[2]] = vm.table[e[1]][e[2]]
        OBVIOUS
      <4>1. e \in placed /\ e # <<t, k>>
        BY <2>2
      <4>2. e[1] \in DOMAIN vm.table /\ e[2] \in PtIndices /\ e = <<e[1], e[2]>>
        BY <1>0, <4>1 DEF Sound, Shaped
      <4>3. vm.table \in [DOMAIN vm.table -> [PtIndices -> Nat \cup {NoEntry}]]
        BY <1>0 DEF Sound, Shaped
      <4> HIDE DEF t, k, a
      <4> QED
        BY <2>2, <4>1, <4>2, <4>3
    <3>10. Sound(vm'.dir, vm'.table, placed', lent')
      <4>0. ASSUME NEW b, Backs(lent, b), b # a
            PROVE  FrameOf(b) \in lent'
        <5>1. FrameOf(b) \in lent /\ FrameOf(b) # FrameOf(a)
          BY <3>7, <4>0 DEF Backs
        <5> QED
          BY <3>6, <5>1
      <4>1. ASSUME NEW b \in DOMAIN vm'.dir \ {KernelDirectory} PROVE FrameOf(b) \in lent'
        <5>1. Backs(lent, b) /\ b # a
          BY <1>0, <2>2, <3>8 DEF Sound, Backed
        <5> QED
          BY <4>0, <5>1
      <4>2. ASSUME NEW b \in DOMAIN vm'.table PROVE FrameOf(b) \in lent'
        <5>1. DOMAIN vm'.table = DOMAIN vm.table
          BY <2>2
        <5>2. Backs(lent, b) /\ b # a
          BY <1>0, <5>1, <3>8 DEF Sound, Backed
        <5> QED
          BY <4>0, <5>2
      <4>3. ASSUME NEW e \in placed' PROVE FrameOf(vm'.table[e[1]][e[2]]) \in lent'
        <5>1. e \in placed /\ e # <<t, k>> /\ vm'.table[e[1]][e[2]] = vm.table[e[1]][e[2]]
          BY <2>2, <3>9
        <5>2. Backs(lent, vm.table[e[1]][e[2]]) /\ vm.table[e[1]][e[2]] # a
          BY <1>0, <3>8, <5>1 DEF Sound, Backed
        <5>3. FrameOf(vm.table[e[1]][e[2]]) \in lent /\ FrameOf(vm.table[e[1]][e[2]]) # FrameOf(a)
          BY <3>7, <5>2 DEF Backs
        <5> QED
          BY <3>6, <5>1, <5>3
      <4> QED
        BY <2>3, <4>1, <4>2, <4>3, SoundRelent
    <3> QED
      BY <2>2, <3>4, <3>5, <3>10 DEF VmmIInv
  <2> QED
    BY <2>4, <2>5
<1> QED
  BY <1>2, <1>3

(* Others call pmm.c and leave alone the frames in use. *)
LEMMA OthersKeep == VmmIInv /\ OtherCalls => VmmIInv' /\ [Next]_vars
<1> SUFFICES ASSUME VmmIInv, OtherCalls PROVE VmmIInv' /\ [Next]_vars
  OBVIOUS
<1>0. /\ IInv /\ lent \subseteq pmm.bitmap /\ lent \in SUBSET Frames
      /\ Sound(vm.dir, vm.table, placed, lent)
  BY DEF VmmIInv, IInv
<1>1. Next /\ vm' = vm /\ placed' = placed
  BY DEF OtherCalls, Next
<1>2. IInv' /\ lent' \subseteq pmm'.bitmap
  BY <1>0, <1>1, InvNext, LentAllocated
<1>3. Sound(vm.dir, vm.table, placed, lent')
  <2>1. CASE lent \subseteq lent'
    BY <1>0, <2>1, SoundRelent
  <2>2. ASSUME NEW addr \in Addresses, FramesAt({addr}) \cap UsedFrames = {}, pmm_free_frame(addr)
        PROVE  Sound(vm.dir, vm.table, placed, lent')
    <3>1. \A i \in lent \ lent' : i \in FramesAt({addr})
      BY <1>0, <2>2, TakesBack DEF FramesAt
    <3>2. \A i \in lent \ lent' : i \in Frames \ UsedFrames
      BY <1>0, <2>2, <3>1
    <3>3. \A i \in lent \ lent' :
             /\ AddrOf(i) \notin DOMAIN vm.dir \cup DOMAIN vm.table
             /\ \A e \in placed : vm.table[e[1]][e[2]] # AddrOf(i)
      BY <3>2, UnusedAddress DEF Directories
    <3> QED
      BY <1>0, <3>3, SoundRelent DEF Sound, Backed, Backs
  <2>3. pmm_alloc_frame => lent \subseteq lent'
    BY DEF pmm_alloc_frame
  <2>4. \A i \in Indices : pmm_mark_frame_used(i) => lent \subseteq lent'
    BY DEF pmm_mark_frame_used
  <2>5. pmm_get_free_frames => lent \subseteq lent'
    BY DEF pmm_get_free_frames
  <2> QED
    BY <2>1, <2>2, <2>3, <2>4, <2>5 DEF OtherCalls
<1> QED
  BY <1>1, <1>2, <1>3 DEF VmmIInv

-----------------------------------------------------------------------------
(* A count above zero is a frame left. *)
LEMMA FramesLeft ==
  ASSUME NEW p, PmmSound(p), p.free_frames > 0
  PROVE  ~ AllocFails(p)
<1>1. p.bitmap # Frames
  <2> SUFFICES ASSUME p.bitmap = Frames PROVE FALSE
    OBVIOUS
  <2>1. Frames \ p.bitmap = {}
    OBVIOUS
  <2> QED
    BY <2>1, FS_EmptySet DEF PmmSound, CountExact
<1> QED
  BY <1>1, AllocOnSound

(* vmm_init: two tables from the allocator, which has two frames to give.  *)
LEMMA BootSound ==
  /\ PmmSound(BootPmm)
  /\ \E i, j \in Frames : /\ i # j /\ LowTable = AddrOf(i) /\ HighTable = AddrOf(j)
                          /\ i \in BootPmm.bitmap /\ j \in BootPmm.bitmap
<1> DEFINE first == AfterAlloc(PmmInit)
           i == AllocFrame(PmmInit)
           j == AllocFrame(first)
<1>0. BitmapFrames \in SUBSET Frames /\ Cardinality(BitmapFrames) \in Nat
  BY FramesFinite DEF BitmapFrames
<1>1. PmmSound(PmmInit) /\ PmmInit.bitmap = BitmapFrames
      /\ PmmInit.free_frames = TotalFrames - Cardinality(BitmapFrames)
      /\ PmmInit.free_frames > 1 /\ PmmInit.free_frames > 0
  BY <1>0, InitSound, VmmAssumption, PmmAssumption DEF PmmInit
<1>3. ~ AllocFails(PmmInit) /\ PmmSound(first) /\ i \in Frames \ BitmapFrames
  <2>1. ~ AllocFails(PmmInit)
    BY <1>1, FramesLeft
  <2>2. i \in Frames \ BitmapFrames
    BY <1>1, <2>1, AllocOnSound
  <2> QED
    BY <1>1, <2>1, <2>2, AllocSound
<1>4. first.bitmap = BitmapFrames \cup {i} /\ first.free_frames = PmmInit.free_frames - 1
  BY <1>1 DEF AfterAlloc
<1>5. ~ AllocFails(first) /\ PmmSound(AfterAlloc(first)) /\ j \in Frames \ first.bitmap
  <2>1. first.free_frames > 0
    BY <1>0, <1>1, <1>4, PmmAssumption
  <2> HIDE DEF first
  <2> QED
    BY <1>3, <2>1, FramesLeft, AllocOnSound, AllocSound
<1>6. AfterAlloc(first).bitmap = first.bitmap \cup {j}
  BY DEF AfterAlloc
<1> HIDE DEF first, i, j
<1>7. i \in Frames /\ j \in Frames /\ i # j
      /\ i \in AfterAlloc(first).bitmap /\ j \in AfterAlloc(first).bitmap
  BY <1>3, <1>4, <1>5, <1>6
<1>8. BootPmm = AfterAlloc(first) /\ LowTable = AddrOf(i) /\ HighTable = AddrOf(j)
  BY DEF BootPmm, LowTable, HighTable, first, i, j
<1> QED
  BY <1>5, <1>7, <1>8

LEMMA VmmInvInit == VmmInit => VmmIInv
<1> SUFFICES ASSUME VmmInit PROVE VmmIInv
  OBVIOUS
<1> DEFINE D == [d \in {KernelDirectory} |-> BootDirectory]
           T == [t \in {LowTable, HighTable} |-> BootTable]
<1>1. PICK i \in Frames, j \in Frames :
         /\ i # j /\ LowTable = AddrOf(i) /\ HighTable = AddrOf(j)
         /\ i \in BootPmm.bitmap /\ j \in BootPmm.bitmap
  BY BootSound
<1>2. /\ FrameOf(LowTable) = i /\ FrameOf(HighTable) = j
      /\ LowTable # HighTable /\ LowTable \in Nat /\ HighTable \in Nat
      /\ LowTable >= MemoryStart /\ HighTable >= MemoryStart
  BY <1>1, FrameAddress
<1>3. lent = {i, j} /\ IInv /\ lent \subseteq pmm.bitmap
  BY <1>1, <1>2, BootSound DEF VmmInit, IInv
<1>4. /\ vm.dir = D /\ vm.table = T /\ placed = {} /\ vm = [dir |-> D, table |-> T]
      /\ vm = [dir |-> vm.dir, table |-> vm.table]
  BY DEF VmmInit
<1>5. /\ 0 \in PdIndices /\ KernelBase \in PdIndices /\ KernelBase # 0
      /\ LowTable # NoEntry /\ HighTable # NoEntry
      /\ LowTable # KernelDirectory /\ HighTable # KernelDirectory
  BY <1>2, VmmAssumption, PmmAssumption DEF PdIndices, NoEntry
<1>6. Shaped(D, T, {})
  <2>1. BootDirectory \in [PdIndices -> {LowTable, HighTable} \cup {NoEntry}]
    BY DEF BootDirectory
  <2>2. BootTable \in [PtIndices -> Nat \cup {NoEntry}]
    BY PmmAssumption, VmmAssumption DEF BootTable, PtIndices
  <2> QED
    BY <2>1, <2>2 DEF Shaped
<1>7. Backed(D, T, {}, lent)
  BY <1>1, <1>2, <1>3 DEF Backed, Backs
<1>8. Apart(D, T, {})
  BY <1>5 DEF Apart
<1>9. SharedByKernel(D)
  BY <1>2, <1>5 DEF SharedByKernel, BootDirectory
<1> QED
  BY <1>3, <1>4, <1>6, <1>7, <1>8, <1>9 DEF VmmIInv, Sound

LEMMA VmmInvNext == VmmIInv /\ [VmmNext]_vmmVars => VmmIInv' /\ [Next]_vars
<1> SUFFICES ASSUME VmmIInv, [VmmNext]_vmmVars PROVE VmmIInv' /\ [Next]_vars
  OBVIOUS
<1>1. CASE vmm_create_page_directory
  BY <1>1, CreateKeeps
<1>2. CASE CallerMaps
  BY <1>2, MapKeeps DEF CallerMaps
<1>3. CASE CallerUnmaps
  BY <1>3, UnmapKeeps DEF CallerUnmaps
<1>4. CASE OtherCalls
  BY <1>4, OthersKeep
<1>5. CASE UNCHANGED vmmVars
  BY <1>5 DEF vmmVars, vars, VmmIInv, IInv
<1> QED
  BY <1>1, <1>2, <1>3, <1>4, <1>5 DEF VmmNext

LEMMA VmmInvHolds == VmmSpec => []VmmIInv
  BY VmmInvInit, VmmInvNext, PTL DEF VmmSpec

-----------------------------------------------------------------------------
(* Sound structures over lent, allocated frames are what FramesInUse asks. *)
LEMMA SoundInUse == VmmIInv => FramesInUse
<1> SUFFICES ASSUME VmmIInv PROVE FramesInUse
  OBVIOUS
<1> DEFINE D == vm.dir
           T == vm.table
<1>0. /\ lent \subseteq pmm.bitmap /\ lent \in SUBSET Frames
      /\ Shaped(D, T, placed) /\ Backed(D, T, placed, lent)
      /\ Apart(D, T, placed) /\ SharedByKernel(D)
  BY DEF VmmIInv, IInv, Sound
<1>1. ~ Managed(KernelDirectory)
  BY VmmAssumption, PmmAssumption DEF Managed
<1>2. \A a \in DOMAIN D \cup DOMAIN T : Managed(a) => Backs(lent, a)
  BY <1>0, <1>1 DEF Backed
<1>3. \A e \in placed : Backs(lent, T[e[1]][e[2]])
  BY <1>0 DEF Backed
<1>4. StructureFrames \subseteq lent /\ MappedFrames \subseteq lent
  BY <1>2, <1>3 DEF StructureFrames, MappedFrames, FramesAt, Backs, Directories
<1>5. MappedFrames \cap StructureFrames = {}
  <2> SUFFICES ASSUME NEW a \in DOMAIN D \cup DOMAIN T, NEW e \in placed,
                      Managed(a), FrameOf(a) = FrameOf(T[e[1]][e[2]])
               PROVE  FALSE
    BY DEF StructureFrames, MappedFrames, FramesAt, Directories
  <2>1. a = T[e[1]][e[2]]
    BY <1>2, <1>3 DEF Backs
  <2> QED
    BY <1>0, <2>1 DEF Apart
<1>6. \A d \in DOMAIN D, i \in PdIndices : D[d][i] # NoEntry => D[d][i] \in DOMAIN T
  BY <1>0 DEF Shaped
<1> QED
  BY <1>0, <1>4, <1>5, <1>6 DEF FramesInUse, UsedFrames, Apart, SharedByKernel, Directories

(* vmm.c never has a directory, a page table or a mapped page in a frame   *)
(* pmm_alloc_frame can give again, nor two of them in one, whatever is     *)
(* mapped, unmapped and freed in whatever order, and however often there   *)
(* was no frame left.                                                      *)
THEOREM InUse == VmmSpec => []FramesInUse
  BY VmmInvHolds, SoundInUse, PTL

(* pmm.c keeps its count and its hint under vmm.c and the other callers.   *)
THEOREM BookkeepingUnderVmm == VmmSpec => [](TypeOK /\ BookkeepingSound /\ FailsOnlyWhenExhausted)
<1>1. VmmIInv => TypeOK /\ BookkeepingSound /\ FailsOnlyWhenExhausted
  BY AllocOnSound DEF VmmIInv, IInv, PmmSound, TypeOK, BookkeepingSound, FailsOnlyWhenExhausted
<1> QED
  BY <1>1, VmmInvHolds, PTL

(* Under vmm.c too, pmm.c is the allocator of the lowest free frame.       *)
THEOREM RefinementUnderVmm == VmmSpec => ImplementsFrameAllocator
<1>1. VmmInit => Abstract!Init
  BY VmmInvInit DEF VmmInit, VmmIInv, IInv, PmmSound, PmmState, Abstract!Init
<1>2. VmmIInv /\ [VmmNext]_vmmVars => [Abstract!Next]_<<pmm.bitmap, ret>>
  BY VmmInvNext, StepRefines DEF VmmIInv
<1> QED
  BY <1>1, <1>2, VmmInvHolds, PTL DEF VmmSpec, ImplementsFrameAllocator, Abstract!Spec

-----------------------------------------------------------------------------
(* The address spaces.  What a step does to every page of every space, and *)
(* to the regions in common, is what an abstract step does.                *)

Upper == KernelBase .. PdSize - 1

LEMMA AbsChange ==
  ASSUME NEW s \in Directories, NEW p \in Pages, NEW place,
         Directories' = Directories,
         \A e \in Directories, q \in Pages :
            vmm_get_physical_address(e, q)' =
               IF q = p /\ (e = s \/ p[1] \in SharedIndices(s) \cap SharedIndices(e))
               THEN place ELSE vmm_get_physical_address(e, q),
         \A e \in Directories :
            SharedIndices(e)' = IF e = s /\ s = KernelDirectory /\ p[1] \in Upper /\ place # NoEntry
                                THEN SharedIndices(e) \cup {p[1]} ELSE SharedIndices(e)
  PROVE  Abs!Change(s, p, place)
<1> DEFINE V(e) == [q \in Pages |-> vmm_get_physical_address(e, q)]
           W(e) == [q \in Pages |-> vmm_get_physical_address(e, q)']
           sees(e) == e = s \/ p[1] \in SharedIndices(s) \cap SharedIndices(e)
<1>1. \A e \in Directories : W(e) = IF sees(e) THEN [V(e) EXCEPT ![p] = place] ELSE V(e)
  OBVIOUS
<1>2. W(s)[p] = place
  OBVIOUS
<1>3. [e \in Directories |-> W(e)]
        = [e \in Directories |-> IF sees(e) THEN [V(e) EXCEPT ![p] = place] ELSE V(e)]
  BY <1>1
<1>4. [e \in Directories |-> SharedIndices(e)']
        = IF s = KernelDirectory /\ p[1] \in Upper /\ place # NoEntry
          THEN [[e \in Directories |-> SharedIndices(e)] EXCEPT ![s] = @ \cup {p[1]}]
          ELSE [e \in Directories |-> SharedIndices(e)]
  OBVIOUS
<1> QED
  BY <1>2, <1>3, <1>4 DEF Abs!Change, Abs!Seeing, Abs!Existing, Upper

LEMMA AbsNewSpace ==
  ASSUME NEW s, s \notin Directories, KernelDirectory \in Directories,
         Directories' = Directories \cup {s},
         \A e \in Directories, q \in Pages :
            vmm_get_physical_address(e, q)' = vmm_get_physical_address(e, q),
         \A q \in Pages : vmm_get_physical_address(s, q)' =
            IF q[1] \in SharedIndices(KernelDirectory)
            THEN vmm_get_physical_address(KernelDirectory, q) ELSE NoEntry,
         \A e \in Directories : SharedIndices(e)' = SharedIndices(e),
         SharedIndices(s)' = SharedIndices(KernelDirectory)
  PROVE  Abs!NewSpace(s)
  BY DEF Abs!NewSpace, Abs!Existing

(* Two entries that hold one table are one, or shared with the kernel.     *)
LEMMA SharedEntry ==
  ASSUME NEW D, SharedByKernel(D), NEW d \in DOMAIN D, NEW e \in DOMAIN D,
         NEW i \in PdIndices, NEW j \in PdIndices, D[d][i] # NoEntry, D[d][i] = D[e][j]
  PROVE  i = j /\ (d = e \/ (i >= KernelBase /\ D[d][i] = D[KernelDirectory][i]))
  BY DEF SharedByKernel

(* An entry of an existing table is seen in the spaces that have the table. *)
LEMMA EntryRefines ==
  ASSUME VmmIInv, NEW d \in Directories, NEW page \in Pages, HasTable(d, page), NEW v,
         vm'.dir = vm.dir, vm'.table = [vm.table EXCEPT ![vm.dir[d][page[1]]][page[2]] = v]
  PROVE  Abs!Change(d, page, v)
<1> DEFINE D == vm.dir
           T == vm.table
           t == D[d][page[1]]
           U == [T EXCEPT ![t][page[2]] = v]
<1>0. Shaped(D, T, placed) /\ SharedByKernel(D) /\ Directories = DOMAIN D
  BY DEF VmmIInv, Sound, Directories
<1>1. \A q \in Pages : q[1] \in PdIndices /\ q[2] \in PtIndices /\ q = <<q[1], q[2]>>
  BY DEF Pages
<1>2. t \in DOMAIN T /\ t # NoEntry
  BY <1>0, <1>1 DEF HasTable, Shaped
<1>3. \A e \in DOMAIN D, q \in Pages : D[e][q[1]] # NoEntry => D[e][q[1]] \in DOMAIN T
  BY <1>0, <1>1 DEF Shaped
<1>4. \A u \in DOMAIN T, k \in PtIndices :
         U[u][k] = IF u = t /\ k = page[2] THEN v ELSE T[u][k]
  BY <1>0, <1>1 DEF Shaped
<1>5. \A e \in DOMAIN D, q \in Pages :
         D[e][q[1]] = t <=> /\ q[1] = page[1]
                            /\ e = d \/ page[1] \in SharedIndices(d) \cap SharedIndices(e)
  <2> SUFFICES ASSUME NEW e \in DOMAIN D, NEW q \in Pages
               PROVE  D[e][q[1]] = t <=> /\ q[1] = page[1]
                                         /\ e = d \/ page[1] \in SharedIndices(d) \cap SharedIndices(e)
    OBVIOUS
  <2>1. page[1] \in PdIndices /\ q[1] \in PdIndices /\ d \in DOMAIN D
    BY <1>0, <1>1
  <2>2. ASSUME D[e][q[1]] = t
        PROVE  q[1] = page[1] /\ (e = d \/ page[1] \in SharedIndices(d) \cap SharedIndices(e))
    <3>1. page[1] = q[1] /\ (d = e \/ (page[1] >= KernelBase /\ t = D[KernelDirectory][page[1]]))
      <4>1. D[d][page[1]] # NoEntry /\ D[d][page[1]] = D[e][q[1]]
        BY <1>2, <2>2
      <4> HIDE DEF D, T
      <4>2. page[1] = q[1] /\ (d = e \/ (page[1] >= KernelBase /\ D[d][page[1]] = D[KernelDirectory][page[1]]))
        BY <1>0, <2>1, <4>1, SharedEntry
      <4> QED
        BY <4>2
    <3>2. CASE d = e
      BY <3>1, <3>2
    <3>3. CASE d # e
      <4>1. page[1] \in KernelBase .. PdSize - 1
        BY <2>1, <3>1, <3>3, VmmAssumption DEF PdIndices
      <4> QED
        BY <1>2, <2>2, <3>1, <3>3, <4>1 DEF SharedIndices
    <3> QED
      BY <3>2, <3>3
  <2>3. ASSUME q[1] = page[1], e = d \/ page[1] \in SharedIndices(d) \cap SharedIndices(e)
        PROVE  D[e][q[1]] = t
    BY <2>3 DEF SharedIndices
  <2> QED
    BY <2>2, <2>3
<1>6. \A e \in Directories, q \in Pages :
         vmm_get_physical_address(e, q)' =
            IF q = page /\ (e = d \/ page[1] \in SharedIndices(d) \cap SharedIndices(e))
            THEN v ELSE vmm_get_physical_address(e, q)
  <2> SUFFICES ASSUME NEW e \in Directories, NEW q \in Pages
               PROVE  vmm_get_physical_address(e, q)' =
                        IF q = page /\ (e = d \/ page[1] \in SharedIndices(d) \cap SharedIndices(e))
                        THEN v ELSE vmm_get_physical_address(e, q)
    OBVIOUS
  <2>1. vmm_get_physical_address(e, q)'
           = IF D[e][q[1]] # NoEntry THEN U[D[e][q[1]]][q[2]] ELSE NoEntry
    BY DEF vmm_get_physical_address, HasTable
  <2>2. vmm_get_physical_address(e, q)
           = IF D[e][q[1]] # NoEntry THEN T[D[e][q[1]]][q[2]] ELSE NoEntry
    BY DEF vmm_get_physical_address, HasTable
  <2>3. q = page <=> q[1] = page[1] /\ q[2] = page[2]
    BY <1>1
  <2> HIDE DEF U, t
  <2> QED
    <3>1. e \in DOMAIN D /\ q[1] \in PdIndices /\ q[2] \in PtIndices
      BY <1>0, <1>1
    <3>2. CASE D[e][q[1]] = NoEntry
      <4>1. D[e][q[1]] # t
        BY <1>2, <3>2
      <4>2. ~ (q = page /\ (e = d \/ page[1] \in SharedIndices(d) \cap SharedIndices(e)))
        BY <1>5, <2>3, <3>1, <4>1
      <4> QED
        BY <2>1, <2>2, <3>2, <4>2
    <3>3. CASE D[e][q[1]] # NoEntry
      <4>1. U[D[e][q[1]]][q[2]]
              = IF D[e][q[1]] = t /\ q[2] = page[2] THEN v ELSE T[D[e][q[1]]][q[2]]
        BY <1>3, <1>4, <3>1, <3>3
      <4>2. D[e][q[1]] = t /\ q[2] = page[2]
              <=> q = page /\ (e = d \/ page[1] \in SharedIndices(d) \cap SharedIndices(e))
        BY <1>5, <2>3, <3>1
      <4> QED
        BY <2>1, <2>2, <3>3, <4>1, <4>2
    <3> QED
      BY <3>2, <3>3
<1>7. Directories' = Directories /\ \A e \in Directories : SharedIndices(e)' = SharedIndices(e)
  BY DEF Directories, SharedIndices
<1>8. d = KernelDirectory /\ page[1] \in Upper => page[1] \in SharedIndices(d)
  BY <1>2 DEF SharedIndices, Upper
<1>9. \A e \in Directories :
         SharedIndices(e)' = IF e = d /\ d = KernelDirectory /\ page[1] \in Upper /\ v # NoEntry
                             THEN SharedIndices(e) \cup {page[1]} ELSE SharedIndices(e)
  BY <1>7, <1>8
<1> QED
  BY <1>6, <1>7, <1>9, AbsChange

(* A new table in an entry of one directory is seen in that space alone.   *)
LEMMA TableRefines ==
  ASSUME VmmIInv, NEW d \in Directories, NEW page \in Pages, ~ HasTable(d, page),
         NEW i \in Frames \ lent, NEW v, v # NoEntry,
         vm'.dir = [vm.dir EXCEPT ![d][page[1]] = AddrOf(i)],
         vm'.table = Extended(vm.table, AddrOf(i),
                              [k \in PtIndices |-> IF k = page[2] THEN v ELSE NoEntry])
  PROVE  Abs!Change(d, page, v)
<1> DEFINE D == vm.dir
           T == vm.table
           t == AddrOf(i)
           E == vm'.dir
           U == vm'.table
<1>0. /\ Shaped(D, T, placed) /\ Backed(D, T, placed, lent) /\ Directories = DOMAIN D
      /\ lent \in SUBSET Frames
  BY DEF VmmIInv, IInv, Sound, Directories
<1>1. \A q \in Pages : q[1] \in PdIndices /\ q[2] \in PtIndices /\ q = <<q[1], q[2]>>
  BY DEF Pages
<1>2. t # NoEntry /\ t \notin DOMAIN T
  BY <1>0, FreshAddress DEF Backed
<1>3. /\ DOMAIN E = DOMAIN D
      /\ \A e \in DOMAIN D, k \in PdIndices :
            E[e][k] = IF e = d /\ k = page[1] THEN t ELSE D[e][k]
      /\ \A e \in DOMAIN D, k \in PdIndices : D[e][k] # t
      /\ D[d][page[1]] = NoEntry
  BY <1>0, <1>1, <1>2 DEF Shaped, HasTable
<1>4. /\ \A k \in PtIndices : U[t][k] = IF k = page[2] THEN v ELSE NoEntry
      /\ \A u \in DOMAIN T : U[u] = T[u]
  BY <1>2 DEF Extended
<1>5. \A e \in DOMAIN D, q \in Pages : D[e][q[1]] # NoEntry => D[e][q[1]] \in DOMAIN T
  BY <1>0, <1>1 DEF Shaped
<1>6. page[1] \notin SharedIndices(d)
  BY <1>3 DEF SharedIndices
<1>7. \A e \in Directories, q \in Pages :
         vmm_get_physical_address(e, q)' =
            IF q = page /\ (e = d \/ page[1] \in SharedIndices(d) \cap SharedIndices(e))
            THEN v ELSE vmm_get_physical_address(e, q)
  <2> SUFFICES ASSUME NEW e \in Directories, NEW q \in Pages
               PROVE  vmm_get_physical_address(e, q)' =
                        IF q = page /\ e = d THEN v ELSE vmm_get_physical_address(e, q)
    BY <1>6
  <2>1. vmm_get_physical_address(e, q)'
           = IF E[e][q[1]] # NoEntry THEN U[E[e][q[1]]][q[2]] ELSE NoEntry
    BY DEF vmm_get_physical_address, HasTable
  <2>2. vmm_get_physical_address(e, q)
           = IF D[e][q[1]] # NoEntry THEN T[D[e][q[1]]][q[2]] ELSE NoEntry
    BY DEF vmm_get_physical_address, HasTable
  <2>3. q = page <=> q[1] = page[1] /\ q[2] = page[2]
    BY <1>1
  <2> HIDE DEF E, U, t
  <2>4. CASE e = d /\ q[1] = page[1]
    <3>1. E[e][q[1]] = t /\ D[e][q[1]] = NoEntry
      BY <1>0, <1>1, <1>3, <2>4
    <3>2. U[t][q[2]] = IF q[2] = page[2] THEN v ELSE NoEntry
      BY <1>1, <1>4
    <3> QED
      BY <1>2, <2>1, <2>2, <2>3, <2>4, <3>1, <3>2
  <2>5. CASE ~ (e = d /\ q[1] = page[1])
    <3>1. E[e][q[1]] = D[e][q[1]] /\ ~ (q = page /\ e = d)
      BY <1>0, <1>1, <1>3, <2>3, <2>5
    <3>2. D[e][q[1]] # NoEntry => U[D[e][q[1]]] = T[D[e][q[1]]]
      BY <1>0, <1>4, <1>5
    <3> QED
      BY <2>1, <2>2, <3>1, <3>2
  <2> QED
    BY <2>4, <2>5
<1>8. Directories' = Directories
  BY <1>0, <1>3 DEF Directories
<1>9. \A e \in Directories :
         SharedIndices(e)' = IF e = d /\ d = KernelDirectory /\ page[1] \in Upper /\ v # NoEntry
                             THEN SharedIndices(e) \cup {page[1]} ELSE SharedIndices(e)
  <2>1. KernelDirectory \in DOMAIN D
    BY <1>0 DEF Shaped
  <2>2. \A e \in DOMAIN D : SharedIndices(e)' =
           {k \in Upper : E[e][k] # NoEntry /\ E[e][k] = E[KernelDirectory][k]}
    BY DEF SharedIndices, Upper
  <2>3. \A e \in DOMAIN D : SharedIndices(e) =
           {k \in Upper : D[e][k] # NoEntry /\ D[e][k] = D[KernelDirectory][k]}
    BY DEF SharedIndices, Upper
  <2>4. Upper \subseteq PdIndices
    BY VmmAssumption DEF Upper, PdIndices
  <2>5. /\ \A e \in DOMAIN D, k \in Upper :
             E[e][k] = IF e = d /\ k = page[1] THEN t ELSE D[e][k]
        /\ \A e \in DOMAIN D, k \in Upper : D[e][k] # t
    BY <1>3, <2>4
  <2> SUFFICES ASSUME NEW e \in DOMAIN D
               PROVE  SharedIndices(e)' =
                        IF e = d /\ d = KernelDirectory /\ page[1] \in Upper
                        THEN SharedIndices(e) \cup {page[1]} ELSE SharedIndices(e)
    BY <1>0
  <2> HIDE DEF E, D, t
  <2>6. CASE e = d /\ d = KernelDirectory
    <3>1. ASSUME NEW k \in Upper
          PROVE  E[e][k] # NoEntry /\ E[e][k] = E[KernelDirectory][k]
                 <=> (D[e][k] # NoEntry /\ D[e][k] = D[KernelDirectory][k]) \/ k = page[1]
      <4>1. E[e][k] = E[KernelDirectory][k] /\ D[e][k] = D[KernelDirectory][k]
        BY <2>6
      <4>2. E[e][k] = IF k = page[1] THEN t ELSE D[e][k]
        BY <2>5, <2>6
      <4> QED
        BY <1>2, <4>1, <4>2
    <3>2. /\ SharedIndices(e)' \subseteq Upper /\ SharedIndices(e) \subseteq Upper
          /\ \A k \in Upper : k \in SharedIndices(e)' <=> k \in SharedIndices(e) \/ k = page[1]
      BY <2>2, <2>3, <3>1
    <3> QED
      BY <2>6, <3>2
  <2>7. CASE ~ (e = d /\ d = KernelDirectory)
    <3>1. ASSUME NEW k \in Upper
          PROVE  E[e][k] # NoEntry /\ E[e][k] = E[KernelDirectory][k]
                 <=> D[e][k] # NoEntry /\ D[e][k] = D[KernelDirectory][k]
      <4>1. /\ E[e][k] = IF e = d /\ k = page[1] THEN t ELSE D[e][k]
            /\ E[KernelDirectory][k] = IF KernelDirectory = d /\ k = page[1] THEN t ELSE D[KernelDirectory][k]
            /\ D[e][k] # t /\ D[KernelDirectory][k] # t
        BY <2>1, <2>5
      <4>2. CASE e = d /\ k = page[1]
        BY <1>2, <1>3, <2>7, <4>1, <4>2
      <4>3. CASE ~ (e = d /\ k = page[1])
        BY <1>2, <1>3, <2>7, <4>1, <4>3
      <4> QED
        BY <4>2, <4>3
    <3> QED
      BY <2>2, <2>3, <2>7, <3>1
  <2> QED
    BY <2>6, <2>7
<1> QED
  BY <1>7, <1>8, <1>9, AbsChange

(* The variables of AddressSpaces, as Vmm's ImplementsAddressSpaces has them. *)
AView   == [d \in Directories |-> [page \in Pages |-> vmm_get_physical_address(d, page)]]
ACommon == [d \in Directories |-> SharedIndices(d)]

LEMMA StutterRefines ==
  ASSUME vm' = vm
  PROVE  UNCHANGED <<AView, ACommon>>
  BY DEF AView, ACommon, Directories, vmm_get_physical_address, HasTable, SharedIndices

(* A new directory has the kernel's upper tables, whole regions each. *)
LEMMA CreateRefines ==
  ASSUME VmmIInv, vmm_create_page_directory
  PROVE  [Abs!Next]_<<AView, ACommon>>
<1> DEFINE D == vm.dir
           T == vm.table
           E == vm'.dir
<1>1. CASE AllocFails(pmm)
  <2>1. vm' = vm
    BY <1>1 DEF vmm_create_page_directory
  <2> QED
    BY <2>1, StutterRefines
<1>2. CASE ~ AllocFails(pmm)
  <2>0. /\ Shaped(D, T, placed) /\ Backed(D, T, placed, lent) /\ Directories = DOMAIN D
        /\ KernelDirectory \in DOMAIN D /\ Upper \subseteq PdIndices
    BY VmmAssumption DEF VmmIInv, Sound, Shaped, Directories, Upper, PdIndices
  <2>1. lent \in SUBSET Frames /\ AllocFrame(pmm) \in Frames \ lent
    BY <1>2, Lends DEF VmmIInv
  <2>2. PICK a : a = AddrOf(AllocFrame(pmm))
    OBVIOUS
  <2>3. a \notin DOMAIN D /\ a # NoEntry /\ a \in {AddrOf(i) : i \in Frames}
    BY <2>0, <2>1, <2>2, FreshAddress DEF Backed
  <2>4. E = Extended(D, a, CopiedEntries) /\ vm'.table = T
    BY <1>2, <2>2 DEF vmm_create_page_directory, VmmIInv
  <2>5. /\ DOMAIN E = DOMAIN D \cup {a} /\ E[a] = CopiedEntries
        /\ \A e \in DOMAIN D : E[e] = D[e]
    BY <2>3, <2>4 DEF Extended
  <2>6. Directories' = Directories \cup {a}
    BY <2>0, <2>5 DEF Directories
  <2>7. \A e \in Directories, q \in Pages :
           vmm_get_physical_address(e, q)' = vmm_get_physical_address(e, q)
    BY <2>0, <2>4, <2>5 DEF vmm_get_physical_address, HasTable
  <2>8. \A e \in Directories : SharedIndices(e)' = SharedIndices(e)
    BY <2>0, <2>4, <2>5 DEF SharedIndices
  <2>9. \A k \in PdIndices : /\ k \in Upper => E[a][k] = D[KernelDirectory][k]
                             /\ k \notin Upper => E[a][k] = NoEntry
    BY <2>5, VmmAssumption DEF CopiedEntries, Upper, PdIndices
  <2>10. SharedIndices(KernelDirectory) = {k \in Upper : D[KernelDirectory][k] # NoEntry}
    BY DEF SharedIndices, Upper
  <2>11. SharedIndices(a)' = SharedIndices(KernelDirectory)
    <3>1. SharedIndices(a)' = {k \in Upper : E[a][k] # NoEntry /\ E[a][k] = E[KernelDirectory][k]}
      BY DEF SharedIndices, Upper
    <3> HIDE DEF E, D
    <3> QED
      BY <2>0, <2>5, <2>9, <2>10, <3>1
  <2>12. \A q \in Pages : vmm_get_physical_address(a, q)' =
            IF q[1] \in SharedIndices(KernelDirectory)
            THEN vmm_get_physical_address(KernelDirectory, q) ELSE NoEntry
    <3> SUFFICES ASSUME NEW q \in Pages
                 PROVE  vmm_get_physical_address(a, q)' =
                          IF q[1] \in SharedIndices(KernelDirectory)
                          THEN vmm_get_physical_address(KernelDirectory, q) ELSE NoEntry
      OBVIOUS
    <3>1. q[1] \in PdIndices
      BY DEF Pages
    <3>2. vmm_get_physical_address(a, q)'
             = IF E[a][q[1]] # NoEntry THEN T[E[a][q[1]]][q[2]] ELSE NoEntry
      BY <2>4 DEF vmm_get_physical_address, HasTable
    <3>3. vmm_get_physical_address(KernelDirectory, q)
             = IF D[KernelDirectory][q[1]] # NoEntry THEN T[D[KernelDirectory][q[1]]][q[2]]
               ELSE NoEntry
      BY DEF vmm_get_physical_address, HasTable
    <3> HIDE DEF E, D, T
    <3> QED
      BY <2>9, <2>10, <3>1, <3>2, <3>3
  <2> HIDE DEF D, T, E
  <2>13. Abs!NewSpace(a)
    BY <2>0, <2>3, <2>6, <2>7, <2>8, <2>11, <2>12, AbsNewSpace
  <2> QED
    BY <2>3, <2>13 DEF Abs!Next
<1> QED
  BY <1>1, <1>2

(* An abstract change of a page, as a step of AddressSpaces. *)
LEMMA ChangeStep ==
  ASSUME NEW d \in Directories, NEW page \in Pages, NEW v,
         v = NoEntry \/ v \in {AddrOf(i) : i \in Frames}, Abs!Change(d, page, v)
  PROVE  Abs!Next
  BY DEF Abs!Next, Abs!Existing

LEMMA MapRefines ==
  ASSUME VmmIInv, NEW d \in Directories, NEW page \in CallerPages, NEW i \in lent \ UsedFrames,
         vmm_map_page(d, page, AddrOf(i) + PageSize - 1)
  PROVE  [Abs!Next]_<<AView, ACommon>>
<1>0. lent \in SUBSET Frames /\ page \in Pages
  BY CallerAssumption DEF VmmIInv, IInv
<1>1. PageAlign(AddrOf(i) + PageSize - 1) = AddrOf(i) /\ AddrOf(i) # NoEntry
  BY <1>0, PageAligned, FrameAddress DEF NoEntry
<1>2. CASE MapInTable(d, page, AddrOf(i) + PageSize - 1)
  <2>1. /\ HasTable(d, page) /\ vm'.dir = vm.dir
        /\ vm'.table = [vm.table EXCEPT ![vm.dir[d][page[1]]][page[2]] = AddrOf(i)]
    BY <1>1, <1>2 DEF MapInTable, VmmIInv
  <2>2. Abs!Change(d, page, AddrOf(i))
    BY <1>0, <2>1, EntryRefines
  <2> QED
    BY <1>0, <2>2, ChangeStep
<1>3. CASE MapWithNewTable(d, page, AddrOf(i) + PageSize - 1)
  <2>1. CASE AllocFails(pmm)
    <3>1. vm' = vm
      BY <1>3, <2>1 DEF MapWithNewTable
    <3> QED
      BY <3>1, StutterRefines
  <2>2. CASE ~ AllocFails(pmm)
    <3> DEFINE n == AllocFrame(pmm)
    <3>1. n \in Frames \ lent
      BY <2>2, Lends DEF VmmIInv
    <3>2. /\ ~ HasTable(d, page)
          /\ vm'.dir = [vm.dir EXCEPT ![d][page[1]] = AddrOf(n)]
          /\ vm'.table = Extended(vm.table, AddrOf(n),
                            [k \in PtIndices |-> IF k = page[2] THEN AddrOf(i) ELSE NoEntry])
      BY <1>1, <1>3, <2>2 DEF MapWithNewTable
    <3>3. Abs!Change(d, page, AddrOf(i))
      <4> HIDE DEF n
      <4> QED
        BY <1>0, <1>1, <3>1, <3>2, TableRefines
    <3> QED
      BY <1>0, <3>3, ChangeStep
  <2> QED
    BY <2>1, <2>2
<1> QED
  BY <1>2, <1>3 DEF vmm_map_page

LEMMA UnmapRefines ==
  ASSUME VmmIInv, NEW d \in Directories, NEW page \in CallerPages, vmm_unmap_page(d, page)
  PROVE  [Abs!Next]_<<AView, ACommon>>
<1>0. page \in Pages
  BY CallerAssumption
<1>1. CASE ~ HasTable(d, page)
  BY <1>1, StutterRefines DEF vmm_unmap_page, vmmVars
<1>2. CASE HasTable(d, page)
  <2>1. /\ vm'.dir = vm.dir
        /\ vm'.table = [vm.table EXCEPT ![vm.dir[d][page[1]]][page[2]] = NoEntry]
    BY <1>2 DEF vmm_unmap_page, VmmIInv
  <2>2. Abs!Change(d, page, NoEntry)
    BY <1>0, <1>2, <2>1, EntryRefines
  <2> QED
    BY <1>0, <2>2, ChangeStep
<1> QED
  BY <1>1, <1>2

LEMMA AbsInit == VmmInit => Abs!Init
<1> SUFFICES ASSUME VmmInit PROVE Abs!Init
  OBVIOUS
<1>1. PICK i \in Frames, j \in Frames : LowTable = AddrOf(i) /\ HighTable = AddrOf(j)
  BY BootSound
<1>2. LowTable # NoEntry /\ HighTable # NoEntry
  BY <1>1, FrameAddress DEF NoEntry
<1>3. /\ Directories = {KernelDirectory} /\ vm.dir[KernelDirectory] = BootDirectory
      /\ vm.table = [t \in {LowTable, HighTable} |-> BootTable]
  BY DEF VmmInit, Directories
<1>4. \A q \in Pages : q[1] \in PdIndices /\ q[2] \in PtIndices
  BY DEF Pages
<1>5. \A q \in Pages : vmm_get_physical_address(KernelDirectory, q) =
         IF q[1] \in {0, KernelBase} THEN q[2] * PageSize ELSE NoEntry
  BY <1>2, <1>3, <1>4 DEF vmm_get_physical_address, HasTable, BootDirectory, BootTable
<1>6. SharedIndices(KernelDirectory) = {KernelBase}
  BY <1>2, <1>3, VmmAssumption DEF SharedIndices, BootDirectory, PdIndices
<1> QED
  BY <1>3, <1>5, <1>6 DEF Abs!Init

LEMMA VmmStepRefines == VmmIInv /\ [VmmNext]_vmmVars => [Abs!Next]_<<AView, ACommon>>
<1> SUFFICES ASSUME VmmIInv, [VmmNext]_vmmVars PROVE [Abs!Next]_<<AView, ACommon>>
  OBVIOUS
<1>1. CASE vmm_create_page_directory
  BY <1>1, CreateRefines
<1>2. CASE CallerMaps
  BY <1>2, MapRefines DEF CallerMaps
<1>3. CASE CallerUnmaps
  BY <1>3, UnmapRefines DEF CallerUnmaps
<1>4. CASE OtherCalls
  BY <1>4, StutterRefines DEF OtherCalls
<1>5. CASE UNCHANGED vmmVars
  BY <1>5, StutterRefines DEF vmmVars
<1> QED
  BY <1>1, <1>2, <1>3, <1>4, <1>5 DEF VmmNext

(* vmm.c's directories and tables are one map from pages to frames for     *)
(* each address space, whatever the calls and wherever the frames.         *)
THEOREM SpacesRefined == VmmSpec => ImplementsAddressSpaces
<1>1. VmmInit => Abs!Init
  BY AbsInit
<1>2. VmmIInv /\ [VmmNext]_vmmVars => [Abs!Next]_<<AView, ACommon>>
  BY VmmStepRefines
<1> QED
  BY <1>1, <1>2, VmmInvHolds, PTL
     DEF VmmSpec, ImplementsAddressSpaces, Abs!Spec, AView, ACommon
=============================================================================
