--------------------------- MODULE ProcessProofs ---------------------------
(***************************************************************************)
(* The scheduler's queue and the frames of processes, for every number of  *)
(* slots, frames and ticks in a slice.                                     *)
(***************************************************************************)
EXTENDS Process, PmmProofs, WellFoundedInduction

N == MAX_PROCESSES

(* One link further. *)
Step(s, x) == IF x = NULL THEN NULL ELSE s.next[x]

(* f is the walk along the list of s. *)
Follows(s, f) == f = [i \in 0 .. N |-> IF i = 0 THEN s.head ELSE Step(s, f[i - 1])]

-----------------------------------------------------------------------------
LEMMA Size == N \in Nat /\ N > 1 /\ NULL = -1 /\ Procs = 0 .. N - 1 /\ 0 \in Procs
  BY SchedulerAssumption DEF N, NULL, Procs

LEMMA LeastNat ==
  ASSUME NEW S, S \subseteq Nat, S # {}
  PROVE  \E m \in S : \A j \in S : m <= j
<1> DEFINE R == {ss \in Nat \X Nat : ss[1] < ss[2]}
<1>1. IsWellFoundedOn(R, Nat)
  <2>1. R = OpToRel(<, Nat)
    BY DEF OpToRel
  <2> QED
    BY <2>1, NatLessThanWellFounded
<1>2. PICK m \in S : \A j \in S : ~ (<<j, m>> \in R)
  <2> HIDE DEF R
  <2> QED
    BY <1>1, WFMin
<1>3. ASSUME NEW j \in S PROVE m <= j
  <2>1. j \in Nat /\ m \in Nat
    OBVIOUS
  <2>2. <<j, m>> \in Nat \X Nat /\ <<j, m>>[1] = j /\ <<j, m>>[2] = m
    BY <2>1
  <2>3. ~ (j < m)
    BY <1>2, <2>2
  <2> QED
    BY <2>1, <2>3
<1> QED
  BY <1>3

(* The walk exists: a shortest one that does not would follow one that     *)
(* does. *)
LEMMA WalkExists ==
  ASSUME NEW s
  PROVE  \E f : Follows(s, f)
<1> DEFINE Walk(n, f) == f = [i \in 0 .. n |-> IF i = 0 THEN s.head ELSE Step(s, f[i - 1])]
           Without == {n \in Nat : ~ \E f : Walk(n, f)}
<1>1. Without = {}
  <2> SUFFICES ASSUME Without # {} PROVE FALSE
    OBVIOUS
  <2>1. PICK n \in Without : \A m \in Without : n <= m
    <3>1. Without \subseteq Nat
      OBVIOUS
    <3> HIDE DEF Without
    <3> QED
      BY <3>1, LeastNat
  <2>2. n # 0
    <3>1. Walk(0, [i \in 0 .. 0 |-> s.head])
      OBVIOUS
    <3> QED
      BY <3>1
  <2>3. n - 1 \in Nat /\ n - 1 \notin Without
    <3>1. n \in Nat /\ n - 1 \in Nat
      BY <2>1, <2>2
    <3> HIDE DEF Without
    <3> QED
      BY <2>1, <3>1
  <2>4. PICK f : Walk(n - 1, f)
    BY <2>3
  <2> DEFINE g == [i \in 0 .. n |-> IF i = n THEN Step(s, f[n - 1]) ELSE f[i]]
  <2>5. n \in Nat /\ n > 0
    BY <2>2
  <2>6. ASSUME NEW i \in 0 .. n PROVE g[i] = IF i = 0 THEN s.head ELSE Step(s, g[i - 1])
    <3>1. CASE i = 0
      BY <2>4, <2>5, <3>1
    <3>2. CASE i = n
      <4>1. g[i - 1] = f[n - 1]
        BY <2>5, <3>2
      <4> QED
        BY <2>5, <3>2, <4>1
    <3>3. CASE i # 0 /\ i # n
      <4>1. i \in 0 .. n - 1 /\ i - 1 \in 0 .. n - 1 /\ g[i] = f[i] /\ g[i - 1] = f[i - 1]
        BY <2>5, <3>3
      <4>2. f[i] = Step(s, f[i - 1])
        BY <2>4, <3>3, <4>1
      <4> QED
        BY <3>3, <4>1, <4>2
    <3> QED
      BY <3>1, <3>2, <3>3
  <2>7. Walk(n, g)
    <3>1. g = [i \in 0 .. n |-> g[i]]
      OBVIOUS
    <3> HIDE DEF g
    <3> QED
      BY <2>6, <3>1
  <2> QED
    BY <2>7
<1>2. \E f : Walk(N, f)
  BY <1>1, Size
<1> QED
  BY <1>2 DEF Follows

LEMMA ChainFollows ==
  ASSUME NEW s
  PROVE  Follows(s, Chain(s))
  BY WalkExists DEF Chain, Follows, Step, N

LEMMA ChainSteps ==
  ASSUME NEW s
  PROVE  /\ DOMAIN Chain(s) = 0 .. N /\ Chain(s)[0] = s.head
         /\ \A i \in 0 .. N - 1 : Chain(s)[i + 1] = Step(s, Chain(s)[i])
<1> DEFINE f == Chain(s)
<1>1. f = [i \in 0 .. N |-> IF i = 0 THEN s.head ELSE Step(s, f[i - 1])]
  BY ChainFollows DEF Follows
<1> HIDE DEF f
<1>2. DOMAIN f = 0 .. N /\ f[0] = s.head
  BY <1>1, Size
<1>3. ASSUME NEW i \in 0 .. N - 1 PROVE f[i + 1] = Step(s, f[i])
  <2>1. i + 1 \in 0 .. N /\ i + 1 # 0 /\ (i + 1) - 1 = i
    BY Size
  <2> QED
    BY <1>1, <2>1
<1> QED
  BY <1>2, <1>3 DEF f

(* It is the only one. *)
LEMMA ChainUnique ==
  ASSUME NEW s, NEW f, DOMAIN f = 0 .. N, f[0] = s.head,
         \A i \in 0 .. N - 1 : f[i + 1] = Step(s, f[i]), NEW i \in 0 .. N
  PROVE  Chain(s)[i] = f[i]
<1> DEFINE Differ == {k \in 0 .. N : Chain(s)[k] # f[k]}
<1>1. Differ = {}
  <2> SUFFICES ASSUME Differ # {} PROVE FALSE
    OBVIOUS
  <2>1. PICK k \in Differ : \A m \in Differ : k <= m
    <3>1. Differ \subseteq Nat
      BY Size
    <3> HIDE DEF Differ
    <3> QED
      BY <3>1, LeastNat
  <2>2. k # 0
    BY ChainSteps
  <2>3. k - 1 \in 0 .. N - 1 /\ (k - 1) + 1 = k /\ k - 1 \notin Differ
    BY <2>1, <2>2, Size
  <2>4. Chain(s)[k - 1] = f[k - 1]
    BY <2>3, Size
  <2>5. Chain(s)[k] = Step(s, Chain(s)[k - 1])
    BY <2>3, ChainSteps
  <2> QED
    BY <2>3, <2>4, <2>5
<1> QED
  BY <1>1

-----------------------------------------------------------------------------
(* The queue as a line: q holds its n processes in order.                  *)
Line(s, q, n) ==
    /\ n \in 0 .. N /\ q \in [0 .. n - 1 -> Procs]
    /\ \A i, j \in 0 .. n - 1 : q[i] = q[j] => i = j
    /\ s.count = n
    /\ s.head = IF n = 0 THEN NULL ELSE q[0]
    /\ s.tail = IF n = 0 THEN NULL ELSE q[n - 1]
    /\ \A i \in 0 .. n - 1 : s.next[q[i]] = IF i = n - 1 THEN NULL ELSE q[i + 1]

LEMMA LineChain ==
  ASSUME NEW s, NEW n, NEW q, Line(s, q, n)
  PROVE  /\ \A i \in 0 .. N : Chain(s)[i] = IF i < n THEN q[i] ELSE NULL
         /\ WellFormed(s) /\ Queued(s) = {q[i] : i \in 0 .. n - 1}
<1> DEFINE f == [i \in 0 .. N |-> IF i < n THEN q[i] ELSE NULL]
<1>0. n \in 0 .. N /\ n \in Nat /\ \A i \in 0 .. n - 1 : q[i] \in Procs /\ q[i] # NULL
  BY Size DEF Line
<1>1. DOMAIN f = 0 .. N /\ f[0] = s.head
  BY <1>0, Size DEF Line
<1>2. ASSUME NEW i \in 0 .. N - 1 PROVE f[i + 1] = Step(s, f[i])
  <2>0. i \in 0 .. N /\ i + 1 \in 0 .. N
    BY Size
  <2>1. CASE i < n
    <3>1. i \in 0 .. n - 1 /\ f[i] = q[i] /\ f[i] # NULL
      BY <1>0, <2>0, <2>1
    <3>2. s.next[q[i]] = IF i = n - 1 THEN NULL ELSE q[i + 1]
      BY <3>1 DEF Line
    <3>3. f[i + 1] = IF i = n - 1 THEN NULL ELSE q[i + 1]
      BY <1>0, <2>0, <2>1
    <3> QED
      BY <3>1, <3>2, <3>3 DEF Step
  <2>2. CASE ~ (i < n)
    <3>1. f[i] = NULL /\ f[i + 1] = NULL
      BY <1>0, <2>0, <2>2
    <3> QED
      BY <3>1 DEF Step
  <2> QED
    BY <2>1, <2>2
<1>3. \A i \in 0 .. N : Chain(s)[i] = f[i]
  <2> HIDE DEF f
  <2> QED
    BY <1>1, <1>2, ChainUnique
<1>4. \A i \in 0 .. N : Chain(s)[i] = IF i < n THEN q[i] ELSE NULL
  BY <1>3
<1>5. \A i \in 0 .. n - 1 : i \in 0 .. N /\ i < n /\ Chain(s)[i] = q[i] /\ Chain(s)[i] # NULL
  BY <1>0, <1>4, Size
<1>6. WellFormed(s)
  <2>1. \A i \in 0 .. N : (Chain(s)[i] # NULL) <=> i < n
    BY <1>0, <1>4, Size
  <2>2. \A i, j \in 0 .. n - 1 : Chain(s)[i] = Chain(s)[j] => i = j
    BY <1>5 DEF Line
  <2>3. s.tail = IF n = 0 THEN NULL ELSE Chain(s)[n - 1]
    <3>1. CASE n = 0
      BY <3>1 DEF Line
    <3>2. CASE n # 0
      <4>1. n - 1 \in 0 .. n - 1
        BY <1>0, <3>2
      <4> QED
        BY <1>5, <3>2, <4>1 DEF Line
    <3> QED
      BY <3>1, <3>2
  <2> QED
    BY <2>1, <2>2, <2>3 DEF WellFormed, Line, N
<1>7. Queued(s) = {q[i] : i \in 0 .. n - 1}
  <2>1. ASSUME NEW x \in Queued(s) PROVE x \in {q[i] : i \in 0 .. n - 1}
    <3>1. PICK i \in 0 .. N : x = Chain(s)[i] /\ x # NULL
      BY DEF Queued, N
    <3>2. i \in 0 .. n - 1
      BY <1>0, <1>4, <3>1, Size
    <3> QED
      BY <1>5, <3>1, <3>2
  <2>2. ASSUME NEW i \in 0 .. n - 1 PROVE q[i] \in Queued(s)
    BY <1>5 DEF Queued, N
  <2> QED
    BY <2>1, <2>2
<1> QED
  BY <1>4, <1>6, <1>7

LEMMA ChainLine ==
  ASSUME NEW s, s \in SchedState, WellFormed(s)
  PROVE  \E q : Line(s, q, s.count)
<1> DEFINE n == s.count
           c == Chain(s)
           q == [i \in 0 .. n - 1 |-> c[i]]
<1>1. n \in 0 .. N /\ s.head \in Procs \cup {NULL} /\ s.next \in [Procs -> Procs \cup {NULL}]
  BY DEF SchedState, N
<1>2. /\ \A i \in 0 .. N : (c[i] # NULL) <=> i < n
      /\ \A i, j \in 0 .. n - 1 : c[i] = c[j] => i = j
      /\ s.tail = IF n = 0 THEN NULL ELSE c[n - 1]
  BY DEF WellFormed, N
<1>3. c[0] = s.head /\ \A i \in 0 .. N - 1 : c[i + 1] = Step(s, c[i])
  BY ChainSteps
<1> HIDE DEF c, n
<1>4. \A i \in 0 .. N : c[i] \in Procs \cup {NULL}
  <2> DEFINE Bad == {i \in 0 .. N : c[i] \notin Procs \cup {NULL}}
  <2> SUFFICES ASSUME Bad # {} PROVE FALSE
    OBVIOUS
  <2>1. PICK k \in Bad : \A m \in Bad : k <= m
    <3>1. Bad \subseteq Nat
      BY Size
    <3> HIDE DEF Bad
    <3> QED
      BY <3>1, LeastNat
  <2>2. k # 0
    BY <1>1, <1>3
  <2>3. k - 1 \in 0 .. N - 1 /\ (k - 1) + 1 = k /\ k - 1 \in 0 .. N /\ k - 1 \notin Bad
    BY <2>1, <2>2, Size
  <2>4. c[k - 1] \in Procs \cup {NULL} /\ c[k] = Step(s, c[k - 1])
    BY <1>3, <2>3
  <2> QED
    BY <1>1, <2>4 DEF Step
<1>5. \A i \in 0 .. n - 1 : i \in 0 .. N /\ i < n /\ c[i] # NULL /\ c[i] \in Procs
  BY <1>1, <1>2, <1>4, Size
<1>6. ASSUME NEW i \in 0 .. n - 1
      PROVE  s.next[q[i]] = IF i = n - 1 THEN NULL ELSE q[i + 1]
  <2>1. i \in 0 .. N - 1 /\ i + 1 \in 0 .. N
    BY <1>1, Size
  <2>2. c[i + 1] = s.next[c[i]]
    BY <1>3, <1>5, <2>1 DEF Step
  <2>3. CASE i = n - 1
    <3>1. ~ (i + 1 < n)
      BY <1>1, <2>3
    <3>2. c[i + 1] = NULL
      BY <1>2, <2>1, <3>1
    <3> QED
      BY <2>2, <2>3, <3>2
  <2>4. CASE i # n - 1
    <3>1. i + 1 \in 0 .. n - 1
      BY <1>1, <2>4
    <3> QED
      BY <2>2, <2>4, <3>1
  <2> QED
    BY <2>3, <2>4
<1>7. s.head = IF n = 0 THEN NULL ELSE q[0]
  BY <1>1, <1>2, <1>3, Size
<1>8. s.tail = IF n = 0 THEN NULL ELSE q[n - 1]
  BY <1>1, <1>2
<1>9. Line(s, q, n)
  BY <1>1, <1>2, <1>5, <1>6, <1>7, <1>8 DEF Line, n
<1> QED
  BY <1>9 DEF n

(* The list's length is at most the number of slots, and less when one is  *)
(* not in it. *)
LEMMA LineShort ==
  ASSUME NEW s, NEW n, NEW q, Line(s, q, n), NEW p \in Procs, p \notin Queued(s)
  PROVE  n < N
<1>1. q \in Injection(0 .. n - 1, Procs)
  BY DEF Line, Injection, IsInjective
<1>2. IsFiniteSet(Procs) /\ Cardinality(Procs) = N
  BY Size, FS_Interval
<1>3. n \in Nat /\ n <= N /\ Cardinality(0 .. n - 1) = n
  BY Size, FS_Interval DEF Line
<1>4. q \notin Surjection(0 .. n - 1, Procs)
  BY LineChain DEF Surjection
<1>5. Cardinality(0 .. n - 1) # Cardinality(Procs)
  BY <1>1, <1>2, <1>4, FS_Injection
<1> QED
  BY <1>2, <1>3, <1>5, Size

-----------------------------------------------------------------------------
(* What each function of the scheduler does to the line.                   *)
LEMMA AddLine ==
  ASSUME NEW s, s \in SchedState, NEW n, NEW q, Line(s, q, n), NEW p \in Procs, p \notin Queued(s)
  PROVE  /\ Line(Add(s, p), [i \in 0 .. n |-> IF i = n THEN p ELSE q[i]], n + 1)
         /\ Add(s, p) \in SchedState
<1> DEFINE a == Add(s, p)
           r == [i \in 0 .. n |-> IF i = n THEN p ELSE q[i]]
<1>1. /\ n \in Nat /\ n < N /\ N \in Nat /\ q \in [0 .. n - 1 -> Procs]
      /\ \A i, j \in 0 .. n - 1 : q[i] = q[j] => i = j
      /\ \A i \in 0 .. n - 1 : q[i] # p
      /\ s.tail = (IF n = 0 THEN NULL ELSE q[n - 1]) /\ NULL \notin Procs
      /\ s.head = (IF n = 0 THEN NULL ELSE q[0]) /\ s.count = n
  <2>1. n < N
    BY LineShort
  <2>2. Queued(s) = {q[i] : i \in 0 .. n - 1}
    BY LineChain
  <2> HIDE DEF a, r
  <2>3. \A i \in 0 .. n - 1 : q[i] # p
    BY <2>2
  <2>4. n \in Nat /\ N \in Nat /\ NULL \notin Procs
    BY Size DEF Line
  <2> QED
    BY <2>1, <2>3, <2>4 DEF Line
<1>2. /\ a.state = [s.state EXCEPT ![p] = READY] /\ a.current = s.current
      /\ a.next = (IF s.tail = NULL THEN [s.next EXCEPT ![p] = NULL]
                   ELSE [s.next EXCEPT ![p] = NULL, ![s.tail] = p])
      /\ a.head = (IF s.tail = NULL THEN p ELSE s.head) /\ a.tail = p /\ a.count = s.count + 1
  BY DEF Add, SchedState
<1>3. s.next \in [Procs -> Procs \cup {NULL}]
  BY DEF SchedState
<1>4. n # 0 => s.tail \in Procs /\ s.tail # p /\ s.tail # NULL /\ n - 1 \in 0 .. n - 1
  BY <1>1
<1>5. \A x \in Procs : a.next[x] = IF n # 0 /\ x = s.tail THEN p ELSE IF x = p THEN NULL ELSE s.next[x]
  BY <1>1, <1>2, <1>3, <1>4
<1>6. a \in SchedState
  <2>1. a.next \in [Procs -> Procs \cup {NULL}]
    BY <1>2, <1>3
  <2>2. a.count \in 0 .. MAX_PROCESSES
    BY <1>1, <1>2 DEF N
  <2> QED
    BY <1>1, <1>2, <2>1, <2>2 DEF Add, SchedState
<1> HIDE DEF a
<1>7. r \in [0 .. (n + 1) - 1 -> Procs] /\ n + 1 \in 0 .. N
  BY <1>1
<1>8. \A i, j \in 0 .. (n + 1) - 1 : r[i] = r[j] => i = j
  BY <1>1
<1>9. ASSUME NEW i \in 0 .. (n + 1) - 1
      PROVE  a.next[r[i]] = IF i = (n + 1) - 1 THEN NULL ELSE r[i + 1]
  <2>1. CASE i = n
    BY <1>1, <1>4, <1>5, <2>1
  <2>2. CASE i # n
    <3>1. i \in 0 .. n - 1 /\ r[i] = q[i] /\ q[i] \in Procs /\ q[i] # p /\ n # 0
      BY <1>1, <2>2
    <3>2. CASE i = n - 1
      BY <1>1, <1>5, <3>1, <3>2
    <3>3. CASE i # n - 1
      <4>1. q[i] # s.tail /\ i + 1 \in 0 .. n - 1 /\ r[i + 1] = q[i + 1]
        BY <1>1, <3>1, <3>3
      <4>2. s.next[q[i]] = q[i + 1]
        BY <3>1, <3>3 DEF Line
      <4> QED
        BY <1>1, <1>5, <2>2, <3>1, <4>1, <4>2
    <3> QED
      BY <3>2, <3>3
  <2> QED
    BY <2>1, <2>2
<1>10. a.count = n + 1 /\ a.head = r[0] /\ a.tail = r[n]
  BY <1>1, <1>2, <1>4
<1> QED
  BY <1>1, <1>6, <1>7, <1>8, <1>9, <1>10 DEF Line, a

LEMMA DequeueLine ==
  ASSUME NEW s, s \in SchedState, NEW n, NEW q, Line(s, q, n), n # 0
  PROVE  /\ Line(Dequeue(s), [i \in 0 .. n - 2 |-> q[i + 1]], n - 1)
         /\ Dequeue(s) \in SchedState /\ s.head = q[0] /\ q[0] \in Procs
<1> DEFINE d == Dequeue(s)
           r == [i \in 0 .. n - 2 |-> q[i + 1]]
<1>1. /\ n \in Nat /\ n > 0 /\ n <= N /\ N \in Nat /\ q \in [0 .. n - 1 -> Procs]
      /\ \A i, j \in 0 .. n - 1 : q[i] = q[j] => i = j
      /\ s.tail = q[n - 1] /\ NULL \notin Procs
      /\ s.head = q[0] /\ s.count = n /\ q[0] \in Procs /\ q[n - 1] \in Procs
  BY Size DEF Line
<1>2. /\ d.state = s.state /\ d.current = s.current
      /\ d.next = [s.next EXCEPT ![s.head] = NULL]
      /\ d.head = s.next[s.head] /\ d.tail = (IF s.next[s.head] = NULL THEN NULL ELSE s.tail)
      /\ d.count = s.count - 1
  BY DEF Dequeue, SchedState
<1>3. s.next \in [Procs -> Procs \cup {NULL}]
  BY DEF SchedState
<1>4. s.next[q[0]] = IF n = 1 THEN NULL ELSE q[1]
  <2>1. 0 \in 0 .. n - 1 /\ (0 = n - 1 <=> n = 1)
    BY <1>1
  <2> QED
    BY <2>1 DEF Line
<1>5. \A x \in Procs : x # q[0] => d.next[x] = s.next[x]
  BY <1>1, <1>2, <1>3
<1>6. d \in SchedState
  <2>1. d.next \in [Procs -> Procs \cup {NULL}] /\ d.head \in Procs \cup {NULL} /\ d.tail \in Procs \cup {NULL}
    BY <1>1, <1>2, <1>3
  <2>2. d.count \in 0 .. MAX_PROCESSES
    BY <1>1, <1>2 DEF N
  <2> QED
    BY <1>1, <1>2, <2>1, <2>2 DEF Dequeue, SchedState
<1> HIDE DEF d
<1>7. r \in [0 .. (n - 1) - 1 -> Procs] /\ n - 1 \in 0 .. N
  BY <1>1
<1>8. \A i \in 0 .. (n - 1) - 1 : i + 1 \in 0 .. n - 1 /\ r[i] = q[i + 1]
  BY <1>1
<1>9. \A i, j \in 0 .. (n - 1) - 1 : r[i] = r[j] => i = j
  <2> SUFFICES ASSUME NEW i \in 0 .. (n - 1) - 1, NEW j \in 0 .. (n - 1) - 1, r[i] = r[j] PROVE i = j
    OBVIOUS
  <2> HIDE DEF r
  <2>1. i + 1 = j + 1
    BY <1>1, <1>8
  <2> QED
    BY <1>1, <2>1
<1>10. ASSUME NEW i \in 0 .. (n - 1) - 1
       PROVE  d.next[r[i]] = IF i = (n - 1) - 1 THEN NULL ELSE r[i + 1]
  <2>1. i + 1 \in 0 .. n - 1 /\ r[i] = q[i + 1] /\ q[i + 1] # q[0] /\ q[i + 1] \in Procs
    <3>1. i + 1 # 0 /\ 0 \in 0 .. n - 1
      BY <1>1
    <3> QED
      BY <1>1, <1>8, <3>1
  <2>2. d.next[r[i]] = s.next[q[i + 1]]
    BY <1>5, <2>1
  <2>3. s.next[q[i + 1]] = IF i + 1 = n - 1 THEN NULL ELSE q[(i + 1) + 1]
    BY <2>1 DEF Line
  <2>4. i # (n - 1) - 1 => r[i + 1] = q[(i + 1) + 1]
    BY <1>1
  <2> QED
    BY <1>1, <2>2, <2>3, <2>4
<1>11. d.count = n - 1
  BY <1>1, <1>2
<1>12. d.head = IF n - 1 = 0 THEN NULL ELSE r[0]
  BY <1>1, <1>2, <1>4
<1>13. d.tail = IF n - 1 = 0 THEN NULL ELSE r[(n - 1) - 1]
  <2>1. n # 1 => q[1] # NULL
    BY <1>1
  <2> QED
    BY <1>1, <1>2, <1>4, <2>1
<1> QED
  BY <1>1, <1>6, <1>7, <1>9, <1>10, <1>11, <1>12, <1>13 DEF Line, d

LEMMA PlaceOf ==
  ASSUME NEW s, NEW n, NEW q, Line(s, q, n), NEW k \in 0 .. n - 1
  PROVE  /\ Place(s, q[k]) = k
         /\ (CHOOSE i \in 0 .. N : Chain(s)[i] = q[k] /\ \A j \in 0 .. i - 1 : Chain(s)[j] # q[k]) = k
<1>1. /\ n \in 0 .. N /\ k \in 0 .. N /\ n \in Nat /\ q[k] # NULL
      /\ \A i \in 0 .. n - 1 : q[i] = q[k] => i = k
  BY Size DEF Line
<1>2. \A i \in 0 .. N : Chain(s)[i] = IF i < n THEN q[i] ELSE NULL
  BY LineChain
<1>3. \A i \in 0 .. N : Chain(s)[i] = q[k] <=> i = k
  BY <1>1, <1>2
<1>4. \A j \in 0 .. k - 1 : Chain(s)[j] # q[k]
  <2>1. \A j \in 0 .. k - 1 : j \in 0 .. N /\ j # k
    BY <1>1, Size
  <2> QED
    BY <1>3, <2>1
<1>5. Place(s, q[k]) = k
  BY <1>1, <1>3 DEF Place, N
<1>6. (CHOOSE i \in 0 .. N : Chain(s)[i] = q[k] /\ \A j \in 0 .. i - 1 : Chain(s)[j] # q[k]) = k
  BY <1>1, <1>3, <1>4
<1> QED
  BY <1>5, <1>6

(* A process taken out at any place: its predecessor, if it has one, is    *)
(* linked to its successor. *)
LEMMA RemoveLine ==
  ASSUME NEW s, s \in SchedState, NEW n, NEW q, Line(s, q, n), NEW k \in 0 .. n - 1
  PROVE  /\ Line(Remove(s, q[k]), [i \in 0 .. n - 2 |-> IF i < k THEN q[i] ELSE q[i + 1]], n - 1)
         /\ Remove(s, q[k]) \in SchedState
         /\ Remove(s, q[k]).state = s.state /\ Remove(s, q[k]).current = s.current
<1> DEFINE d == Remove(s, q[k])
           p == q[k]
           prev == IF k = 0 THEN NULL ELSE q[k - 1]
           r == [i \in 0 .. n - 2 |-> IF i < k THEN q[i] ELSE q[i + 1]]
<1>1. /\ n \in Nat /\ n > 0 /\ n <= N /\ N \in Nat /\ q \in [0 .. n - 1 -> Procs]
      /\ \A i, j \in 0 .. n - 1 : q[i] = q[j] => i = j
      /\ s.tail = q[n - 1] /\ NULL \notin Procs
      /\ s.head = q[0] /\ s.count = n /\ q[n - 1] \in Procs /\ p \in Procs
      /\ k \in Nat /\ k < n
  BY Size DEF Line
<1>2. /\ d.state = s.state /\ d.current = s.current
      /\ d.next = (IF prev = NULL THEN [s.next EXCEPT ![p] = NULL]
                   ELSE [s.next EXCEPT ![prev] = s.next[p], ![p] = NULL])
      /\ d.head = (IF prev = NULL THEN s.next[p] ELSE s.head)
      /\ d.tail = (IF p = s.tail THEN prev ELSE s.tail)
      /\ d.count = s.count - 1
      /\ d.time_slice = s.time_slice /\ d.time_used = s.time_used
      /\ d = [state |-> d.state, next |-> d.next, time_slice |-> d.time_slice,
              time_used |-> d.time_used, head |-> d.head, tail |-> d.tail,
              count |-> d.count, current |-> d.current]
  <2> DEFINE at == CHOOSE i \in 0 .. MAX_PROCESSES :
                       Chain(s)[i] = p /\ \A j \in 0 .. i - 1 : Chain(s)[j] # p
             pr == IF at = 0 THEN NULL ELSE Chain(s)[at - 1]
  <2>1. at = k
    BY PlaceOf DEF N
  <2> HIDE DEF at
  <2>2. pr = prev
    <3>1. k # 0 => k - 1 \in 0 .. N /\ k - 1 < n
      BY <1>1
    <3>2. k # 0 => Chain(s)[k - 1] = q[k - 1]
      BY <3>1, LineChain
    <3> QED
      BY <2>1, <3>2
  <2> HIDE DEF pr, prev
  <2>3. ~ (s.count = 0 \/ p \notin Queued(s))
    <3>1. Queued(s) = {q[i] : i \in 0 .. n - 1}
      BY LineChain
    <3> QED
      BY <1>1, <3>1
  <2> HIDE DEF p
  <2>4. Remove(s, p) =
          [s EXCEPT !.next  = IF pr = NULL
                              THEN [s.next EXCEPT ![p] = NULL]
                              ELSE [s.next EXCEPT ![pr] = s.next[p], ![p] = NULL],
                    !.head  = IF pr = NULL THEN s.next[p] ELSE s.head,
                    !.tail  = IF p = s.tail THEN pr ELSE s.tail,
                    !.count = @ - 1]
    BY <2>3 DEF Remove, at, pr
  <2>5. d = Remove(s, p)
    BY DEF p
  <2> HIDE DEF d
  <2> QED
    BY <2>2, <2>4, <2>5 DEF SchedState
<1> HIDE DEF d
<1>3. s.next \in [Procs -> Procs \cup {NULL}]
  BY DEF SchedState
<1>4. \A i \in 0 .. n - 1 : s.next[q[i]] = IF i = n - 1 THEN NULL ELSE q[i + 1]
  BY DEF Line
<1>5. k # 0 => k - 1 \in 0 .. n - 1 /\ prev = q[k - 1] /\ prev \in Procs /\ prev # NULL /\ prev # p
  BY <1>1
<1>6. k = 0 => prev = NULL
  OBVIOUS
<1>7. \A x \in Procs \ {p} : d.next[x] = IF k # 0 /\ x = prev THEN s.next[p] ELSE s.next[x]
  <2> HIDE DEF p, prev
  <2> QED
    BY <1>1, <1>2, <1>3, <1>5, <1>6
<1>8. s.next[p] = IF k = n - 1 THEN NULL ELSE q[k + 1]
  BY <1>4
<1>9. /\ d.head = (IF k = 0 THEN s.next[p] ELSE q[0])
      /\ d.tail = (IF k = n - 1 THEN prev ELSE q[n - 1])
  <2>1. p = s.tail <=> k = n - 1
    BY <1>1
  <2> QED
    BY <1>1, <1>2, <1>5, <1>6, <2>1
<1>10. d \in SchedState
  <2>1. prev \in Procs \cup {NULL} /\ s.next[p] \in Procs \cup {NULL}
    BY <1>1, <1>3, <1>5, <1>6
  <2> HIDE DEF p, prev
  <2>2. d.next \in [Procs -> Procs \cup {NULL}]
    BY <1>2, <1>3, <2>1
  <2>3. d.head \in Procs \cup {NULL} /\ d.tail \in Procs \cup {NULL}
    BY <1>1, <1>2, <2>1
  <2>4. d.count \in 0 .. MAX_PROCESSES
    BY <1>1, <1>2 DEF N
  <2> QED
    BY <1>2, <2>2, <2>3, <2>4 DEF SchedState
<1>11. \A i \in 0 .. n - 2 : /\ r[i] = (IF i < k THEN q[i] ELSE q[i + 1])
                             /\ i \in 0 .. n - 1 /\ i + 1 \in 0 .. n - 1 /\ r[i] \in Procs
  BY <1>1
<1> HIDE DEF r, p
<1>12. \A i, j \in 0 .. n - 2 : r[i] = r[j] => i = j
  <2> SUFFICES ASSUME NEW i \in 0 .. n - 2, NEW j \in 0 .. n - 2, r[i] = r[j] PROVE i = j
    OBVIOUS
  <2>1. (IF i < k THEN i ELSE i + 1) = (IF j < k THEN j ELSE j + 1)
    BY <1>1, <1>11
  <2> QED
    BY <1>1, <2>1
<1>13. ASSUME NEW i \in 0 .. n - 2
       PROVE  d.next[r[i]] = IF i = n - 2 THEN NULL ELSE r[i + 1]
  <2>0. r[i] # p /\ i \in Nat
    BY <1>1, <1>11 DEF p
  <2>1. CASE i < k - 1
    <3>1. r[i] = q[i] /\ r[i] # prev /\ i # n - 2 /\ i # n - 1
      BY <1>1, <1>5, <1>11, <2>0, <2>1
    <3>2. r[i + 1] = q[i + 1]
      <4>1. i + 1 \in 0 .. n - 2 /\ i + 1 < k
        BY <1>1, <2>1
      <4> QED
        BY <1>11, <4>1
    <3> QED
      BY <1>4, <1>7, <1>11, <2>0, <3>1, <3>2
  <2>2. CASE i = k - 1
    <3>1. k # 0 /\ r[i] = prev /\ i < k
      BY <1>1, <1>5, <1>11, <2>0, <2>2
    <3>2. d.next[r[i]] = s.next[p]
      BY <1>7, <1>11, <2>0, <3>1
    <3>3. i = n - 2 <=> k = n - 1
      BY <1>1, <2>2
    <3>4. i # n - 2 => r[i + 1] = q[k + 1]
      <4> SUFFICES ASSUME i # n - 2 PROVE r[i + 1] = q[k + 1]
        OBVIOUS
      <4>1. i + 1 \in 0 .. n - 2 /\ i + 1 = k /\ ~ (i + 1 < k)
        BY <1>1, <2>2
      <4> QED
        BY <1>11, <4>1
    <3> QED
      BY <1>8, <3>2, <3>3, <3>4
  <2>3. CASE i >= k
    <3>1. r[i] = q[i + 1] /\ (k # 0 => r[i] # prev) /\ i + 1 \in 0 .. n - 1
      BY <1>1, <1>5, <1>11, <2>0, <2>3
    <3>2. d.next[r[i]] = s.next[q[i + 1]]
      BY <1>7, <1>11, <2>0, <3>1
    <3>3. s.next[q[i + 1]] = IF i + 1 = n - 1 THEN NULL ELSE q[(i + 1) + 1]
      BY <1>4, <3>1
    <3>4. i + 1 = n - 1 <=> i = n - 2
      BY <1>1
    <3>5. i # n - 2 => r[i + 1] = q[(i + 1) + 1]
      <4> SUFFICES ASSUME i # n - 2 PROVE r[i + 1] = q[(i + 1) + 1]
        OBVIOUS
      <4>1. i + 1 \in 0 .. n - 2 /\ ~ (i + 1 < k)
        BY <1>1, <2>0, <2>3
      <4> QED
        BY <1>11, <4>1
    <3> QED
      BY <3>2, <3>3, <3>4, <3>5
  <2> QED
    BY <1>1, <2>0, <2>1, <2>2, <2>3
<1>14. d.head = IF n - 1 = 0 THEN NULL ELSE r[0]
  <2>1. n # 1 => 0 \in 0 .. n - 2
    BY <1>1
  <2>2. n # 1 => r[0] = IF k = 0 THEN q[1] ELSE q[0]
    BY <1>1, <1>11, <2>1
  <2>3. n = 1 => k = 0
    BY <1>1
  <2> QED
    BY <1>1, <1>8, <1>9, <2>2, <2>3
<1>15. d.tail = IF n - 1 = 0 THEN NULL ELSE r[n - 2]
  <2>1. n # 1 => n - 2 \in 0 .. n - 2
    BY <1>1
  <2>2. n # 1 => r[n - 2] = IF n - 2 < k THEN q[n - 2] ELSE q[n - 1]
    BY <1>1, <1>11, <2>1
  <2>3. n = 1 => k = 0
    BY <1>1
  <2>4. CASE k = n - 1
    BY <1>1, <1>5, <1>6, <1>9, <2>2, <2>3, <2>4
  <2>5. CASE k # n - 1
    BY <1>1, <1>9, <2>2, <2>3, <2>5
  <2> QED
    BY <2>4, <2>5
<1>16. r \in [0 .. n - 2 -> Procs]
  <2>1. r = [i \in 0 .. n - 2 |-> r[i]]
    BY DEF r
  <2> QED
    BY <1>11, <2>1
<1>17. Line(d, r, n - 1)
  <2>1. (n - 1) - 1 = n - 2 /\ n - 1 \in 0 .. N /\ d.count = n - 1
    BY <1>1, <1>2
  <2> QED
    BY <1>12, <1>13, <1>14, <1>15, <1>16, <2>1 DEF Line
<1> QED
  BY <1>2, <1>10, <1>17 DEF d, r

-----------------------------------------------------------------------------
(* The invariant of the scheduler's record: a well-formed queue of ready   *)
(* processes, one running process, the current one, and the kernel current *)
(* or queued.  In the middle of process_exit the current process no longer *)
(* runs; if it is not the kernel, somebody is queued all the same.         *)
QueueSound(s) == /\ s \in SchedState /\ WellFormed(s)
                 /\ \A p \in Queued(s) : s.state[p] = READY
                 /\ s.current \in Procs

SchedInv(s) == /\ QueueSound(s)
               /\ \A p \in Procs : s.state[p] = RUNNING <=> p = s.current
               /\ s.current = 0 \/ 0 \in Queued(s)

BeforeSchedule(s) == /\ QueueSound(s)
                     /\ \A p \in Procs : s.state[p] = RUNNING => p = s.current
                     /\ IF s.current = 0 THEN s.state[0] = RUNNING ELSE 0 \in Queued(s)

(* Nobody in both queues is further back in the second.                    *)
NotBack(s, t) == \A p \in Queued(s) \cap Queued(t) : Place(t, p) <= Place(s, p)

(* A step that brings nobody new to the processor and gives up no slot.    *)
Within(s, t) ==
    /\ Queued(t) \cup {t.current} \subseteq Queued(s) \cup {s.current}
    /\ \A p \in Procs : t.state[p] = UNUSED => s.state[p] = UNUSED

LEMMA SameLine ==
  ASSUME NEW s, NEW t, NEW n, NEW q, Line(s, q, n),
         t.head = s.head, t.tail = s.tail, t.count = s.count,
         \A i \in 0 .. n - 1 : t.next[q[i]] = s.next[q[i]]
  PROVE  Line(t, q, n)
  BY DEF Line

(* A queue with the same links is the same queue. *)
LEMMA SameQueue ==
  ASSUME NEW s, NEW t, s \in SchedState, WellFormed(s),
         t.head = s.head, t.tail = s.tail, t.count = s.count,
         \A p \in Queued(s) : t.next[p] = s.next[p]
  PROVE  WellFormed(t) /\ Queued(t) = Queued(s) /\ NotBack(s, t)
<1> DEFINE n == s.count
<1>1. PICK q : Line(s, q, n)
  BY ChainLine
<1>2. Queued(s) = {q[i] : i \in 0 .. n - 1}
  BY <1>1, LineChain
<1> HIDE DEF n
<1>3. Line(t, q, n)
  BY <1>1, <1>2, SameLine
<1>4. WellFormed(t) /\ Queued(t) = {q[i] : i \in 0 .. n - 1}
  BY <1>3, LineChain
<1>5. ASSUME NEW p \in Queued(s) PROVE Place(t, p) <= Place(s, p)
  <2>1. PICK i \in 0 .. n - 1 : p = q[i]
    BY <1>2
  <2>2. Place(s, p) = i /\ Place(t, p) = i
    BY <1>1, <1>3, <2>1, PlaceOf
  <2>3. n \in Nat
    BY <1>1, Size DEF Line
  <2> QED
    BY <2>2, <2>3
<1> QED
  BY <1>2, <1>4, <1>5 DEF NotBack

LEMMA AddSound ==
  ASSUME NEW s, s \in SchedState, WellFormed(s), NEW p \in Procs, p \notin Queued(s)
  PROVE  /\ Add(s, p) \in SchedState /\ WellFormed(Add(s, p))
         /\ Queued(Add(s, p)) = Queued(s) \cup {p} /\ NotBack(s, Add(s, p))
         /\ Add(s, p).state = [s.state EXCEPT ![p] = READY] /\ Add(s, p).current = s.current
<1> DEFINE n == s.count
           t == Add(s, p)
<1>1. PICK q : Line(s, q, n)
  BY ChainLine
<1>2. Queued(s) = {q[i] : i \in 0 .. n - 1} /\ n \in Nat
  <2>1. n \in Nat
    BY <1>1, Size DEF Line
  <2> HIDE DEF n
  <2> QED
    BY <1>1, <2>1, LineChain
<1> DEFINE r == [i \in 0 .. n |-> IF i = n THEN p ELSE q[i]]
<1>3. t.state = [s.state EXCEPT ![p] = READY] /\ t.current = s.current
  BY DEF Add, SchedState
<1> HIDE DEF n, t
<1>4. Line(t, r, n + 1) /\ t \in SchedState
  BY <1>1, AddLine DEF t
<1>5. \A i \in 0 .. n - 1 : i \in 0 .. (n + 1) - 1 /\ r[i] = q[i] /\ i \in Nat
  BY <1>2
<1>6. n \in 0 .. (n + 1) - 1 /\ r[n] = p /\ \A i \in 0 .. (n + 1) - 1 : i = n \/ i \in 0 .. n - 1
  BY <1>2
<1> HIDE DEF r
<1>7. WellFormed(t) /\ Queued(t) = {r[i] : i \in 0 .. (n + 1) - 1}
  BY <1>4, LineChain
<1>8. Queued(t) = Queued(s) \cup {p}
  BY <1>2, <1>5, <1>6, <1>7
<1>9. ASSUME NEW x \in Queued(s) PROVE Place(t, x) <= Place(s, x)
  <2>1. PICK i \in 0 .. n - 1 : x = q[i]
    BY <1>2
  <2>2. Place(s, x) = i
    BY <1>1, <2>1, PlaceOf
  <2>3. Place(t, x) = i
    BY <1>4, <1>5, <2>1, PlaceOf
  <2> QED
    BY <1>5, <2>2, <2>3
<1> QED
  BY <1>3, <1>4, <1>7, <1>8, <1>9 DEF NotBack, t

LEMMA DequeueSound ==
  ASSUME NEW s, s \in SchedState, WellFormed(s), s.count # 0
  PROVE  /\ Dequeue(s) \in SchedState /\ WellFormed(Dequeue(s))
         /\ s.head \in Queued(s) /\ s.head \in Procs
         /\ Queued(Dequeue(s)) = Queued(s) \ {s.head} /\ NotBack(s, Dequeue(s))
         /\ Dequeue(s).state = s.state /\ Dequeue(s).current = s.current
<1> DEFINE n == s.count
           t == Dequeue(s)
<1>1. PICK q : Line(s, q, n)
  BY ChainLine
<1>2. Queued(s) = {q[i] : i \in 0 .. n - 1} /\ n \in Nat /\ n > 0
  <2>1. n \in Nat /\ n > 0
    BY <1>1, Size DEF Line
  <2> HIDE DEF n
  <2> QED
    BY <1>1, <2>1, LineChain
<1> DEFINE r == [i \in 0 .. n - 2 |-> q[i + 1]]
<1>3. t.state = s.state /\ t.current = s.current
  BY DEF Dequeue, SchedState
<1> HIDE DEF n, t
<1>4. Line(t, r, n - 1) /\ t \in SchedState /\ s.head = q[0] /\ q[0] \in Procs
  <2>1. n # 0
    BY <1>2
  <2>2. /\ Line(Dequeue(s), [i \in 0 .. n - 2 |-> q[i + 1]], n - 1)
        /\ Dequeue(s) \in SchedState /\ s.head = q[0] /\ q[0] \in Procs
    BY <1>1, <2>1, DequeueLine
  <2> QED
    BY <2>2 DEF t, r
<1>5. \A i \in 0 .. (n - 1) - 1 : i + 1 \in 0 .. n - 1 /\ r[i] = q[i + 1] /\ i \in Nat /\ i + 1 # 0
  BY <1>2
<1>6. 0 \in 0 .. n - 1 /\ \A i \in 0 .. n - 1 : i = 0 \/ (i - 1 \in 0 .. (n - 1) - 1 /\ (i - 1) + 1 = i)
  BY <1>2
<1>7. \A i, j \in 0 .. n - 1 : q[i] = q[j] => i = j
  BY <1>1 DEF Line
<1> HIDE DEF r
<1>8. WellFormed(t) /\ Queued(t) = {r[i] : i \in 0 .. (n - 1) - 1}
  BY <1>4, LineChain
<1>9. Queued(t) = Queued(s) \ {q[0]}
  <2>1. ASSUME NEW x \in Queued(t) PROVE x \in Queued(s) \ {q[0]}
    BY <1>2, <1>5, <1>6, <1>7, <1>8
  <2>2. ASSUME NEW x \in Queued(s) \ {q[0]} PROVE x \in Queued(t)
    <3>1. PICK i \in 0 .. n - 1 : x = q[i] /\ i # 0
      BY <1>2
    <3>2. i - 1 \in 0 .. (n - 1) - 1 /\ r[i - 1] = q[i]
      BY <1>5, <1>6, <3>1
    <3> QED
      BY <1>8, <3>1, <3>2
  <2> QED
    BY <2>1, <2>2
<1>10. ASSUME NEW x \in Queued(t) PROVE Place(t, x) <= Place(s, x)
  <2>1. PICK i \in 0 .. (n - 1) - 1 : x = r[i]
    BY <1>8
  <2>2. Place(s, x) = i + 1
    BY <1>1, <1>5, <2>1, PlaceOf
  <2>3. Place(t, x) = i
    BY <1>4, <2>1, PlaceOf
  <2> QED
    BY <1>5, <2>2, <2>3
<1> QED
  BY <1>2, <1>3, <1>4, <1>6, <1>8, <1>9, <1>10 DEF NotBack, t

LEMMA RemoveSound ==
  ASSUME NEW s, s \in SchedState, WellFormed(s), NEW p \in Procs
  PROVE  /\ Remove(s, p) \in SchedState /\ WellFormed(Remove(s, p))
         /\ Queued(Remove(s, p)) = Queued(s) \ {p} /\ NotBack(s, Remove(s, p))
         /\ Remove(s, p).state = s.state /\ Remove(s, p).current = s.current
<1> DEFINE n == s.count
           t == Remove(s, p)
<1>1. PICK q : Line(s, q, n)
  BY ChainLine
<1>2. Queued(s) = {q[i] : i \in 0 .. n - 1} /\ n \in Nat
  <2>1. n \in Nat
    BY <1>1, Size DEF Line
  <2> HIDE DEF n
  <2> QED
    BY <1>1, <2>1, LineChain
<1>3. CASE p \notin Queued(s)
  <2>1. Remove(s, p) = s
    BY <1>3 DEF Remove
  <2>2. NotBack(s, s)
    BY SameQueue
  <2> QED
    BY <1>3, <2>1, <2>2
<1>4. CASE p \in Queued(s)
  <2>1. PICK k \in 0 .. n - 1 : p = q[k]
    BY <1>2, <1>4
  <2> DEFINE r == [i \in 0 .. n - 2 |-> IF i < k THEN q[i] ELSE q[i + 1]]
  <2> HIDE DEF n, t
  <2>2. Line(t, r, n - 1) /\ t \in SchedState /\ t.state = s.state /\ t.current = s.current
    BY <1>1, <2>1, RemoveLine DEF t
  <2>3. \A i \in 0 .. (n - 1) - 1 :
           /\ i < k => i \in 0 .. n - 1 /\ r[i] = q[i] /\ i # k
           /\ ~ (i < k) => i + 1 \in 0 .. n - 1 /\ r[i] = q[i + 1] /\ i + 1 # k
           /\ i \in Nat
    BY <1>2
  <2>4. \A i \in 0 .. n - 1 : \/ i = k
                              \/ i < k /\ i \in 0 .. (n - 1) - 1
                              \/ ~ (i - 1 < k) /\ i - 1 \in 0 .. (n - 1) - 1 /\ (i - 1) + 1 = i
    BY <1>2
  <2>5. \A i, j \in 0 .. n - 1 : q[i] = q[j] => i = j
    BY <1>1 DEF Line
  <2> HIDE DEF r
  <2>6. WellFormed(t) /\ Queued(t) = {r[i] : i \in 0 .. (n - 1) - 1}
    BY <2>2, LineChain
  <2>7. Queued(t) = Queued(s) \ {p}
    <3>1. ASSUME NEW x \in Queued(t) PROVE x \in Queued(s) \ {p}
      BY <1>2, <2>1, <2>3, <2>5, <2>6
    <3>2. ASSUME NEW x \in Queued(s) \ {p} PROVE x \in Queued(t)
      <4>1. PICK i \in 0 .. n - 1 : x = q[i] /\ i # k
        BY <1>2, <2>1
      <4>2. CASE i < k /\ i \in 0 .. (n - 1) - 1
        <5>1. r[i] = q[i]
          BY <2>3, <4>2
        <5> QED
          BY <2>6, <4>1, <4>2, <5>1
      <4>3. CASE ~ (i - 1 < k) /\ i - 1 \in 0 .. (n - 1) - 1 /\ (i - 1) + 1 = i
        <5>1. r[i - 1] = q[i]
          BY <2>3, <4>3
        <5> QED
          BY <2>6, <4>1, <4>3, <5>1
      <4> QED
        BY <2>4, <4>1, <4>2, <4>3
    <3> QED
      BY <3>1, <3>2
  <2>8. ASSUME NEW x \in Queued(t) PROVE Place(t, x) <= Place(s, x)
    <3>1. PICK i \in 0 .. (n - 1) - 1 : x = r[i]
      BY <2>6
    <3>2. Place(t, x) = i
      BY <2>2, <3>1, PlaceOf
    <3>3. CASE i < k
      <4>1. Place(s, x) = i
        BY <1>1, <2>3, <3>1, <3>3, PlaceOf
      <4> QED
        BY <2>3, <3>2, <4>1
    <3>4. CASE ~ (i < k)
      <4>1. Place(s, x) = i + 1
        BY <1>1, <2>3, <3>1, <3>4, PlaceOf
      <4> QED
        BY <2>3, <3>2, <4>1
    <3> QED
      BY <3>3, <3>4
  <2> QED
    BY <2>2, <2>6, <2>7, <2>8 DEF NotBack, t
<1> QED
  BY <1>3, <1>4

(* Places only fall along a chain of calls that adds nobody back.          *)
LEMMA NotBackTrans ==
  ASSUME NEW s, NEW t, NEW u, t \in SchedState, WellFormed(t), s \in SchedState, WellFormed(s),
         u \in SchedState, WellFormed(u),
         NotBack(s, t), NotBack(t, u), Queued(s) \cap Queued(u) \subseteq Queued(t)
  PROVE  NotBack(s, u)
<1>1. ASSUME NEW v, v \in SchedState, WellFormed(v), NEW x \in Queued(v)
      PROVE  Place(v, x) \in Nat
  <2>1. PICK q : Line(v, q, v.count)
    BY <1>1, ChainLine
  <2>2. PICK i \in 0 .. v.count - 1 : x = q[i]
    BY <2>1, LineChain
  <2>3. v.count \in Nat
    BY <2>1, Size DEF Line
  <2> QED
    BY <2>1, <2>2, <2>3, PlaceOf
<1>2. ASSUME NEW x \in Queued(s) \cap Queued(u) PROVE Place(u, x) <= Place(s, x)
  <2>1. x \in Queued(s) /\ x \in Queued(t) /\ x \in Queued(u)
    BY <1>2
  <2>2. Place(u, x) \in Nat /\ Place(t, x) \in Nat /\ Place(s, x) \in Nat
    BY <1>1, <2>1
  <2>3. Place(u, x) <= Place(t, x) /\ Place(t, x) <= Place(s, x)
    BY <2>1 DEF NotBack
  <2> QED
    BY <2>2, <2>3
<1> QED
  BY <1>2 DEF NotBack

(* scheduler_schedule *)
LEMMA ScheduleSound ==
  ASSUME NEW s, BeforeSchedule(s)
  PROVE  SchedInv(Schedule(s)) /\ NotBack(s, Schedule(s)) /\ Within(s, Schedule(s))
<1>0. /\ s \in SchedState /\ WellFormed(s) /\ s.current \in Procs
      /\ \A p \in Queued(s) : s.state[p] = READY
      /\ \A p \in Procs : s.state[p] = RUNNING => p = s.current
      /\ Running(s) <=> s.state[s.current] = RUNNING
  BY Size DEF BeforeSchedule, QueueSound, Running
<1>1. CASE s.count = 0
  <2>1. Schedule(s) = s
    BY <1>1 DEF Schedule, NextProcess
  <2>2. Queued(s) = {}
    <3>1. PICK q : Line(s, q, 0)
      BY <1>0, <1>1, ChainLine
    <3>2. Queued(s) = {q[i] : i \in 0 .. 0 - 1}
      BY <3>1, LineChain
    <3> QED
      BY <3>2
  <2>3. s.current = 0 /\ s.state[0] = RUNNING
    BY <2>2 DEF BeforeSchedule
  <2> QED
    BY <1>0, <2>1, <2>2, <2>3, Size DEF BeforeSchedule, SchedInv, NotBack, Within
<1>2. CASE s.count # 0
  <2> DEFINE h == s.head
             c == s.current
             d == Dequeue(s)
             q == IF Running(s) THEN Add(d, c) ELSE d
             t == [q EXCEPT !.current = h, !.state[h] = RUNNING, !.time_used[h] = 0]
  <2>1. /\ d \in SchedState /\ WellFormed(d) /\ h \in Queued(s) /\ h \in Procs
        /\ Queued(d) = Queued(s) \ {h} /\ NotBack(s, d)
        /\ d.state = s.state /\ d.current = s.current
    BY <1>0, <1>2, DequeueSound
  <2>2. Schedule(s) = t
    <3>1. NextProcess(s) = h /\ h # NULL
      BY <1>2, <2>1, Size DEF NextProcess
    <3> QED
      BY <3>1 DEF Schedule
  <2>3. Running(s) => c \notin Queued(s)
    BY <1>0 DEF RUNNING, READY
  <2> HIDE DEF d, h
  <2>4. /\ q \in SchedState /\ WellFormed(q) /\ NotBack(d, q)
        /\ Queued(q) = (IF Running(s) THEN Queued(d) \cup {c} ELSE Queued(d))
        /\ q.state = (IF Running(s) THEN [s.state EXCEPT ![c] = READY] ELSE s.state)
    <3>1. CASE Running(s)
      <4>1. c \notin Queued(d) /\ c \in Procs
        BY <1>0, <2>1, <2>3, <3>1
      <4> HIDE DEF c
      <4> QED
        BY <2>1, <3>1, <4>1, AddSound
    <3>2. CASE ~ Running(s)
      <4>1. NotBack(d, d)
        BY <2>1, SameQueue
      <4> QED
        BY <2>1, <3>2, <4>1
    <3> QED
      BY <3>1, <3>2
  <2>5. NotBack(s, q)
    <3>1. Queued(s) \cap Queued(q) \subseteq Queued(d)
      BY <2>1, <2>3, <2>4
    <3> HIDE DEF q
    <3> QED
      BY <1>0, <2>1, <2>4, <3>1, NotBackTrans
  <2> HIDE DEF q
  <2>6. /\ t \in SchedState /\ t.next = q.next /\ t.head = q.head /\ t.tail = q.tail
        /\ t.count = q.count /\ t.state = [q.state EXCEPT ![h] = RUNNING] /\ t.current = h
    BY <2>1, <2>4 DEF SchedState
  <2> HIDE DEF t
  <2>7. WellFormed(t) /\ Queued(t) = Queued(q) /\ NotBack(q, t)
    BY <2>4, <2>6, SameQueue
  <2>8. NotBack(s, t)
    BY <1>0, <2>4, <2>5, <2>6, <2>7, NotBackTrans
  <2>9. h \notin Queued(t) /\ (Running(s) => h # c)
    BY <2>1, <2>3, <2>4, <2>7
  <2>10. /\ s.state \in [Procs -> {UNUSED, RUNNING, READY, TERMINATED}]
         /\ q.state \in [Procs -> {UNUSED, RUNNING, READY, TERMINATED}]
    BY <1>0, <2>4 DEF SchedState
  <2>11. \A p \in Procs : /\ p = h => t.state[p] = RUNNING
                          /\ p # h => t.state[p] = q.state[p]
    BY <2>6, <2>10
  <2>12. \A p \in Procs : q.state[p] = IF Running(s) /\ p = c THEN READY ELSE s.state[p]
    BY <1>0, <2>4, <2>10
  <2>13. \A p \in Procs : t.state[p] = RUNNING <=> p = t.current
    <3>1. \A p \in Procs : p # h => q.state[p] # RUNNING
      BY <1>0, <2>12 DEF READY, RUNNING
    <3> QED
      BY <2>6, <2>11, <3>1
  <2>14. \A p \in Queued(t) : t.state[p] = READY
    <3> SUFFICES ASSUME NEW p \in Queued(t) PROVE t.state[p] = READY
      OBVIOUS
    <3>1. p # h /\ p \in Procs
      <4>1. PICK f : Line(t, f, t.count)
        BY <2>6, <2>7, ChainLine
      <4>2. Queued(t) = {f[i] : i \in 0 .. t.count - 1}
        BY <4>1, LineChain
      <4> QED
        BY <2>9, <4>1, <4>2 DEF Line
    <3>2. p \in Queued(s) \/ (Running(s) /\ p = c)
      BY <2>1, <2>4, <2>7
    <3> QED
      BY <1>0, <2>11, <2>12, <3>1, <3>2
  <2>15. t.current = 0 \/ 0 \in Queued(t)
    <3>1. CASE c = 0
      <4>1. Running(s)
        BY <1>0, <3>1 DEF BeforeSchedule
      <4> QED
        BY <2>4, <2>7, <3>1, <4>1
    <3>2. CASE c # 0
      <4>1. 0 \in Queued(s)
        BY <3>2 DEF BeforeSchedule
      <4> QED
        BY <2>1, <2>4, <2>6, <2>7, <4>1
    <3> QED
      BY <3>1, <3>2
  <2>16. Within(s, t)
    <3>1. Queued(t) \cup {t.current} \subseteq Queued(s) \cup {s.current}
      BY <2>1, <2>4, <2>6, <2>7
    <3>2. \A p \in Procs : t.state[p] = UNUSED => s.state[p] = UNUSED
      BY <2>11, <2>12 DEF UNUSED, READY, RUNNING
    <3> QED
      BY <3>1, <3>2 DEF Within
  <2> QED
    BY <2>1, <2>2, <2>6, <2>7, <2>8, <2>13, <2>14, <2>15, <2>16 DEF SchedInv, QueueSound
<1> QED
  BY <1>1, <1>2

-----------------------------------------------------------------------------
(* The calls on the record. *)
LEMMA QueuedAreProcs ==
  ASSUME NEW s, s \in SchedState, WellFormed(s)
  PROVE  Queued(s) \subseteq Procs /\ NotBack(s, s)
<1>1. PICK q : Line(s, q, s.count)
  BY ChainLine
<1>2. Queued(s) = {q[i] : i \in 0 .. s.count - 1}
  BY <1>1, LineChain
<1>3. NotBack(s, s)
  BY SameQueue
<1> QED
  BY <1>1, <1>2, <1>3 DEF Line

LEMMA InvBeforeSchedule ==
  ASSUME NEW s, SchedInv(s)
  PROVE  BeforeSchedule(s) /\ s.current \notin Queued(s)
  BY DEF SchedInv, BeforeSchedule, QueueSound, READY, RUNNING

LEMMA AddKeeps ==
  ASSUME NEW s, SchedInv(s), NEW p \in Procs, s.state[p] = READY, p \notin Queued(s)
  PROVE  /\ SchedInv(Add(s, p)) /\ NotBack(s, Add(s, p)) /\ Queued(Add(s, p)) = Queued(s) \cup {p}
         /\ Add(s, p).state = s.state /\ Add(s, p).current = s.current
<1> DEFINE t == Add(s, p)
<1>1. s \in SchedState /\ WellFormed(s) /\ s.state \in [Procs -> {UNUSED, RUNNING, READY, TERMINATED}]
  BY DEF SchedInv, QueueSound, SchedState
<1>2. /\ t \in SchedState /\ WellFormed(t) /\ Queued(t) = Queued(s) \cup {p} /\ NotBack(s, t)
      /\ t.state = [s.state EXCEPT ![p] = READY] /\ t.current = s.current
  BY <1>1, AddSound
<1> HIDE DEF t
<1>3. t.state = s.state
  BY <1>1, <1>2
<1> QED
  BY <1>2, <1>3 DEF SchedInv, QueueSound, t

LEMMA RemoveKeeps ==
  ASSUME NEW s, SchedInv(s), NEW p \in Procs \ {0}
  PROVE  SchedInv(Remove(s, p)) /\ NotBack(s, Remove(s, p)) /\ Within(s, Remove(s, p))
<1> DEFINE t == Remove(s, p)
<1>1. s \in SchedState /\ WellFormed(s)
  BY DEF SchedInv, QueueSound
<1>2. /\ t \in SchedState /\ WellFormed(t) /\ Queued(t) = Queued(s) \ {p} /\ NotBack(s, t)
      /\ t.state = s.state /\ t.current = s.current
  BY <1>1, RemoveSound
<1> HIDE DEF t
<1> QED
  BY <1>2 DEF SchedInv, QueueSound, Within, t

LEMMA TickKeeps ==
  ASSUME NEW s, SchedInv(s)
  PROVE  SchedInv(Tick(s)) /\ NotBack(s, Tick(s)) /\ Within(s, Tick(s))
<1> DEFINE c == s.current
           slice == s.time_slice[c]
           used  == IF s.time_used[c] < slice THEN s.time_used[c] + 1 ELSE slice
           t     == [s EXCEPT !.time_used[c] = used]
<1>1. s \in SchedState /\ WellFormed(s) /\ c \in Procs /\ c # NULL
  BY Size DEF SchedInv, QueueSound
<1>2. Tick(s) = IF used >= slice THEN Schedule(t) ELSE t
  BY <1>1 DEF Tick
<1>3. /\ t.state = s.state /\ t.next = s.next /\ t.head = s.head /\ t.tail = s.tail
      /\ t.count = s.count /\ t.current = s.current
  BY <1>1 DEF SchedState
<1>4. t \in SchedState
  <2>1. slice \in Nat /\ s.time_used[c] \in Nat
    <3>1. s.time_slice[c] \in TimeSlices \cup {KernelSlice, 0} /\ s.time_used[c] \in Nat
      BY <1>1 DEF SchedState
    <3>2. TimeSlices \cup {KernelSlice, 0} \subseteq Nat
      BY SchedulerAssumption
    <3> QED
      BY <3>1, <3>2
  <2>2. used \in Nat
    BY <2>1
  <2> HIDE DEF used
  <2> QED
    BY <1>1, <2>2 DEF SchedState
<1> HIDE DEF t, used, slice
<1>5. WellFormed(t) /\ Queued(t) = Queued(s) /\ NotBack(s, t)
  BY <1>1, <1>3, SameQueue
<1>6. SchedInv(t)
  BY <1>3, <1>4, <1>5 DEF SchedInv, QueueSound
<1>7. SchedInv(Schedule(t)) /\ NotBack(t, Schedule(t)) /\ Within(t, Schedule(t))
  BY <1>6, InvBeforeSchedule, ScheduleSound
<1>8. NotBack(s, Schedule(t))
  <2>1. Schedule(t) \in SchedState /\ WellFormed(Schedule(t))
    BY <1>7 DEF SchedInv, QueueSound
  <2> QED
    BY <1>1, <1>4, <1>5, <1>7, <2>1, NotBackTrans
<1>9. Within(s, t) /\ Within(s, Schedule(t))
  BY <1>3, <1>5, <1>7 DEF Within
<1> QED
  BY <1>2, <1>5, <1>6, <1>7, <1>8, <1>9

LEMMA ExitKeeps ==
  ASSUME NEW s, SchedInv(s), s.current # 0
  PROVE  LET t == Schedule([s EXCEPT !.state[s.current] = TERMINATED])
         IN  SchedInv(t) /\ NotBack(s, t) /\ Within(s, t)
<1> DEFINE c == s.current
           x == [s EXCEPT !.state[c] = TERMINATED]
           t == Schedule(x)
<1>1. /\ s \in SchedState /\ WellFormed(s) /\ c \in Procs /\ c \notin Queued(s)
      /\ s.state \in [Procs -> {UNUSED, RUNNING, READY, TERMINATED}]
  BY InvBeforeSchedule DEF SchedInv, QueueSound, SchedState
<1>2. /\ x.state = [s.state EXCEPT ![c] = TERMINATED] /\ x.next = s.next /\ x.head = s.head
      /\ x.tail = s.tail /\ x.count = s.count /\ x.current = s.current /\ x \in SchedState
  BY <1>1 DEF SchedState
<1> HIDE DEF x
<1>3. WellFormed(x) /\ Queued(x) = Queued(s) /\ NotBack(s, x)
  BY <1>1, <1>2, SameQueue
<1>4. \A p \in Procs : x.state[p] = IF p = c THEN TERMINATED ELSE s.state[p]
  BY <1>1, <1>2
<1>5. BeforeSchedule(x)
  <2>1. \A p \in Queued(x) : x.state[p] = READY
    BY <1>1, <1>3, <1>4, QueuedAreProcs DEF SchedInv, QueueSound
  <2>2. \A p \in Procs : x.state[p] = RUNNING => p = x.current
    BY <1>2, <1>4 DEF SchedInv, RUNNING, TERMINATED
  <2> QED
    BY <1>1, <1>2, <1>3, <2>1, <2>2 DEF BeforeSchedule, QueueSound, SchedInv
<1>6. SchedInv(t) /\ NotBack(x, t) /\ Within(x, t)
  BY <1>5, ScheduleSound
<1>7. NotBack(s, t)
  <2>1. t \in SchedState /\ WellFormed(t)
    BY <1>6 DEF SchedInv, QueueSound
  <2> HIDE DEF t
  <2> QED
    BY <1>1, <1>2, <1>3, <1>6, <2>1, NotBackTrans
<1>8. Within(s, t)
  BY <1>2, <1>3, <1>4, <1>6 DEF Within, UNUSED, TERMINATED
<1> QED
  BY <1>6, <1>7, <1>8 DEF x

(* A slot taken or given up that is neither queued nor current.            *)
LEMMA ClearedKeeps ==
  ASSUME NEW s, SchedInv(s), NEW p \in Procs, p # s.current, p \notin Queued(s),
         NEW st \in {UNUSED, READY}, NEW slice \in TimeSlices \cup {KernelSlice, 0}
  PROVE  LET t == Cleared(s, p, st, slice)
         IN  /\ SchedInv(t) /\ NotBack(s, t) /\ Queued(t) = Queued(s) /\ t.current = s.current
             /\ \A x \in Procs \ {p} : t.state[x] = s.state[x]
<1> DEFINE t == Cleared(s, p, st, slice)
<1>1. /\ s \in SchedState /\ WellFormed(s)
      /\ s.state \in [Procs -> {UNUSED, RUNNING, READY, TERMINATED}]
      /\ s.next \in [Procs -> Procs \cup {NULL}]
  BY DEF SchedInv, QueueSound, SchedState
<1>2. /\ t.state = [s.state EXCEPT ![p] = st] /\ t.next = [s.next EXCEPT ![p] = NULL]
      /\ t.head = s.head /\ t.tail = s.tail /\ t.count = s.count /\ t.current = s.current
      /\ t \in SchedState
  BY <1>1 DEF Cleared, SchedState
<1> HIDE DEF t
<1>3. \A x \in Procs : x # p => t.next[x] = s.next[x] /\ t.state[x] = s.state[x]
  BY <1>1, <1>2
<1>4. Queued(s) \subseteq Procs
  BY <1>1, QueuedAreProcs
<1>5. WellFormed(t) /\ Queued(t) = Queued(s) /\ NotBack(s, t)
  BY <1>1, <1>2, <1>3, <1>4, SameQueue
<1>6. t.state[p] # RUNNING
  BY <1>1, <1>2 DEF UNUSED, READY, RUNNING
<1> QED
  BY <1>2, <1>3, <1>4, <1>5, <1>6 DEF SchedInv, QueueSound, t

LEMMA FreeSlotFree ==
  ASSUME FreeSlot(sched) # NULL
  PROVE  FreeSlot(sched) \in Procs \ {0} /\ sched.state[FreeSlot(sched)] = UNUSED
<1> DEFINE free == {p \in Procs \ {0} : sched.state[p] = UNUSED}
<1>1. free # {} /\ FreeSlot(sched) = CHOOSE p \in free : \A q \in free : p <= q
  BY DEF FreeSlot
<1>2. free \subseteq Nat
  BY Size
<1> HIDE DEF free
<1>3. FreeSlot(sched) \in free
  BY <1>1, <1>2, LeastNat
<1> QED
  BY <1>3 DEF free

(* What the scheduler's invariant and no overtaking ask of a step.         *)
Kept == SchedInv(sched)' /\ multitasking_enabled' \in BOOLEAN /\ NotBack(sched, sched')

LEMMA SchedStep ==
  ASSUME SchedInv(sched), multitasking_enabled \in BOOLEAN, [Next]_vars
  PROVE  Kept
<1>0. sched \in SchedState /\ WellFormed(sched) /\ sched.current \in Procs /\ NotBack(sched, sched)
  BY QueuedAreProcs DEF SchedInv, QueueSound
<1>1. CASE process_create
  <2>1. PICK slice \in TimeSlices : sched' = Cleared(sched, FreeSlot(sched), READY, slice)
    BY <1>1 DEF process_create
  <2>2. FreeSlot(sched) \in Procs \ {0} /\ sched.state[FreeSlot(sched)] = UNUSED
    BY <1>1, FreeSlotFree DEF process_create
  <2>3. FreeSlot(sched) # sched.current /\ FreeSlot(sched) \notin Queued(sched)
    BY <2>2, <1>0 DEF SchedInv, QueueSound, UNUSED, READY, RUNNING
  <2>4. SchedInv(sched') /\ NotBack(sched, sched')
    BY <2>1, <2>2, <2>3, ClearedKeeps
  <2> QED
    BY <1>1, <2>4 DEF process_create, Kept
<1>2. ASSUME NEW p \in Procs, sched.state[p] = READY, p \notin Queued(sched), scheduler_add_process(p)
      PROVE  Kept
  BY <1>2, AddKeeps DEF scheduler_add_process, Kept
<1>3. ASSUME NEW p \in Procs \ {0}, scheduler_remove_process(p) PROVE Kept
  BY <1>3, RemoveKeeps DEF scheduler_remove_process, Kept
<1>4. CASE scheduler_tick
  BY <1>4, TickKeeps DEF scheduler_tick, Kept
<1>5. CASE scheduler_yield
  BY <1>5, InvBeforeSchedule, ScheduleSound DEF scheduler_yield, Kept
<1>6. CASE process_exit
  BY <1>6, ExitKeeps DEF process_exit, Kept
<1>7. ASSUME NEW p \in Procs, p \notin Queued(sched), p # sched.current, process_destroy(p)
      PROVE  Kept
  <2>1. sched' = Cleared(sched, p, UNUSED, 0)
    BY <1>7 DEF process_destroy
  <2>2. SchedInv(sched') /\ NotBack(sched, sched')
    BY <1>7, <2>1, ClearedKeeps
  <2> QED
    BY <1>7, <2>2 DEF process_destroy, Kept
<1>8. CASE SetMultitasking
  BY <1>0, <1>8 DEF SetMultitasking, Kept
<1>9. CASE UNCHANGED vars
  BY <1>0, <1>9 DEF vars, Kept
<1> QED
  BY <1>1, <1>2, <1>3, <1>4, <1>5, <1>6, <1>7, <1>8, <1>9 DEF Next

-----------------------------------------------------------------------------
(* Under the callers of Process, every step is one of Scheduler's.         *)
QueueInv == /\ SchedInv(sched) /\ multitasking_enabled \in BOOLEAN
            /\ created \subseteq Procs \ {0}

LEMMA QueueInit == ProcInit => QueueInv
<1> SUFFICES ASSUME ProcInit PROVE QueueInv
  OBVIOUS
<1> DEFINE s == SchedInit
<1>1. sched = s /\ multitasking_enabled = FALSE /\ created = {}
  BY DEF ProcInit, Init
<1>2. /\ s \in SchedState /\ s.head = NULL /\ s.tail = NULL /\ s.count = 0 /\ s.current = 0
      /\ \A p \in Procs : s.state[p] = IF p = 0 THEN RUNNING ELSE UNUSED
  <2>1. 0 \in 0 .. MAX_PROCESSES /\ 0 \in Procs
    BY Size DEF N
  <2> QED
    BY <2>1 DEF SchedInit, SchedState
<1> HIDE DEF s
<1>3. Line(s, [i \in 0 .. 0 - 1 |-> 0], 0)
  BY <1>2, Size DEF Line
<1>4. WellFormed(s) /\ Queued(s) = {}
  <2> DEFINE q == [i \in 0 .. 0 - 1 |-> 0]
  <2> HIDE DEF q
  <2>1. WellFormed(s) /\ Queued(s) = {q[i] : i \in 0 .. 0 - 1}
    BY <1>3, LineChain DEF q
  <2> QED
    BY <2>1
<1> QED
  BY <1>1, <1>2, <1>4, Size DEF QueueInv, SchedInv, QueueSound, RUNNING, UNUSED

LEMMA ProcSteps ==
  ASSUME QueueInv, [ProcNext]_allVars
  PROVE  [Next]_vars /\ created' \subseteq Procs \ {0}
<1>1. CASE ProcCreate
  <2>1. process_create /\ (created' = created \/ created' = created \cup {FreeSlot(sched)})
    BY <1>1 DEF ProcCreate, CreateFailsEarly, CreateFailsAtUserStack, CreateSucceeds, TakeSlot
  <2>2. FreeSlot(sched) \in Procs \ {0}
    BY <2>1, FreeSlotFree DEF process_create
  <2> QED
    BY <2>1, <2>2 DEF Next, QueueInv
<1>2. CASE ScheduleOnly
  <2>1. created \subseteq Procs \ {0} /\ created' = created
    BY <1>2 DEF QueueInv, ScheduleOnly, procVars
  <2>2. Next
    BY <1>2, <2>1 DEF ScheduleOnly, Next
  <2> QED
    BY <2>1, <2>2
<1>3. ASSUME NEW p \in created, Detached(p), DestroyProcess(p)
      PROVE  Next /\ created' \subseteq Procs \ {0}
  BY <1>3 DEF QueueInv, Detached, DestroyProcess, Next
<1>4. CASE UNCHANGED allVars
  BY <1>4 DEF allVars, procVars, vars, QueueInv
<1> QED
  BY <1>1, <1>2, <1>3, <1>4 DEF ProcNext

LEMMA QueueNext == QueueInv /\ [ProcNext]_allVars => QueueInv' /\ NotBack(sched, sched')
<1> SUFFICES ASSUME QueueInv, [ProcNext]_allVars PROVE QueueInv' /\ NotBack(sched, sched')
  OBVIOUS
<1>1. [Next]_vars /\ created' \subseteq Procs \ {0}
  BY ProcSteps
<1>2. Kept
  BY <1>1, SchedStep DEF QueueInv
<1> QED
  BY <1>1, <1>2 DEF Kept, QueueInv

LEMMA QueueInvHolds == ProcSpec => []QueueInv
<1> QED
  BY QueueInit, QueueNext, PTL DEF ProcSpec

(* No order of creations, adds, removals, ticks, yields, exits and         *)
(* destructions of detached processes damages the intrusive list of        *)
(* scheduler.c, whatever the number of slots. *)
THEOREM ListUndamaged == ProcSpec => []QueueWellFormed
<1>1. QueueInv => QueueWellFormed
  BY DEF QueueInv, SchedInv, QueueSound, QueueWellFormed
<1> QED
  BY <1>1, QueueInvHolds, PTL

(* scheduler_schedule and process_exit leave one running process, the      *)
(* current one, which does not also wait in the queue. *)
THEOREM OneRuns == ProcSpec => []RunningIsCurrent
<1>1. QueueInv => RunningIsCurrent
  BY DEF QueueInv, SchedInv, QueueSound, RunningIsCurrent
<1> QED
  BY <1>1, QueueInvHolds, PTL

(* The kernel is current or queued, so an exit always finds somebody to    *)
(* run: the branch of scheduler_schedule for an idle processor is dead. *)
THEOREM KernelNeverLost == ProcSpec => []KernelSchedulable
<1>1. QueueInv => KernelSchedulable
  BY Size DEF QueueInv, SchedInv, QueueSound, KernelSchedulable, Running
<1> QED
  BY <1>1, QueueInvHolds, PTL

(* Nobody who stays in the queue moves back in it: round robin. *)
THEOREM NobodyOvertakes == ProcSpec => NoOvertaking
<1>1. QueueInv /\ [ProcNext]_allVars =>
          [\A p \in Queued(sched) \cap Queued(sched') : Place(sched', p) <= Place(sched, p)]_vars
  BY QueueNext DEF NotBack
<1> QED
  BY <1>1, QueueInvHolds, PTL DEF ProcSpec, NoOvertaking

-----------------------------------------------------------------------------
(* The frames process_create asks for.                                     *)
Parts == DOMAIN NoMemory

LEMMA FieldsOnce ==
  /\ Parts = {"page_directory", "kernel_stack", "user_stack", "page_table"}
  /\ \A f \in Parts : \E i \in 1 .. 4 : Fields[i] = f
  /\ \A i \in 1 .. 4 : Fields[i] \in Parts
  /\ \A i, j \in 1 .. 4 : Fields[i] = Fields[j] => i = j
  /\ Fields[1] = "page_directory" /\ Fields[2] = "kernel_stack" /\ Fields[3] = "user_stack"
<1>1. Parts = {"page_directory", "kernel_stack", "user_stack", "page_table"}
  BY DEF Parts, NoMemory
<1>2. /\ Fields[1] = "page_directory" /\ Fields[2] = "kernel_stack"
      /\ Fields[3] = "user_stack" /\ Fields[4] = "page_table"
  BY DEF Fields
<1>3. \A i \in 1 .. 4 : i = 1 \/ i = 2 \/ i = 3 \/ i = 4
  OBVIOUS
<1> QED
  BY <1>1, <1>2, <1>3

Asked(p) == IF AllocFails(p) THEN p ELSE AfterAlloc(p)

Asks(f) == f = [i \in 0 .. 4 |-> IF i = 0 THEN pmm
                                 ELSE IF AllocFails(f[i - 1]) THEN f[i - 1] ELSE AfterAlloc(f[i - 1])]

LEMMA PmmSteps ==
  /\ PmmAfter(0) = pmm
  /\ \A i \in 1 .. 4 : PmmAfter(i) = Asked(PmmAfter(i - 1))
<1> DEFINE a == Asked(pmm)
           b == Asked(a)
           c == Asked(b)
           d == Asked(c)
           g == [i \in 0 .. 4 |-> IF i = 0 THEN pmm ELSE IF i = 1 THEN a
                                  ELSE IF i = 2 THEN b ELSE IF i = 3 THEN c ELSE d]
<1>1. /\ a = Asked(pmm) /\ b = Asked(a) /\ c = Asked(b) /\ d = Asked(c)
      /\ g[0] = pmm /\ g[1] = a /\ g[2] = b /\ g[3] = c /\ g[4] = d
      /\ g = [i \in 0 .. 4 |-> g[i]]
  OBVIOUS
<1> HIDE DEF a, b, c, d, g
<1>2. \A i \in 1 .. 4 : i = 1 \/ i = 2 \/ i = 3 \/ i = 4
  OBVIOUS
<1>3. \A i \in 1 .. 4 : g[i] = Asked(g[i - 1])
  BY <1>1, <1>2
<1>4. \A i \in 0 .. 4 : g[i] = IF i = 0 THEN pmm ELSE Asked(g[i - 1])
  BY <1>1, <1>3
<1>5. Asks(g)
  <2>1. g = [i \in 0 .. 4 |-> IF i = 0 THEN pmm ELSE Asked(g[i - 1])]
    BY <1>1, <1>4
  <2> QED
    BY <2>1 DEF Asks, Asked
<1> DEFINE f == CHOOSE f : Asks(f)
<1>6. Asks(f)
  BY <1>5
<1>7. \A n \in 0 .. 4 : PmmAfter(n) = f[n]
  BY DEF PmmAfter, Asks
<1>8. f[0] = pmm /\ \A i \in 1 .. 4 : f[i] = Asked(f[i - 1])
  <2> HIDE DEF f
  <2>1. f = [i \in 0 .. 4 |-> IF i = 0 THEN pmm ELSE Asked(f[i - 1])]
    BY <1>6 DEF Asks, Asked
  <2>2. \A i \in 1 .. 4 : i # 0 /\ i \in 0 .. 4
    OBVIOUS
  <2> QED
    BY <2>1, <2>2
<1> HIDE DEF f
<1> QED
  BY <1>7, <1>8

(* The i-th frame asked for, if it is granted. *)
Taken(i) == AllocFrame(PmmAfter(i - 1))

(* The first n requests were granted: n frames that were free, all         *)
(* different, and nothing else.                                            *)
Got(n) == /\ PmmSound(PmmAfter(n))
          /\ PmmAfter(n).bitmap = pmm.bitmap \cup {Taken(i) : i \in 1 .. n}
          /\ \A i \in 1 .. n : Taken(i) \in Frames \ pmm.bitmap
          /\ \A i, j \in 1 .. n : Taken(i) = Taken(j) => i = j

LEMMA GetOne ==
  ASSUME NEW n \in 0 .. 3, Got(n), ~ AllocFails(PmmAfter(n))
  PROVE  Got(n + 1)
<1> DEFINE p == PmmAfter(n)
           x == Taken(n + 1)
<1>1. x = AllocFrame(p)
  BY DEF Taken
<1>2. PmmAfter(n + 1) = AfterAlloc(p)
  BY PmmSteps DEF Asked
<1>3. PmmSound(p) /\ ~ AllocFails(p)
  BY DEF Got
<1> HIDE DEF p, x
<1>4. x \in Frames \ p.bitmap /\ PmmSound(AfterAlloc(p))
  BY <1>1, <1>3, AllocOnSound, AllocSound
<1>5. AfterAlloc(p).bitmap = p.bitmap \cup {x}
  BY <1>1 DEF AfterAlloc
<1>6. p.bitmap = pmm.bitmap \cup {Taken(i) : i \in 1 .. n}
  BY DEF Got, p
<1>7. \A i \in 1 .. n + 1 : i \in 1 .. n \/ (i = n + 1 /\ Taken(i) = x)
  BY DEF x
<1>8. {Taken(i) : i \in 1 .. n + 1} = {Taken(i) : i \in 1 .. n} \cup {x}
  <2>1. n + 1 \in 1 .. n + 1 /\ 1 .. n \subseteq 1 .. n + 1
    OBVIOUS
  <2> QED
    BY <1>7, <2>1 DEF x
<1>9. \A i \in 1 .. n + 1 : Taken(i) \in Frames \ pmm.bitmap
  BY <1>4, <1>6, <1>7 DEF Got
<1>10. \A i \in 1 .. n : Taken(i) # x
  BY <1>4, <1>6
<1>11. \A i, j \in 1 .. n + 1 : Taken(i) = Taken(j) => i = j
  BY <1>7, <1>10 DEF Got
<1> QED
  BY <1>2, <1>4, <1>5, <1>6, <1>8, <1>9, <1>11 DEF Got

LEMMA GetAll ==
  ASSUME PmmSound(pmm), NEW n \in 0 .. 4, Granted(n)
  PROVE  Got(n)
<1>1. Got(0)
  BY PmmSteps DEF Got
<1>2. \A i \in 0 .. n - 1 : ~ AllocFails(PmmAfter(i))
  BY DEF Granted
<1>3. n >= 1 => Got(1)
  <2>1. n >= 1 => ~ AllocFails(PmmAfter(0))
    BY <1>2
  <2>2. ~ AllocFails(PmmAfter(0)) => Got(0 + 1)
    BY <1>1, GetOne
  <2> QED
    BY <2>1, <2>2
<1>4. n >= 2 => Got(2)
  <2>1. n >= 2 => ~ AllocFails(PmmAfter(1)) /\ Got(1)
    BY <1>2, <1>3
  <2>2. Got(1) /\ ~ AllocFails(PmmAfter(1)) => Got(1 + 1)
    BY GetOne
  <2> QED
    BY <2>1, <2>2
<1>5. n >= 3 => Got(3)
  <2>1. n >= 3 => ~ AllocFails(PmmAfter(2)) /\ Got(2)
    BY <1>2, <1>4
  <2>2. Got(2) /\ ~ AllocFails(PmmAfter(2)) => Got(2 + 1)
    BY GetOne
  <2> QED
    BY <2>1, <2>2
<1>6. n >= 4 => Got(4)
  <2>1. n >= 4 => ~ AllocFails(PmmAfter(3)) /\ Got(3)
    BY <1>2, <1>5
  <2>2. Got(3) /\ ~ AllocFails(PmmAfter(3)) => Got(3 + 1)
    BY GetOne
  <2> QED
    BY <2>1, <2>2
<1>7. n = 0 \/ n = 1 \/ n = 2 \/ n = 3 \/ n = 4
  OBVIOUS
<1> QED
  BY <1>1, <1>3, <1>4, <1>5, <1>6, <1>7

(* Each field of the block names the frame taken for it, or none.          *)
LEMMA MemNames ==
  ASSUME NEW n \in 0 .. 4, Got(n)
  PROVE  /\ MemAfter(n) \in [Parts -> Nat]
         /\ \A i \in 1 .. n : MemAfter(n)[Fields[i]] = AddrOf(Taken(i))
         /\ \A f \in Parts : MemAfter(n)[f] # 0 =>
                \E i \in 1 .. n : f = Fields[i] /\ MemAfter(n)[f] = AddrOf(Taken(i))
<1> DEFINE m == MemAfter(n)
           at(f) == CHOOSE i \in 1 .. n : Fields[i] = f
<1>0. 1 .. n \subseteq 1 .. 4
  OBVIOUS
<1>1. m = [f \in Parts |-> IF \E i \in 1 .. n : Fields[i] = f THEN AddrOf(Taken(at(f))) ELSE 0]
  BY DEF MemAfter, Parts, Taken
<1>2. \A i \in 1 .. n : at(Fields[i]) = i
  BY <1>0, FieldsOnce
<1>3. \A i \in 1 .. n : AddrOf(Taken(i)) \in Nat
  BY FrameNamed DEF Got
<1> HIDE DEF m, at
<1>4. ASSUME NEW f \in Parts
      PROVE  \/ \E i \in 1 .. n : Fields[i] = f /\ m[f] = AddrOf(Taken(i))
             \/ m[f] = 0 /\ ~ \E i \in 1 .. n : Fields[i] = f
  BY <1>1, <1>2
<1>5. DOMAIN m = Parts /\ m = [f \in Parts |-> m[f]]
  BY <1>1
<1>6. m \in [Parts -> Nat]
  BY <1>3, <1>4, <1>5
<1>7. \A i \in 1 .. n : m[Fields[i]] = AddrOf(Taken(i))
  BY <1>0, <1>1, <1>2, FieldsOnce
<1> QED
  BY <1>4, <1>6, <1>7 DEF m

-----------------------------------------------------------------------------
(* Whose the frames are: b is a bitmap, m the memory fields of the blocks, *)
(* C the processes somebody holds.                                         *)
Backs(b, a) == \E i \in b \ VmmInit.bitmap : a = AddrOf(i)

Owners(b, m, C) ==
    /\ b \subseteq Frames /\ VmmInit.bitmap \subseteq b
    /\ \A p \in C, f \in Parts : m[p][f] # 0 => Backs(b, m[p][f])
    /\ \A p \in C : m[p].page_directory # 0 /\ m[p].kernel_stack # 0 /\ m[p].user_stack # 0
    /\ \A p, q \in C, f, g \in Parts : m[p][f] # 0 /\ m[p][f] = m[q][g] => p = q /\ f = g

LEMMA AddrOnce ==
  ASSUME NEW i \in Frames, NEW j \in Frames, AddrOf(i) = AddrOf(j)
  PROVE  i = j
<1>1. FrameOf(AddrOf(i)) = i /\ FrameOf(AddrOf(j)) = j
  BY FrameNamed
<1> QED
  BY <1>1

LEMMA AddrNotNull ==
  ASSUME NEW i \in Frames
  PROVE  AddrOf(i) # 0 /\ AddrOf(i) \in Nat
<1>1. AddrOf(i) \in Nat /\ AddrOf(i) >= MemoryStart
  BY FrameNamed
<1> QED
  BY <1>1, PmmAssumption

(* pmm_free_frame, given the address of a frame. *)
LEMMA FreeOne ==
  ASSUME NEW p, PmmSound(p), NEW i \in Frames
  PROVE  PmmSound(AfterFree(p, AddrOf(i))) /\ AfterFree(p, AddrOf(i)).bitmap = p.bitmap \ {i}
<1>1. AddrOf(i) \in Nat /\ FrameOf(AddrOf(i)) = i /\ Managed(AddrOf(i))
  BY FrameNamed
<1>2. PmmSound(AfterFree(p, AddrOf(i)))
  BY <1>1, FreeSound
<1>3. AfterFree(p, AddrOf(i)).bitmap = p.bitmap \ {i}
  BY <1>1 DEF AfterFree
<1> QED
  BY <1>2, <1>3

(* vmm_init finds the two frames it takes. *)
LEMMA BootSound == PmmSound(VmmInit)
<1> DEFINE p == PmmInit
           q == AfterAlloc(p)
<1>1. PmmSound(p) /\ p.bitmap = BitmapFrames /\ BitmapFrames \in SUBSET Frames
  BY InitSound DEF PmmInit, BitmapFrames
<1>2. Cardinality(Frames \ BitmapFrames) >= 2 /\ Cardinality(BitmapFrames) \in Nat
  BY <1>1, FramesFinite, ProcessAssumption, PmmAssumption
<1>3. p.free_frames >= 2 /\ p.free_frames \in Nat
  BY <1>1, <1>2 DEF PmmSound, PmmState, CountExact
<1>4. ~ AllocFails(p)
  <2>1. p.bitmap # Frames
    BY <1>1, <1>2, FS_EmptySet
  <2> HIDE DEF p
  <2> QED
    BY <1>1, <2>1, AllocOnSound
<1>5. PmmSound(q) /\ q.free_frames = p.free_frames - 1
  <2>1. q.free_frames = p.free_frames - 1
    BY DEF AfterAlloc
  <2> HIDE DEF p
  <2> QED
    BY <1>1, <1>4, <2>1, AllocSound
<1> HIDE DEF p, q
<1>6. ~ AllocFails(q)
  <2>1. q.free_frames >= 1 /\ q.free_frames = Cardinality(Frames \ q.bitmap)
    BY <1>3, <1>5 DEF PmmSound, CountExact
  <2>2. q.bitmap # Frames
    BY <2>1, FS_EmptySet
  <2> QED
    BY <1>5, <2>2, AllocOnSound
<1>7. PmmSound(AfterAlloc(q))
  BY <1>5, <1>6, AllocSound
<1> QED
  BY <1>7 DEF VmmInit, p, q

(* More frames are taken, and what changes is not somebody's. *)
LEMMA OwnersElsewhere ==
  ASSUME NEW b, NEW m, NEW C, Owners(b, m, C), NEW c, b \subseteq c, c \subseteq Frames,
         NEW k, \A p \in C : k[p] = m[p]
  PROVE  Owners(c, k, C)
<1>1. VmmInit.bitmap \subseteq c
  BY DEF Owners
<1>2. ASSUME NEW p \in C, NEW f \in Parts, k[p][f] # 0 PROVE Backs(c, k[p][f])
  BY <1>2 DEF Owners, Backs
<1> QED
  BY <1>1, <1>2 DEF Owners

(* A new owner, with three or four frames that were free. *)
LEMMA OwnersAdd ==
  ASSUME PmmSound(pmm), Owners(pmm.bitmap, mem, created), NEW n \in {3, 4}, Got(n),
         NEW s, s \notin created, NEW k, k[s] = MemAfter(n), \A p \in created : k[p] = mem[p]
  PROVE  Owners(PmmAfter(n).bitmap, k, created \cup {s})
<1> DEFINE b == pmm.bitmap
           c == PmmAfter(n).bitmap
           m == MemAfter(n)
<1>1. /\ c = b \cup {Taken(i) : i \in 1 .. n} /\ c \subseteq Frames /\ b \subseteq Frames
      /\ \A i \in 1 .. n : Taken(i) \in Frames \ b
      /\ \A i, j \in 1 .. n : Taken(i) = Taken(j) => i = j
  BY DEF Got, PmmSound, PmmState
<1>2. /\ \A i \in 1 .. n : m[Fields[i]] = AddrOf(Taken(i))
      /\ \A f \in Parts : m[f] # 0 => \E i \in 1 .. n : f = Fields[i] /\ m[f] = AddrOf(Taken(i))
  BY MemNames
<1> HIDE DEF b, c, m
<1>3. VmmInit.bitmap \subseteq b /\ VmmInit.bitmap \subseteq c
  BY <1>1 DEF Owners, b
<1>4. ASSUME NEW f \in Parts, m[f] # 0 PROVE Backs(c, m[f])
  BY <1>1, <1>2, <1>3, <1>4 DEF Backs
<1>5. m.page_directory # 0 /\ m.kernel_stack # 0 /\ m.user_stack # 0
  <2>1. 1 \in 1 .. n /\ 2 \in 1 .. n /\ 3 \in 1 .. n
    OBVIOUS
  <2> QED
    BY <1>1, <1>2, <2>1, AddrNotNull, FieldsOnce
<1>6. ASSUME NEW f \in Parts, NEW g \in Parts, m[f] # 0, m[f] = m[g] PROVE f = g
  <2>1. PICK i \in 1 .. n : f = Fields[i] /\ m[f] = AddrOf(Taken(i))
    BY <1>2, <1>6
  <2>2. PICK j \in 1 .. n : g = Fields[j] /\ m[g] = AddrOf(Taken(j))
    BY <1>2, <1>6
  <2>3. Taken(i) = Taken(j)
    BY <1>1, <1>6, <2>1, <2>2, AddrOnce
  <2> QED
    BY <1>1, <2>1, <2>2, <2>3
(* No old owner has a frame that was free. *)
<1>7. ASSUME NEW p \in created, NEW f \in Parts, NEW g \in Parts, m[f] # 0 PROVE m[f] # mem[p][g]
  <2>1. PICK i \in 1 .. n : m[f] = AddrOf(Taken(i))
    BY <1>2, <1>7
  <2>2. SUFFICES ASSUME m[f] = mem[p][g] PROVE FALSE
    OBVIOUS
  <2>3. PICK j \in b : mem[p][g] = AddrOf(j)
    BY <1>7, <2>2 DEF Owners, Backs, b
  <2>4. Taken(i) = j
    BY <1>1, <2>1, <2>2, <2>3, AddrOnce
  <2> QED
    BY <1>1, <2>4
<1>8. \A p \in created, f \in Parts : k[p][f] # 0 => Backs(c, k[p][f])
  BY <1>1 DEF Owners, Backs, b
<1>9. \A p \in created \cup {s} : k[p].page_directory # 0 /\ k[p].kernel_stack # 0 /\ k[p].user_stack # 0
  BY <1>5 DEF Owners, m
<1>10. ASSUME NEW p \in created \cup {s}, NEW q \in created \cup {s}, NEW f \in Parts, NEW g \in Parts,
              k[p][f] # 0, k[p][f] = k[q][g]
       PROVE  p = q /\ f = g
  <2>1. CASE p = s /\ q = s
    BY <1>6, <1>10, <2>1 DEF m
  <2>2. CASE p = s /\ q \in created
    BY <1>7, <1>10, <2>2 DEF m
  <2>3. CASE p \in created /\ q = s
    BY <1>7, <1>10, <2>3 DEF m
  <2>4. CASE p \in created /\ q \in created
    BY <1>10, <2>4 DEF Owners
  <2> QED
    BY <2>1, <2>2, <2>3, <2>4
<1>11. \A p \in created \cup {s}, f \in Parts : k[p][f] # 0 => Backs(c, k[p][f])
  BY <1>4, <1>8 DEF m
<1> QED
  BY <1>1, <1>3, <1>9, <1>10, <1>11 DEF Owners, c

(* An owner goes, and the frames of its stacks with it. *)
LEMMA OwnersRemove ==
  ASSUME NEW b, NEW m, NEW C, Owners(b, m, C), NEW p \in C,
         NEW i \in Frames, m[p].kernel_stack = AddrOf(i),
         NEW j \in Frames, m[p].user_stack = AddrOf(j),
         NEW k, \A q \in C \ {p} : k[q] = m[q]
  PROVE  Owners((b \ {i}) \ {j}, k, C \ {p})
<1> DEFINE c == (b \ {i}) \ {j}
<1>1. b \subseteq Frames /\ VmmInit.bitmap \subseteq b
  BY DEF Owners
<1>2. "kernel_stack" \in Parts /\ "user_stack" \in Parts
  BY FieldsOnce
<1>3. i \notin VmmInit.bitmap /\ j \notin VmmInit.bitmap
  <2>1. Backs(b, AddrOf(i)) /\ Backs(b, AddrOf(j))
    BY <1>2 DEF Owners
  <2> QED
    BY <1>1, <2>1, AddrOnce DEF Backs
<1>4. ASSUME NEW q \in C \ {p}, NEW f \in Parts, k[q][f] # 0 PROVE Backs(c, k[q][f])
  <2>1. m[q][f] = k[q][f] /\ m[q][f] # 0
    BY <1>4
  <2>2. PICK h \in b \ VmmInit.bitmap : m[q][f] = AddrOf(h)
    BY <2>1 DEF Owners, Backs
  <2>3. m[q][f] # AddrOf(i) /\ m[q][f] # AddrOf(j)
    BY <1>2, <2>1 DEF Owners
  <2>4. h \in c
    BY <2>2, <2>3
  <2> QED
    BY <2>1, <2>2, <2>4 DEF Backs
<1>5. c \subseteq Frames /\ VmmInit.bitmap \subseteq c
  BY <1>1, <1>3
<1>6. \A q \in C \ {p} : k[q].page_directory # 0 /\ k[q].kernel_stack # 0 /\ k[q].user_stack # 0
  BY DEF Owners
<1>7. \A q, r \in C \ {p}, f, g \in Parts : k[q][f] # 0 /\ k[q][f] = k[r][g] => q = r /\ f = g
  BY DEF Owners
<1> HIDE DEF c
<1>8. Owners(c, k, C \ {p})
  BY <1>4, <1>5, <1>6, <1>7 DEF Owners
<1> QED
  BY <1>8 DEF c

-----------------------------------------------------------------------------
(* What runs or waits to run is somebody's, or the kernel.                 *)
Attached == /\ \A p \in created : sched.state[p] # UNUSED
            /\ Queued(sched) \cup {sched.current} \subseteq created \cup {0}

LEMMA SlotNotHeld ==
  ASSUME QueueInv, Attached, FreeSlot(sched) # NULL, NEW st \in {UNUSED, READY}, NEW slice \in TimeSlices,
         sched' = Cleared(sched, FreeSlot(sched), st, slice)
  PROVE  /\ FreeSlot(sched) \in Procs \ {0} /\ FreeSlot(sched) \notin created
         /\ Queued(sched') = Queued(sched) /\ sched'.current = sched.current
         /\ \A x \in Procs \ {FreeSlot(sched)} : sched'.state[x] = sched.state[x]
<1>1. /\ FreeSlot(sched) \in Procs \ {0} /\ sched.state[FreeSlot(sched)] = UNUSED
  BY FreeSlotFree
<1>2. FreeSlot(sched) # sched.current /\ FreeSlot(sched) \notin Queued(sched)
  BY <1>1 DEF QueueInv, SchedInv, QueueSound, UNUSED, READY, RUNNING
<1> QED
  BY <1>1, <1>2, ClearedKeeps DEF QueueInv, Attached

LEMMA AttachedInit == ProcInit => Attached
<1> SUFFICES ASSUME ProcInit PROVE Attached
  OBVIOUS
<1>1. Queued(sched) = {} /\ sched.current = 0 /\ created = {}
  <2>1. QueueInv /\ created = {} /\ sched = SchedInit
    BY QueueInit DEF ProcInit, Init
  <2>2. sched \in SchedState /\ WellFormed(sched) /\ sched.count = 0 /\ sched.current = 0
    BY <2>1 DEF QueueInv, SchedInv, QueueSound, SchedInit
  <2>3. PICK q : Line(sched, q, 0)
    BY <2>2, ChainLine
  <2>4. Queued(sched) = {q[i] : i \in 0 .. 0 - 1}
    BY <2>3, LineChain
  <2> QED
    BY <2>1, <2>2, <2>4
<1> QED
  BY <1>1 DEF Attached

LEMMA AttachedNext ==
  ASSUME QueueInv, Attached, [ProcNext]_allVars
  PROVE  Attached'
<1>0. created \subseteq Procs \ {0} /\ SchedInv(sched)
  BY DEF QueueInv
<1>1. CASE ProcCreate
  <2> DEFINE s == FreeSlot(sched)
  <2>1. process_create /\ (created' = created \/ created' = created \cup {s})
    BY <1>1 DEF ProcCreate, CreateFailsEarly, CreateFailsAtUserStack, CreateSucceeds, TakeSlot
  <2>2. PICK slice \in TimeSlices : s # NULL /\ sched' = Cleared(sched, s, READY, slice)
    BY <2>1 DEF process_create
  <2>3. /\ s \in Procs \ {0} /\ s \notin created
        /\ Queued(sched') = Queued(sched) /\ sched'.current = sched.current
        /\ \A x \in Procs \ {s} : sched'.state[x] = sched.state[x]
    BY <2>2, SlotNotHeld
  <2>4. sched'.state[s] = READY
    <3>1. s \in Procs /\ sched.state \in [Procs -> {UNUSED, RUNNING, READY, TERMINATED}]
      BY <1>0, <2>3 DEF SchedInv, QueueSound, SchedState
    <3> HIDE DEF s
    <3> QED
      BY <2>2, <3>1, <1>0 DEF Cleared, SchedInv, QueueSound, SchedState
  <2> HIDE DEF s
  <2>5. \A p \in created' : sched'.state[p] # UNUSED
    BY <1>0, <2>1, <2>3, <2>4 DEF Attached, UNUSED, READY
  <2>6. Queued(sched') \cup {sched'.current} \subseteq created' \cup {0}
    BY <2>1, <2>3 DEF Attached
  <2> QED
    BY <2>5, <2>6 DEF Attached
<1>2. CASE ScheduleOnly
  <2>0. created' = created
    BY <1>2 DEF ScheduleOnly, procVars
  <2>1. ASSUME NEW p \in created, sched.state[p] = READY, p \notin Queued(sched), scheduler_add_process(p)
        PROVE  Attached'
    <3>1. p \in Procs
      BY <1>0
    <3>2. /\ Queued(sched') = Queued(sched) \cup {p}
          /\ sched'.state = sched.state /\ sched'.current = sched.current
      BY <1>0, <2>1, <3>1, AddKeeps DEF scheduler_add_process
    <3> QED
      BY <2>0, <3>2 DEF Attached
  <2>2. ASSUME Within(sched, sched') PROVE Attached'
    <3>1. Queued(sched') \cup {sched'.current} \subseteq created' \cup {0}
      BY <2>0, <2>2 DEF Attached, Within
    <3>2. \A p \in created' : sched'.state[p] # UNUSED
      BY <1>0, <2>0, <2>2 DEF Attached, Within
    <3> QED
      BY <3>1, <3>2 DEF Attached
  <2>3. ASSUME NEW p \in created, scheduler_remove_process(p) PROVE Within(sched, sched')
    BY <1>0, <2>3, RemoveKeeps DEF scheduler_remove_process
  <2>4. CASE scheduler_tick
    BY <1>0, <2>4, TickKeeps, <2>2 DEF scheduler_tick
  <2>5. CASE scheduler_yield
    BY <1>0, <2>5, InvBeforeSchedule, ScheduleSound, <2>2 DEF scheduler_yield
  <2>6. CASE process_exit
    BY <1>0, <2>6, ExitKeeps, <2>2 DEF process_exit
  <2>7. CASE SetMultitasking
    BY <2>0, <2>7 DEF SetMultitasking, Attached
  <2> QED
    BY <1>2, <2>1, <2>2, <2>3, <2>4, <2>5, <2>6, <2>7 DEF ScheduleOnly
<1>3. ASSUME NEW p \in created, Detached(p), DestroyProcess(p) PROVE Attached'
  <2>1. sched' = Cleared(sched, p, UNUSED, 0) /\ created' = created \ {p}
    BY <1>3 DEF DestroyProcess, process_destroy
  <2>2. p \in Procs /\ p \notin Queued(sched) /\ p # sched.current
    BY <1>0, <1>3 DEF Detached
  <2>3. /\ Queued(sched') = Queued(sched) /\ sched'.current = sched.current
        /\ \A x \in Procs \ {p} : sched'.state[x] = sched.state[x]
    BY <1>0, <2>1, <2>2, ClearedKeeps
  <2>4. Queued(sched') \cup {sched'.current} \subseteq created' \cup {0}
    BY <2>1, <2>2, <2>3 DEF Attached
  <2>5. \A x \in created' : sched'.state[x] # UNUSED
    BY <1>0, <2>1, <2>3 DEF Attached
  <2> QED
    BY <2>4, <2>5 DEF Attached
<1>4. CASE UNCHANGED allVars
  BY <1>4 DEF allVars, procVars, vars, Attached
<1> QED
  BY <1>1, <1>2, <1>3, <1>4 DEF ProcNext

-----------------------------------------------------------------------------
(* The whole invariant of Process.                                         *)
ProcInv == /\ QueueInv /\ Attached
           /\ PmmSound(pmm) /\ Owners(pmm.bitmap, mem, created)
           /\ mem \in [Procs -> [Parts -> Nat]]
           /\ pid \in [Procs -> 0 .. N - 1] /\ next_pid \in 1 .. N - 1

LEMMA ProcInvInit == ProcInit => ProcInv
<1> SUFFICES ASSUME ProcInit PROVE ProcInv
  OBVIOUS
<1>1. QueueInv /\ Attached
  BY QueueInit, AttachedInit
<1>2. PmmSound(pmm) /\ Owners(pmm.bitmap, mem, created)
  BY BootSound DEF ProcInit, Owners, PmmSound, PmmState
<1>3. mem \in [Procs -> [Parts -> Nat]] /\ pid \in [Procs -> 0 .. N - 1] /\ next_pid \in 1 .. N - 1
  <2>1. NoMemory \in [Parts -> Nat]
    BY DEF NoMemory, Parts
  <2> QED
    BY <2>1, Size DEF ProcInit
<1> QED
  BY <1>1, <1>2, <1>3 DEF ProcInv

LEMMA PidNext == ASSUME NEW n \in 1 .. N - 1 PROVE PidAfter(n) \in 1 .. N - 1
  BY Size DEF PidAfter, N

(* A creation, failed or not. *)
LEMMA CreateOwns ==
  ASSUME ProcInv, ProcCreate
  PROVE  /\ PmmSound(pmm)' /\ Owners(pmm.bitmap, mem, created)'
         /\ mem' \in [Procs -> [Parts -> Nat]]
         /\ pid' \in [Procs -> 0 .. N - 1] /\ next_pid' \in 1 .. N - 1
<1> DEFINE s == FreeSlot(sched)
<1>1. process_create
  BY DEF ProcCreate, CreateFailsEarly, CreateFailsAtUserStack, CreateSucceeds, TakeSlot
<1>2. s \in Procs \ {0} /\ s \notin created
  BY <1>1, SlotNotHeld DEF process_create, ProcInv
<1>3. PmmSound(pmm) /\ Owners(pmm.bitmap, mem, created) /\ created \subseteq Procs
  BY DEF ProcInv, QueueInv
(* What every creation does to the slot. *)
<1>4. ASSUME NEW n \in 0 .. 4, Granted(n), TakeSlot(MemAfter(n))
      PROVE  /\ Got(n) /\ PmmSound(PmmAfter(n))
             /\ mem' \in [Procs -> [Parts -> Nat]] /\ mem'[s] = MemAfter(n)
             /\ \A p \in created : mem'[p] = mem[p]
             /\ pid' \in [Procs -> 0 .. N - 1] /\ next_pid' \in 1 .. N - 1
  <2>1. Got(n)
    BY <1>3, <1>4, GetAll
  <2>2. MemAfter(n) \in [Parts -> Nat]
    BY <2>1, MemNames
  <2>3. /\ pid' = [pid EXCEPT ![s] = next_pid] /\ mem' = [mem EXCEPT ![s] = MemAfter(n)]
        /\ next_pid' = PidAfter(next_pid)
    BY <1>4 DEF TakeSlot
  <2>4. mem \in [Procs -> [Parts -> Nat]] /\ pid \in [Procs -> 0 .. N - 1] /\ next_pid \in 1 .. N - 1
    BY DEF ProcInv
  <2>5. next_pid \in 0 .. N - 1
    BY <2>4, Size
  <2> HIDE DEF s
  <2>6. pid' \in [Procs -> 0 .. N - 1] /\ next_pid' \in 1 .. N - 1
    BY <1>2, <2>3, <2>4, <2>5, PidNext
  <2>7. mem' \in [Procs -> [Parts -> Nat]] /\ mem'[s] = MemAfter(n) /\ \A p \in created : mem'[p] = mem[p]
    BY <1>2, <1>3, <2>2, <2>3, <2>4
  <2> QED
    BY <2>1, <2>6, <2>7 DEF Got
<1> HIDE DEF s
<1>5. ASSUME NEW n \in {0, 1}, CreateFailsEarly(n)
      PROVE  PmmSound(pmm)' /\ Owners(pmm.bitmap, mem, created)'
  <2>1. /\ n \in 0 .. 4 /\ Granted(n) /\ TakeSlot(MemAfter(n))
        /\ pmm' = PmmAfter(n) /\ created' = created
    BY <1>5 DEF CreateFailsEarly
  <2>2. pmm.bitmap \subseteq pmm'.bitmap /\ pmm'.bitmap \subseteq Frames
    BY <1>4, <2>1 DEF Got, PmmSound, PmmState
  <2> QED
    BY <1>3, <1>4, <2>1, <2>2, OwnersElsewhere
<1>6. ASSUME CreateFailsAtUserStack
      PROVE  PmmSound(pmm)' /\ Owners(pmm.bitmap, mem, created)'
  <2>1. /\ Granted(2) /\ TakeSlot(MemAfter(2)) /\ created' = created
        /\ pmm' = AfterFree(PmmAfter(2), MemAfter(2).kernel_stack)
    BY <1>6 DEF CreateFailsAtUserStack
  <2>2. Got(2) /\ PmmSound(PmmAfter(2)) /\ \A p \in created : mem'[p] = mem[p]
    BY <1>4, <2>1
  <2>3. MemAfter(2).kernel_stack = AddrOf(Taken(2)) /\ Taken(2) \in Frames \ pmm.bitmap
    BY <2>2, MemNames, FieldsOnce DEF Got
  <2>4. PmmSound(pmm') /\ pmm'.bitmap = PmmAfter(2).bitmap \ {Taken(2)}
    BY <2>1, <2>2, <2>3, FreeOne
  <2>5. pmm.bitmap \subseteq pmm'.bitmap /\ pmm'.bitmap \subseteq Frames
    BY <2>2, <2>3, <2>4 DEF Got, PmmSound, PmmState
  <2> QED
    BY <1>3, <2>1, <2>2, <2>4, <2>5, OwnersElsewhere
<1>7. ASSUME NEW n \in {3, 4}, CreateSucceeds(n)
      PROVE  PmmSound(pmm)' /\ Owners(pmm.bitmap, mem, created)'
  <2>1. /\ n \in 0 .. 4 /\ Granted(n) /\ TakeSlot(MemAfter(n))
        /\ pmm' = PmmAfter(n) /\ created' = created \cup {s}
    BY <1>7 DEF CreateSucceeds, s
  <2>2. /\ Got(n) /\ PmmSound(PmmAfter(n)) /\ mem'[s] = MemAfter(n)
        /\ \A p \in created : mem'[p] = mem[p]
    BY <1>4, <2>1
  <2>3. Owners(PmmAfter(n).bitmap, mem', created \cup {s})
    BY <1>2, <1>3, <2>2, OwnersAdd
  <2> QED
    BY <2>1, <2>2, <2>3
<1>8. \E n \in 0 .. 4 : Granted(n) /\ TakeSlot(MemAfter(n))
  BY DEF ProcCreate, CreateFailsEarly, CreateFailsAtUserStack, CreateSucceeds
<1> QED
  BY <1>4, <1>5, <1>6, <1>7, <1>8 DEF ProcCreate

(* A destruction. *)
LEMMA DestroyOwns ==
  ASSUME ProcInv, NEW p \in created, DestroyProcess(p)
  PROVE  /\ PmmSound(pmm)' /\ Owners(pmm.bitmap, mem, created)'
         /\ mem' \in [Procs -> [Parts -> Nat]]
         /\ pid' \in [Procs -> 0 .. N - 1] /\ next_pid' \in 1 .. N - 1
<1>1. /\ pmm' = AfterFree(AfterFree(pmm, mem[p].kernel_stack), mem[p].user_stack)
      /\ pid' = [pid EXCEPT ![p] = 0] /\ mem' = [mem EXCEPT ![p] = NoMemory]
      /\ created' = created \ {p} /\ next_pid' = next_pid
  BY DEF DestroyProcess
<1>2. /\ PmmSound(pmm) /\ Owners(pmm.bitmap, mem, created) /\ created \subseteq Procs
      /\ mem \in [Procs -> [Parts -> Nat]]
      /\ pid \in [Procs -> 0 .. N - 1] /\ next_pid \in 1 .. N - 1
  BY DEF ProcInv, QueueInv
<1>3. NoMemory \in [Parts -> Nat] /\ 0 \in 0 .. N - 1
  BY Size DEF NoMemory, Parts
<1>4. /\ mem' \in [Procs -> [Parts -> Nat]] /\ \A q \in created \ {p} : mem'[q] = mem[q]
      /\ pid' \in [Procs -> 0 .. N - 1] /\ next_pid' \in 1 .. N - 1
  BY <1>1, <1>2, <1>3
<1>5. pmm.bitmap \subseteq Frames /\ "kernel_stack" \in Parts /\ "user_stack" \in Parts
  BY <1>2, FieldsOnce DEF Owners
<1>6. PICK i \in Frames : mem[p].kernel_stack = AddrOf(i)
  BY <1>2, <1>5 DEF Owners, Backs
<1>7. PICK j \in Frames : mem[p].user_stack = AddrOf(j)
  BY <1>2, <1>5 DEF Owners, Backs
<1>8. PmmSound(AfterFree(pmm, AddrOf(i))) /\ AfterFree(pmm, AddrOf(i)).bitmap = pmm.bitmap \ {i}
  BY <1>2, FreeOne
<1>9. PmmSound(pmm') /\ pmm'.bitmap = (pmm.bitmap \ {i}) \ {j}
  BY <1>1, <1>6, <1>7, <1>8, FreeOne
<1>10. Owners((pmm.bitmap \ {i}) \ {j}, mem', created \ {p})
  BY <1>2, <1>4, <1>6, <1>7, OwnersRemove
<1> QED
  BY <1>1, <1>4, <1>9, <1>10

LEMMA ProcInvNext == ProcInv /\ [ProcNext]_allVars => ProcInv'
<1> SUFFICES ASSUME ProcInv, [ProcNext]_allVars PROVE ProcInv'
  OBVIOUS
<1>1. QueueInv' /\ Attached'
  BY QueueNext, AttachedNext DEF ProcInv
<1>2. CASE ProcCreate
  BY <1>1, <1>2, CreateOwns DEF ProcInv
<1>3. CASE UNCHANGED procVars
  BY <1>1, <1>3 DEF ProcInv, procVars
<1>4. ASSUME NEW p \in created, DestroyProcess(p) PROVE ProcInv'
  BY <1>1, <1>4, DestroyOwns DEF ProcInv
<1> QED
  BY <1>2, <1>3, <1>4 DEF ProcNext, ScheduleOnly, allVars

LEMMA ProcInvHolds == ProcSpec => []ProcInv
<1> QED
  BY ProcInvInit, ProcInvNext, PTL DEF ProcSpec

(* The queue, the numbers, the addresses and the allocator's record keep   *)
(* their types through failed and finished creations and destructions. *)
THEOREM ProcessTypes == ProcSpec => []ProcTypeOK
<1>1. ProcInv => ProcTypeOK
  BY DEF ProcInv, QueueInv, SchedInv, QueueSound, ProcTypeOK, TypeOK, Parts, N
<1> QED
  BY <1>1, ProcInvHolds, PTL

(* process_create and process_destroy never give one frame to two          *)
(* processes, nor the allocator's or the kernel's own, whichever           *)
(* allocations fail and however slots and frames are reused. *)
THEOREM NoFrameShared == ProcSpec => []FramesExclusive
<1>1. ASSUME ProcInv PROVE FramesExclusive
  <2>1. ASSUME NEW p \in created
        PROVE  /\ FramesOf(p) \subseteq pmm.bitmap \ VmmInit.bitmap
               /\ Cardinality(FramesOf(p)) >= 3
    <3>1. /\ \A f \in Parts : mem[p][f] # 0 => Backs(pmm.bitmap, mem[p][f])
          /\ mem[p].page_directory # 0 /\ mem[p].kernel_stack # 0 /\ mem[p].user_stack # 0
          /\ \A f, g \in Parts : mem[p][f] # 0 /\ mem[p][f] = mem[p][g] => f = g
          /\ pmm.bitmap \in SUBSET Frames
      BY <1>1 DEF ProcInv, Owners
    <3>2. FramesOf(p) \subseteq pmm.bitmap \ VmmInit.bitmap
      BY <3>1, FrameNamed DEF FramesOf, Backs, Parts
    <3> DEFINE a == FrameOf(mem[p].page_directory)
               b == FrameOf(mem[p].kernel_stack)
               c == FrameOf(mem[p].user_stack)
    <3>3. a \in FramesOf(p) /\ b \in FramesOf(p) /\ c \in FramesOf(p)
      BY <3>1, FieldsOnce DEF FramesOf, Parts
    <3>4. \A f, g \in Parts : mem[p][f] # 0 /\ mem[p][g] # 0
                                /\ FrameOf(mem[p][f]) = FrameOf(mem[p][g]) => f = g
      BY <3>1, FrameNamed DEF Backs
    <3>5. a # b /\ b # c /\ a # c
      BY <3>1, <3>4, FieldsOnce
    <3>6. IsFiniteSet(FramesOf(p)) /\ Cardinality(FramesOf(p)) \in Nat
      <4>1. FramesOf(p) \in SUBSET Frames
        BY <3>1, <3>2
      <4> QED
        BY <4>1, FramesFinite
    <3> HIDE DEF a, b, c
    <3>7. Cardinality({a, b, c}) = 3
      <4>1. IsFiniteSet({a}) /\ Cardinality({a}) = 1
        BY FS_Singleton
      <4>2. IsFiniteSet({a} \cup {b}) /\ Cardinality({a} \cup {b}) = 2
        BY <3>5, <4>1, FS_AddElement
      <4>3. Cardinality(({a} \cup {b}) \cup {c}) = 3
        BY <3>5, <4>2, FS_AddElement
      <4>4. ({a} \cup {b}) \cup {c} = {a, b, c}
        OBVIOUS
      <4> QED
        BY <4>3, <4>4
    <3>8. Cardinality({a, b, c}) <= Cardinality(FramesOf(p))
      <4>1. {a, b, c} \subseteq FramesOf(p)
        BY <3>3
      <4> QED
        BY <3>6, <4>1, FS_Subset
    <3> QED
      BY <3>2, <3>6, <3>7, <3>8
  <2>2. ASSUME NEW p \in created, NEW q \in created \ {p} PROVE FramesOf(p) \cap FramesOf(q) = {}
    <3> SUFFICES ASSUME NEW i \in FramesOf(p), i \in FramesOf(q) PROVE FALSE
      OBVIOUS
    <3>1. PICK f \in Parts : mem[p][f] # 0 /\ i = FrameOf(mem[p][f])
      BY DEF FramesOf, Parts
    <3>2. PICK g \in Parts : mem[q][g] # 0 /\ i = FrameOf(mem[q][g])
      BY DEF FramesOf, Parts
    <3>3. PICK j \in Frames : mem[p][f] = AddrOf(j)
      BY <1>1, <3>1 DEF ProcInv, Owners, Backs
    <3>4. PICK k \in Frames : mem[q][g] = AddrOf(k)
      BY <1>1, <3>2 DEF ProcInv, Owners, Backs
    <3>5. j = i /\ k = i
      BY <3>1, <3>2, <3>3, <3>4, FrameNamed
    <3>6. mem[p][f] = mem[q][g]
      BY <3>3, <3>4, <3>5
    <3> QED
      BY <1>1, <3>1, <3>6 DEF ProcInv, Owners
  <2> QED
    BY <2>1, <2>2 DEF FramesExclusive
<1> QED
  BY <1>1, ProcInvHolds, PTL

(* Whoever the scheduler may switch to was created, and its page directory *)
(* is in a frame that has not been given back. *)
THEOREM DirectoryOfNext == ProcSpec => []RunnableHasDirectory
<1>1. ASSUME ProcInv, NEW p \in (Queued(sched) \cup {sched.current}) \ {0}
      PROVE  p \in created /\ FrameOf(mem[p].page_directory) \in pmm.bitmap
  <2>1. p \in created
    BY <1>1 DEF ProcInv, Attached
  <2>2. "page_directory" \in Parts /\ pmm.bitmap \subseteq Frames
    BY <1>1, FieldsOnce DEF ProcInv, Owners
  <2>3. PICK i \in pmm.bitmap : mem[p].page_directory = AddrOf(i)
    BY <1>1, <2>1, <2>2 DEF ProcInv, Owners, Backs
  <2> QED
    BY <2>1, <2>2, <2>3, FrameNamed
<1>2. ProcInv => RunnableHasDirectory
  BY <1>1 DEF RunnableHasDirectory
<1> QED
  BY <1>2, ProcInvHolds, PTL
=============================================================================
