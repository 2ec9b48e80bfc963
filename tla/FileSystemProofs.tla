-------------------------- MODULE FileSystemProofs --------------------------
(***************************************************************************)
(* The RAM filesystem for tables of every size: whatever is created,       *)
(* written, copied, moved and deleted, its two tables tell one story,      *)
(* every block of memory is the content of one listed file, and the calls  *)
(* are operations on a tree of paths.                                      *)
(***************************************************************************)
EXTENDS FileSystem, FiniteSetTheorems, SequenceTheorems, WellFoundedInduction, TLAPS

-----------------------------------------------------------------------------
(* Lists of a directory's entries. *)
LEMMA LeastNat ==
  ASSUME NEW S, S \subseteq Nat, S # {}
  PROVE  \E m \in S : \A j \in S : m <= j
<1> DEFINE R == {ss \in Nat \X Nat : ss[1] < ss[2]}
<1>1. IsWellFoundedOn(R, Nat)
  <2>1. R = OpToRel(<, Nat)
    BY DEF OpToRel
  <2> QED
    BY <2>1, NatLessThanWellFounded
<1>2. PICK m \in S : \A j \in S : ~ (<<j, m>> \in R)
  <2> HIDE DEF R
  <2> QED
    BY <1>1, WFMin
<1>3. ASSUME NEW j \in S PROVE m <= j
  <2>1. j \in Nat /\ m \in Nat
    OBVIOUS
  <2>2. <<j, m>> \in Nat \X Nat /\ <<j, m>>[1] = j /\ <<j, m>>[2] = m
    BY <2>1
  <2>3. ~ (j < m)
    BY <1>2, <2>2
  <2> QED
    BY <2>1, <2>3
<1> QED
  BY <1>3

LEMMA SmallestIn ==
  ASSUME NEW S, S \subseteq Nat, S # {}
  PROVE  Smallest(S) \in S
<1>1. \E m \in S : \A j \in S : m <= j
  BY LeastNat
<1> QED
  BY <1>1 DEF Smallest

Injective(list) == \A j, l \in DOMAIN list : list[j] = list[l] => j = l

LEMMA Appended ==
  ASSUME NEW S, NEW list \in Seq(S), NEW x
  PROVE  /\ ToSet(Append(list, x)) = ToSet(list) \cup {x}
         /\ x \in S => Append(list, x) \in Seq(S)
         /\ Len(Append(list, x)) = Len(list) + 1 /\ Len(list) \in Nat
         /\ Injective(list) /\ x \notin ToSet(list) => Injective(Append(list, x))
<1> DEFINE new == Append(list, x)
<1>1. /\ Len(list) \in Nat /\ DOMAIN list = 1 .. Len(list)
      /\ Len(new) = Len(list) + 1 /\ DOMAIN new = 1 .. Len(list) + 1
      /\ \A i \in 1 .. Len(list) : new[i] = list[i]
      /\ new[Len(list) + 1] = x
      /\ x \in S => Append(list, x) \in Seq(S)
  OBVIOUS
<1> HIDE DEF new
<1>2. \A i \in DOMAIN new : i \in DOMAIN list \/ i = Len(list) + 1
  BY <1>1
<1>3. ToSet(new) = ToSet(list) \cup {x}
  BY <1>1, <1>2 DEF ToSet
<1>4. Injective(list) /\ x \notin ToSet(list) => Injective(new)
  BY <1>1, <1>2 DEF ToSet, Injective
<1> QED
  BY <1>1, <1>3, <1>4 DEF new

LEMMA UnlistedGone ==
  ASSUME NEW S, NEW list \in Seq(S), Injective(list), NEW x
  PROVE  /\ Unlisted(list, x) \in Seq(S) /\ Injective(Unlisted(list, x))
         /\ ToSet(Unlisted(list, x)) = ToSet(list) \ {x}
         /\ Len(Unlisted(list, x)) <= Len(list) /\ Len(list) \in Nat
<1> DEFINE new == Unlisted(list, x)
           at  == Smallest({j \in DOMAIN list : list[j] = x})
           n   == Len(list)
<1>1. n \in Nat /\ DOMAIN list = 1 .. n /\ \A i \in 1 .. n : list[i] \in S
  OBVIOUS
<1>2. CASE x \notin ToSet(list)
  BY <1>2 DEF Unlisted
<1>3. CASE x \in ToSet(list)
  <2>1. at \in 1 .. n /\ list[at] = x
    <3> DEFINE A == {j \in DOMAIN list : list[j] = x}
    <3>1. A \subseteq Nat /\ A # {}
      BY <1>1, <1>3 DEF ToSet
    <3>2. at \in A
      <4> HIDE DEF A
      <4> QED
        BY <3>1, SmallestIn DEF A
    <3> QED
      BY <1>1, <3>2
  <2> HIDE DEF at
  <2>2. new = SubSeq(list, 1, at - 1) \o SubSeq(list, at + 1, n)
    BY <1>3 DEF Unlisted, RemoveAt, at
  <2>3. /\ SubSeq(list, 1, at - 1) \in Seq(S) /\ Len(SubSeq(list, 1, at - 1)) = at - 1
        /\ \A i \in 1 .. at - 1 : SubSeq(list, 1, at - 1)[i] = list[i]
    <3>1. /\ 1 \in Int /\ at - 1 \in Int /\ \A i \in 1 .. at - 1 : list[i] \in S
          /\ (at - 1) - 1 + 1 = at - 1 /\ IF 1 <= at - 1 THEN TRUE ELSE at - 1 = 0
          /\ \A i \in 1 .. at - 1 : 1 + i - 1 = i
      BY <1>1, <2>1
    <3>2. /\ SubSeq(list, 1, at - 1) \in Seq(S)
          /\ Len(SubSeq(list, 1, at - 1)) = IF 1 <= at - 1 THEN (at - 1) - 1 + 1 ELSE 0
          /\ \A i \in 1 .. (at - 1) - 1 + 1 : SubSeq(list, 1, at - 1)[i] = list[1 + i - 1]
      BY <3>1, SubSeqProperties
    <3> QED
      BY <3>1, <3>2
  <2>4. /\ SubSeq(list, at + 1, n) \in Seq(S) /\ Len(SubSeq(list, at + 1, n)) = n - at
        /\ \A i \in 1 .. n - at : SubSeq(list, at + 1, n)[i] = list[at + i]
    <3> DEFINE m == at + 1
    <3>1. /\ m \in Int /\ n \in Int /\ \A i \in m .. n : list[i] \in S
          /\ n - m + 1 = n - at /\ (m <= n \/ n - at = 0)
          /\ \A i \in 1 .. n - at : m + i - 1 = at + i
      <4> HIDE DEF n
      <4>1. m \in Int /\ n \in Int /\ n - m + 1 = n - at /\ (m <= n \/ n - at = 0)
        BY <1>1, <2>1
      <4>2. \A i \in m .. n : i \in 1 .. n
        BY <1>1, <2>1
      <4>3. \A i \in 1 .. n - at : m + i - 1 = at + i
        BY <1>1, <2>1
      <4> QED
        BY <1>1, <4>1, <4>2, <4>3
    <3>2. /\ SubSeq(list, m, n) \in Seq(S)
          /\ Len(SubSeq(list, m, n)) = IF m <= n THEN n - m + 1 ELSE 0
          /\ \A i \in 1 .. n - m + 1 : SubSeq(list, m, n)[i] = list[m + i - 1]
      <4> HIDE DEF m, n
      <4> QED
        BY <3>1, SubSeqProperties
    <3> DEFINE v == SubSeq(list, at + 1, n)
    <3> HIDE DEF v
    <3>3. Len(v) = n - at
      BY <3>1, <3>2 DEF v
    <3>4. ASSUME NEW i \in 1 .. n - at PROVE v[i] = list[at + i]
      <4>1. i \in 1 .. n - m + 1 /\ m + i - 1 = at + i
        BY <3>1
      <4>2. v[i] = list[m + i - 1]
        BY <3>2, <4>1 DEF v
      <4> QED
        BY <4>1, <4>2
    <3> QED
      BY <3>2, <3>3, <3>4 DEF v
  <2> HIDE DEF new
  <2>5. /\ new \in Seq(S) /\ Len(new) = n - 1 /\ DOMAIN new = 1 .. n - 1
        /\ \A i \in 1 .. n - 1 : new[i] = IF i < at THEN list[i] ELSE list[i + 1]
    <3> DEFINE u == SubSeq(list, 1, at - 1)
               v == SubSeq(list, at + 1, n)
    <3> HIDE DEF u, v
    <3>0. /\ u \in Seq(S) /\ v \in Seq(S) /\ Len(u) = at - 1 /\ Len(v) = n - at
          /\ new = u \o v
      BY <2>2, <2>3, <2>4 DEF u, v
    <3>1. /\ new \in Seq(S) /\ Len(new) = Len(u) + Len(v)
          /\ \A i \in 1 .. Len(u) + Len(v) : new[i] = IF i <= Len(u) THEN u[i] ELSE v[i - Len(u)]
      BY <3>0, ConcatProperties
    <3>2. Len(u) + Len(v) = n - 1
      BY <1>1, <2>1, <3>0
    <3>3. \A i \in 1 .. n - 1 : new[i] = IF i < at THEN list[i] ELSE list[i + 1]
      <4> TAKE i \in 1 .. n - 1
      <4>1. new[i] = IF i <= Len(u) THEN u[i] ELSE v[i - Len(u)]
        BY <3>1, <3>2
      <4>2. CASE i < at
        <5>1. i \in 1 .. at - 1 /\ i <= Len(u)
          BY <1>1, <2>1, <3>0, <4>2
        <5>2. u[i] = list[i]
          BY <2>3, <5>1 DEF u
        <5> QED
          BY <4>1, <4>2, <5>1, <5>2
      <4>3. CASE ~ (i < at)
        <5>1. i - Len(u) \in 1 .. n - at /\ at + (i - Len(u)) = i + 1 /\ ~ (i <= Len(u))
          BY <1>1, <2>1, <3>0, <4>3
        <5>2. v[i - Len(u)] = list[at + (i - Len(u))]
          BY <2>4, <5>1 DEF v
        <5> QED
          BY <4>1, <4>3, <5>1, <5>2
      <4> QED
        BY <4>2, <4>3
    <3>4. new \in Seq(S) /\ Len(new) = n - 1
      BY <3>1, <3>2
    <3> QED
      BY <3>3, <3>4
  <2>6. Injective(new)
    <3> SUFFICES ASSUME NEW j \in 1 .. n - 1, NEW l \in 1 .. n - 1, new[j] = new[l] PROVE j = l
      BY <2>5 DEF Injective
    <3> DEFINE p(i) == IF i < at THEN i ELSE i + 1
    <3>1. p(j) \in DOMAIN list /\ p(l) \in DOMAIN list /\ list[p(j)] = list[p(l)]
      BY <1>1, <2>1, <2>5
    <3>2. p(j) = p(l)
      BY <3>1 DEF Injective
    <3> QED
      BY <3>2, <2>1, <1>1
  <2>7. ToSet(new) = ToSet(list) \ {x}
    <3>1. ASSUME NEW y \in ToSet(new) PROVE y \in ToSet(list) \ {x}
      <4>1. PICK i \in 1 .. n - 1 : y = new[i]
        BY <2>5 DEF ToSet
      <4> DEFINE p == IF i < at THEN i ELSE i + 1
      <4>2. p \in DOMAIN list /\ y = list[p] /\ p # at
        BY <1>1, <2>1, <2>5, <4>1
      <4> QED
        BY <1>1, <2>1, <4>2 DEF ToSet, Injective
    <3>2. ASSUME NEW y \in ToSet(list) \ {x} PROVE y \in ToSet(new)
      <4>1. PICK i \in 1 .. n : y = list[i] /\ i # at
        BY <1>1, <2>1 DEF ToSet
      <4> DEFINE q == IF i < at THEN i ELSE i - 1
      <4>2. q \in 1 .. n - 1 /\ (IF q < at THEN q ELSE q + 1) = i
        BY <1>1, <2>1, <4>1
      <4>3. new[q] = y
        BY <2>5, <4>1, <4>2
      <4> QED
        BY <2>5, <4>2, <4>3 DEF ToSet
    <3> QED
      BY <3>1, <3>2
  <2>8. Len(new) <= n
    BY <1>1, <2>5
  <2> QED
    BY <1>1, <2>5, <2>6, <2>7, <2>8 DEF new
<1> QED
  BY <1>2, <1>3

-----------------------------------------------------------------------------
(* The invariant, of any state f of the tables. *)
In(f, k) == ToSet(f.dirs[k].files)
Made(f)  == 0 .. f.file_count - 1

Slot == [name : Names \cup {NoName, "/"}, parent : Dirs, files : Seq(Entries)]

Tables == [files : [Entries -> Entry], file_count : 0 .. FS_MAX_FILES + 1, dirs : [Dirs -> Slot],
           dir_count : 1 .. FS_MAX_DIRECTORIES, mem : [Blocks -> Data \cup {Free, Uninit}]]

Shaped(f) == f \in Tables /\ f.dirs[0].name = "/"

(* Every entry made that has a name is in the list of its parent; a list   *)
(* holds entries made, of that parent, each once, with names that differ.  *)
WellListed(f) ==
    /\ \A k \in Dirs : /\ Len(f.dirs[k].files) <= FS_MAX_FILES_PER_DIR
                       /\ Injective(f.dirs[k].files)
                       /\ k >= f.dir_count => f.dirs[k] = UnusedDir
    /\ \A k \in Dirs : \A i \in In(f, k) : i < f.file_count /\ f.files[i].parent = k
    /\ \A i \in Made(f) : f.files[i].name # NoName => i \in In(f, f.files[i].parent)
    /\ \A k \in Dirs : \A i, j \in In(f, k) :
          f.files[i].name = f.files[j].name /\ f.files[i].name # NoName => i = j

(* Directory entries and slots go together, one to one, and a slot's       *)
(* parent is an earlier slot.                                              *)
Paired(f) ==
    /\ \A k \in Dirs : \A i \in In(f, k) : f.files[i].type = DIR /\ f.files[i].name # NoName =>
          \E s \in Dirs : SlotsNamed(f, f.files[i].name, k) = {s}
    /\ \A s \in Dirs \ {0} :
          s < f.dir_count =>
          IF f.dirs[s].name = NoName THEN f.dirs[s].files = <<>>
          ELSE /\ f.dirs[s].parent < s
               /\ \E i \in In(f, f.dirs[s].parent) : f.files[i].type = DIR /\ f.files[i].name = f.dirs[s].name

Owns(f, k, i, b) == i \in In(f, k) /\ f.files[i].type = FILE /\ f.files[i].data = b

(* A block in use is the content of one listed file, a free one of none.   *)
Owned(f) ==
    /\ \A b \in Blocks : f.mem[b] # Free => \E k \in Dirs : \E i \in In(f, k) : Owns(f, k, i, b)
    /\ \A b \in Blocks, k \in Dirs : \A i \in In(f, k) : Owns(f, k, i, b) =>
          /\ f.mem[b] # Free
          /\ \A m \in Dirs : \A j \in In(f, m) : Owns(f, m, j, b) => j = i

Sound(f) == Shaped(f) /\ WellListed(f) /\ Paired(f) /\ Owned(f)

-----------------------------------------------------------------------------
(* Lookup. *)
LEMMA NamesProper == NoName \notin Names /\ "/" \notin Names
<1>1. ASSUME NEW n \in Names PROVE n # NoName /\ n # "/"
  <2>1. PICK p \in Paths : n \in ToSet(p)
    BY DEF Names
  <2>2. p \in Seq(Names \ {NoName, "/"})
    BY FsAssumption
  <2>3. PICK i \in DOMAIN p : n = p[i]
    BY <2>1 DEF ToSet
  <2> QED
    BY <2>2, <2>3
<1> QED
  BY <1>1

LEMMA Sizes ==
  /\ FS_MAX_FILES \in Nat \ {0} /\ FS_MAX_DIRECTORIES \in Nat \ {0}
  /\ FS_MAX_FILES_PER_DIR \in Nat \ {0}
  /\ Entries \subseteq Nat /\ Dirs \subseteq Nat /\ 0 \in Dirs /\ 0 \in Entries
  /\ NOT_FOUND \notin Dirs /\ NOT_FOUND \notin Entries /\ NULL = 0
  BY FsAssumption DEF Entries, Dirs, NOT_FOUND, NULL

Live(f) == {k \in Dirs : k < f.dir_count /\ f.dirs[k].name # NoName}

(* One step down finds a slot in use, of that name and parent.             *)
LEMMA SlotsInDirs ==
  ASSUME NEW f, Shaped(f), NEW name \in Names, NEW d, NEW s \in SlotsNamed(f, name, d)
  PROVE  /\ s \in Dirs \ {0} /\ s < f.dir_count /\ s \in Live(f)
         /\ f.dirs[s].name = name /\ f.dirs[s].parent = d
<1>1. s \in 0 .. f.dir_count - 1 /\ f.dirs[s].name = name /\ f.dirs[s].parent = d
  BY DEF SlotsNamed
<1>2. f.dir_count \in Nat /\ f.dir_count <= FS_MAX_DIRECTORIES
  BY Sizes DEF Shaped, Tables, Slot
<1>3. s \in Dirs /\ s < f.dir_count
  BY <1>1, <1>2, Sizes DEF Dirs
<1>4. name # NoName /\ name # "/"
  BY NamesProper
<1> QED
  BY <1>1, <1>3, <1>4 DEF Live, Shaped, Tables, Slot

LEMMA SubDirFinds ==
  ASSUME NEW f, Shaped(f), NEW d, NEW name \in Names, SubDir(f, d, name) # NOT_FOUND
  PROVE  /\ SubDir(f, d, name) \in SlotsNamed(f, name, d)
         /\ \E i \in In(f, d) : f.files[i].type = DIR /\ f.files[i].name = name
<1> DEFINE S == SlotsNamed(f, name, d)
<1>1. /\ S # {} /\ SubDir(f, d, name) = Smallest(S)
      /\ \E i \in In(f, d) : f.files[i].type = DIR /\ f.files[i].name = name
  BY DEF SubDir, In
<1>2. S \subseteq Nat
  BY SlotsInDirs, Sizes
<1> HIDE DEF S
<1>3. Smallest(S) \in S
  BY <1>1, <1>2, SmallestIn
<1> QED
  BY <1>1, <1>3 DEF S

Step(f, d, name) == IF d = NOT_FOUND THEN NOT_FOUND ELSE SubDir(f, d, name)

Follows(f, path, n, w) ==
    w = [i \in 0 .. n |-> IF i = 0 THEN 0
                          ELSE IF w[i - 1] = NOT_FOUND THEN NOT_FOUND
                          ELSE SubDir(f, w[i - 1], path[i])]

(* The walk down a path exists: a shortest one that does not would follow  *)
(* one that does. *)
LEMMA WalkExists ==
  ASSUME NEW f, NEW path, NEW N \in Nat
  PROVE  \E w : Follows(f, path, N, w)
<1> DEFINE Without == {n \in Nat : ~ \E w : Follows(f, path, n, w)}
<1>1. Without = {}
  <2> SUFFICES ASSUME Without # {} PROVE FALSE
    OBVIOUS
  <2>1. PICK n \in Without : \A m \in Without : n <= m
    <3>1. Without \subseteq Nat
      OBVIOUS
    <3> HIDE DEF Without
    <3> QED
      BY <3>1, LeastNat
  <2>2. n # 0
    <3>1. Follows(f, path, 0, [i \in 0 .. 0 |-> 0])
      BY DEF Follows
    <3> QED
      BY <3>1
  <2>3. n - 1 \in Nat /\ n - 1 \notin Without
    <3>1. n \in Nat /\ n - 1 \in Nat
      BY <2>1, <2>2
    <3> HIDE DEF Without
    <3> QED
      BY <2>1, <3>1
  <2>4. PICK v : Follows(f, path, n - 1, v)
    BY <2>3
  <2> DEFINE w == [i \in 0 .. n |-> IF i = n THEN Step(f, v[n - 1], path[n]) ELSE v[i]]
  <2>5. n \in Nat /\ n > 0
    BY <2>2
  <2>6. ASSUME NEW i \in 0 .. n PROVE w[i] = IF i = 0 THEN 0 ELSE Step(f, w[i - 1], path[i])
    <3>1. CASE i = 0
      BY <2>4, <2>5, <3>1 DEF Follows
    <3>2. CASE i = n
      <4>1. w[i - 1] = v[n - 1]
        BY <2>5, <3>2
      <4> QED
        BY <2>5, <3>2, <4>1
    <3>3. CASE i # 0 /\ i # n
      <4>1. i \in 0 .. n - 1 /\ i - 1 \in 0 .. n - 1 /\ w[i] = v[i] /\ w[i - 1] = v[i - 1]
        BY <2>5, <3>3
      <4>2. v[i] = Step(f, v[i - 1], path[i])
        BY <2>4, <3>3, <4>1 DEF Follows, Step
      <4> QED
        BY <3>3, <4>1, <4>2
    <3> QED
      BY <3>1, <3>2, <3>3
  <2>7. Follows(f, path, n, w)
    <3>1. w = [i \in 0 .. n |-> w[i]]
      OBVIOUS
    <3> HIDE DEF w
    <3> QED
      BY <2>6, <3>1 DEF Follows, Step
  <2> QED
    BY <2>7
<1> QED
  BY <1>1

Walk(f, path) == CHOOSE w : Follows(f, path, Len(path), w)

(* The slot a path leads to, if it leads through directories only.         *)
Reached(f, path) == Walk(f, path)[Len(path)]

LEMMA WalkSteps ==
  ASSUME NEW f, NEW path, Len(path) \in Nat
  PROVE  /\ Walk(f, path)[0] = 0
         /\ \A i \in 1 .. Len(path) : Walk(f, path)[i] = Step(f, Walk(f, path)[i - 1], path[i])
<1> DEFINE w == Walk(f, path)
           n == Len(path)
<1>1. Follows(f, path, n, w)
  BY WalkExists DEF Walk
<1> HIDE DEF w
<1>2. \A i \in 0 .. n : w[i] = IF i = 0 THEN 0 ELSE Step(f, w[i - 1], path[i])
  BY <1>1 DEF Follows, Step
<1>3. w[0] = 0
  BY <1>2
<1>4. \A i \in 1 .. n : i \in 0 .. n /\ i # 0
  OBVIOUS
<1> QED
  BY <1>2, <1>3, <1>4 DEF w

LEMMA ParentDirWalks ==
  ASSUME NEW f, NEW path
  PROVE  FindParentDir(f, path) = IF path = <<>> THEN 0 ELSE Walk(f, path)[Len(path) - 1]
  BY DEF FindParentDir, Walk, Follows

(* Two paths that begin alike are walked alike. *)
LEMMA WalksAgree ==
  ASSUME NEW f, NEW g, NEW p, NEW q, NEW n \in Nat, Len(p) \in Nat, Len(q) \in Nat,
         n <= Len(p), n <= Len(q),
         \A i \in 1 .. n : Step(f, Walk(f, p)[i - 1], p[i]) = Step(g, Walk(f, p)[i - 1], q[i])
  PROVE  \A i \in 0 .. n : Walk(f, p)[i] = Walk(g, q)[i]
<1> DEFINE v == Walk(f, p)
           w == Walk(g, q)
           Differ == {i \in 0 .. n : v[i] # w[i]}
<1>1. v[0] = 0 /\ w[0] = 0
  BY WalkSteps
<1>2. \A i \in 1 .. n : v[i] = Step(f, v[i - 1], p[i]) /\ w[i] = Step(g, w[i - 1], q[i])
  <2>1. \A i \in 1 .. n : i \in 1 .. Len(p) /\ i \in 1 .. Len(q)
    OBVIOUS
  <2> QED
    BY <2>1, WalkSteps
<1> HIDE DEF v, w
<1>3. Differ = {}
  <2> SUFFICES ASSUME Differ # {} PROVE FALSE
    OBVIOUS
  <2>1. PICK m \in Differ : \A j \in Differ : m <= j
    <3>1. Differ \subseteq Nat
      OBVIOUS
    <3> HIDE DEF Differ
    <3> QED
      BY <3>1, LeastNat
  <2>2. m \in 1 .. n /\ v[m] # w[m]
    BY <1>1, <2>1
  <2>3. v[m - 1] = w[m - 1]
    <3>1. m - 1 \in 0 .. n /\ m - 1 < m
      BY <2>2
    <3>2. m - 1 \notin Differ
      <4> HIDE DEF Differ
      <4> QED
        BY <2>1, <2>2, <3>1
    <3> QED
      BY <3>1, <3>2
  <2> QED
    BY <1>2, <2>2, <2>3 DEF v
<1> QED
  BY <1>3 DEF v, w

LEMMA RootLives ==
  ASSUME NEW f, Shaped(f)
  PROVE  0 \in Live(f) /\ NoName # "/"
<1>1. NoName # "/"
  BY DEF NoName
<1> QED
  BY <1>1, Sizes DEF Live, Shaped, Tables, Slot

LEMMA SubDirLives ==
  ASSUME NEW f, Shaped(f), NEW d \in Live(f) \cup {NOT_FOUND}, NEW name \in Names
  PROVE  Step(f, d, name) \in Live(f) \cup {NOT_FOUND}
<1>1. CASE d = NOT_FOUND \/ SubDir(f, d, name) = NOT_FOUND
  BY <1>1 DEF Step
<1>2. CASE d # NOT_FOUND /\ SubDir(f, d, name) # NOT_FOUND
  BY <1>2, SubDirFinds, SlotsInDirs DEF Step
<1> QED
  BY <1>1, <1>2

(* A walk stays in slots that have a name. *)
LEMMA WalkLives ==
  ASSUME NEW f, Shaped(f), NEW path \in Seq(Names)
  PROVE  \A i \in 0 .. Len(path) : Walk(f, path)[i] \in Live(f) \cup {NOT_FOUND}
<1> DEFINE w == Walk(f, path)
           n == Len(path)
           Stray == {i \in 0 .. n : w[i] \notin Live(f) \cup {NOT_FOUND}}
<1>1. n \in Nat /\ \A i \in 1 .. n : path[i] \in Names
  OBVIOUS
<1>2. w[0] = 0 /\ \A i \in 1 .. n : w[i] = Step(f, w[i - 1], path[i])
  BY <1>1, WalkSteps
<1> HIDE DEF w, n
<1>3. Stray = {}
  <2> SUFFICES ASSUME Stray # {} PROVE FALSE
    OBVIOUS
  <2>1. PICK m \in Stray : \A j \in Stray : m <= j
    <3>1. Stray \subseteq Nat
      BY <1>1
    <3> HIDE DEF Stray
    <3> QED
      BY <3>1, LeastNat
  <2>2. m \in 1 .. n /\ w[m] \notin Live(f) \cup {NOT_FOUND}
    BY <1>1, <1>2, <2>1, RootLives
  <2>3. w[m - 1] \in Live(f) \cup {NOT_FOUND}
    <3>1. m - 1 \in 0 .. n /\ ~ (m <= m - 1)
      BY <1>1, <2>2
    <3> HIDE DEF w
    <3> QED
      BY <2>1, <3>1
  <2> QED
    BY <1>1, <1>2, <2>2, <2>3, SubDirLives
<1> QED
  BY <1>3 DEF w, n

(* What a path's last part is looked up as, and where. *)
LEMMA FileNames ==
  ASSUME NEW path \in Seq(Names)
  PROVE  /\ path = <<>> => FileName(path) = NoName
         /\ path # <<>> => FileName(path) = path[Len(path)] /\ FileName(path) \in Names
         /\ path # <<>> => Len(path) \in Nat \ {0}
<1>1. path # <<>> => Len(path) \in Nat \ {0}
  OBVIOUS
<1>2. path # <<>> => path[Len(path)] \in Names
  BY <1>1
<1> QED
  BY <1>1, <1>2 DEF FileName, Last

LEMMA ParentLives ==
  ASSUME NEW f, Shaped(f), NEW path \in Seq(Names)
  PROVE  FindParentDir(f, path) \in Live(f) \cup {NOT_FOUND}
<1>1. CASE path = <<>>
  BY <1>1, ParentDirWalks, RootLives
<1>2. CASE path # <<>>
  <2>1. Len(path) - 1 \in 0 .. Len(path)
    BY <1>2, FileNames
  <2> QED
    BY <1>2, <2>1, ParentDirWalks, WalkLives
<1> QED
  BY <1>1, <1>2

LEMMA LookupFinds ==
  ASSUME NEW f, Shaped(f), NEW d \in Dirs, NEW name
  PROVE  /\ Lookup(f, d, name) # NOT_FOUND =>
               /\ Lookup(f, d, name) \in In(f, d) /\ Lookup(f, d, name) \in Entries
               /\ f.files[Lookup(f, d, name)].name = name
         /\ Lookup(f, d, name) = NOT_FOUND => \A i \in In(f, d) : f.files[i].name # name
<1> DEFINE l  == f.dirs[d].files
           at == {j \in DOMAIN l : f.files[l[j]].name = name}
<1>1. l \in Seq(Entries) /\ DOMAIN l \subseteq Nat /\ \A j \in DOMAIN l : l[j] \in Entries
  <2>1. l \in Seq(Entries)
    BY DEF Shaped, Tables, Slot
  <2> HIDE DEF l
  <2> QED
    BY <2>1
<1>2. Lookup(f, d, name) = IF at = {} THEN NOT_FOUND ELSE l[Smallest(at)]
  BY DEF Lookup
<1>3. at \subseteq Nat
  BY <1>1
<1>4. at # {} => Smallest(at) \in at
  <2> HIDE DEF at
  <2> QED
    BY <1>3, SmallestIn
<1>5. CASE at # {}
  <2>1. Smallest(at) \in DOMAIN l /\ f.files[l[Smallest(at)]].name = name
    BY <1>4, <1>5
  <2>2. Lookup(f, d, name) \in In(f, d) /\ Lookup(f, d, name) \in Entries
    BY <1>1, <1>2, <1>5, <2>1 DEF In, ToSet
  <2>3. Lookup(f, d, name) # NOT_FOUND
    BY <2>2, Sizes
  <2> QED
    BY <1>2, <1>5, <2>1, <2>2, <2>3
<1>6. CASE at = {}
  <2>1. Lookup(f, d, name) = NOT_FOUND
    BY <1>2, <1>6
  <2>2. \A i \in In(f, d) : f.files[i].name # name
    BY <1>6 DEF In, ToSet
  <2> QED
    BY <2>1, <2>2
<1> QED
  BY <1>5, <1>6

(* fs_find: the entry of that name in the list of the directory the rest   *)
(* of the path leads to, or none has the name. *)
LEMMA Finds ==
  ASSUME NEW f, Shaped(f), NEW path \in Seq(Names)
  PROVE  /\ Find(f, path) \in Entries \cup {ROOT, NOT_FOUND}
         /\ Find(f, path) >= 0 <=> Find(f, path) \in Entries
         /\ Find(f, path) < 0 <=> Find(f, path) \notin Entries
         /\ Find(f, path) \in Entries =>
               /\ path # <<>>
               /\ FindParentDir(f, path) \in Live(f)
               /\ Find(f, path) \in In(f, FindParentDir(f, path))
               /\ f.files[Find(f, path)].name = FileName(path)
         /\ Find(f, path) \notin Entries /\ path # <<>> /\ FindParentDir(f, path) # NOT_FOUND =>
               \A i \in In(f, FindParentDir(f, path)) : f.files[i].name # FileName(path)
<1> DEFINE i == Find(f, path)
           d == FindParentDir(f, path)
           l == Lookup(f, d, FileName(path))
<1>1. d \in Live(f) \cup {NOT_FOUND} /\ (d # NOT_FOUND => d \in Dirs)
  BY ParentLives DEF Live
<1>2. /\ path = <<>> => i = ROOT
      /\ path # <<>> /\ d = NOT_FOUND => i = NOT_FOUND
      /\ path # <<>> /\ d # NOT_FOUND => i = l
  BY DEF Find
<1>3. d # NOT_FOUND =>
         /\ l # NOT_FOUND => l \in In(f, d) /\ l \in Entries /\ f.files[l].name = FileName(path)
         /\ l = NOT_FOUND => \A j \in In(f, d) : f.files[j].name # FileName(path)
  BY <1>1, LookupFinds
<1>4. ROOT \notin Entries /\ NOT_FOUND \notin Entries /\ ROOT < 0 /\ NOT_FOUND < 0
  BY Sizes DEF ROOT, NOT_FOUND
<1>5. \A j \in Entries : j >= 0 /\ ~ (j < 0)
  BY Sizes
<1> HIDE DEF i, d, l
<1>6. i \in Entries \cup {ROOT, NOT_FOUND}
  BY <1>2, <1>3
<1>7. (i >= 0 <=> i \in Entries) /\ (i < 0 <=> i \notin Entries)
  BY <1>4, <1>5, <1>6 DEF ROOT, NOT_FOUND
<1>8. i \in Entries => path # <<>> /\ d \in Live(f) /\ i \in In(f, d) /\ f.files[i].name = FileName(path)
  BY <1>1, <1>2, <1>3, <1>4
<1>9. i \notin Entries /\ path # <<>> /\ d # NOT_FOUND => \A j \in In(f, d) : f.files[j].name # FileName(path)
  BY <1>2, <1>3
<1> QED
  BY <1>6, <1>7, <1>8, <1>9 DEF i, d

-----------------------------------------------------------------------------
(* What an entry more, an entry less and another content leave of the      *)
(* invariant, whatever call they are part of: g is the state after f.      *)
LEMMA ListsTyped ==
  ASSUME NEW f, Shaped(f), NEW k \in Dirs
  PROVE  f.dirs[k].files \in Seq(Entries) /\ In(f, k) \subseteq Entries
<1>1. f.dirs[k].files \in Seq(Entries)
  BY DEF Shaped, Tables, Slot
<1> QED
  BY <1>1 DEF In, ToSet

LEMMA CountsTyped ==
  ASSUME NEW f, Shaped(f)
  PROVE  f.file_count \in Nat /\ f.dir_count \in Nat
<1>1. f.file_count \in 0 .. FS_MAX_FILES + 1 /\ f.dir_count \in 1 .. FS_MAX_DIRECTORIES
  BY DEF Shaped, Tables, Slot
<1> QED
  BY <1>1, Sizes

(* Entry n, e, is put at the end of d's list. *)
Grown(f, g, d, n, e) ==
    /\ \A i \in Entries : g.files[i] = IF i = n THEN e ELSE f.files[i]
    /\ g.file_count = n + 1
    /\ \A k \in Dirs : g.dirs[k].files = IF k = d THEN Append(f.dirs[k].files, n) ELSE f.dirs[k].files

ListsWith(f, g, d, n) == \A k \in Dirs : In(g, k) = IF k = d THEN In(f, k) \cup {n} ELSE In(f, k)

LEMMA GrownLists ==
  ASSUME NEW f, NEW g, NEW d \in Dirs, NEW e, Shaped(f), Grown(f, g, d, f.file_count, e)
  PROVE  ListsWith(f, g, d, f.file_count)
<1> SUFFICES ASSUME NEW k \in Dirs
             PROVE  In(g, k) = IF k = d THEN In(f, k) \cup {f.file_count} ELSE In(f, k)
  BY DEF ListsWith
<1>1. f.dirs[k].files \in Seq(Entries)
  BY ListsTyped
<1>2. ToSet(Append(f.dirs[k].files, f.file_count)) = ToSet(f.dirs[k].files) \cup {f.file_count}
  BY <1>1, Appended
<1>3. g.dirs[k].files = IF k = d THEN Append(f.dirs[k].files, f.file_count) ELSE f.dirs[k].files
  BY DEF Grown
<1> QED
  BY <1>2, <1>3 DEF In

(* d is in use, has room and no entry of that name. *)
Fits(f, g, d, e) ==
    /\ e.parent = d /\ d < f.dir_count
    /\ f.dir_count <= g.dir_count /\ g.dir_count \in Nat
    /\ \A k \in Dirs : k >= g.dir_count => g.dirs[k] = f.dirs[k]
    /\ Len(f.dirs[d].files) < FS_MAX_FILES_PER_DIR
    /\ \A i \in In(f, d) : f.files[i].name # e.name \/ e.name = NoName

LEMMA ListingGrows ==
  ASSUME NEW f, NEW g, NEW d \in Dirs, NEW e,
         Shaped(f), WellListed(f), f.file_count \in Entries,
         Grown(f, g, d, f.file_count, e), Fits(f, g, d, e)
  PROVE  WellListed(g)
<1> DEFINE n == f.file_count
<1>1. n \in Nat /\ f.dir_count \in Nat /\ Dirs \subseteq Nat /\ Entries \subseteq Nat
  BY Sizes, CountsTyped
<1>2. \A k \in Dirs : In(g, k) = IF k = d THEN In(f, k) \cup {n} ELSE In(f, k)
  <2>1. ListsWith(f, g, d, n)
    BY GrownLists
  <2> QED
    BY <2>1 DEF ListsWith
<1>3. \A k \in Dirs : In(f, k) \subseteq Entries /\ \A i \in In(f, k) : i < n /\ i # n /\ f.files[i].parent = k
  BY <1>1, ListsTyped DEF WellListed
<1>4. /\ \A i \in Entries : g.files[i] = IF i = n THEN e ELSE f.files[i]
      /\ g.file_count = n + 1
  BY DEF Grown
<1>5. \A k \in Dirs : \A i \in In(g, k) : i < g.file_count /\ g.files[i].parent = k
  <2> TAKE k \in Dirs
  <2> TAKE i \in In(g, k)
  <2>1. CASE i \in In(f, k)
    <3>1. i < n /\ g.files[i].parent = k /\ i \in Nat
      BY <1>1, <1>3, <1>4, <2>1
    <3> QED
      BY <1>1, <1>4, <3>1
  <2>2. CASE i \notin In(f, k)
    <3>1. k = d /\ i = n
      BY <1>2, <2>2
    <3>2. g.files[i] = e
      BY <1>4, <3>1
    <3> QED
      BY <1>1, <1>4, <3>1, <3>2 DEF Fits
  <2> QED
    BY <2>1, <2>2
<1>6. ASSUME NEW i \in Made(g), g.files[i].name # NoName
      PROVE  i \in In(g, g.files[i].parent)
  <2>1. CASE i = n
    <3>1. g.files[i] = e /\ e.parent = d
      BY <1>4, <2>1 DEF Fits
    <3> QED
      BY <1>2, <2>1, <3>1
  <2>2. CASE i # n
    <3>1. i \in Made(f)
      BY <1>1, <1>4, <2>2 DEF Made
    <3>2. i \in Entries
      BY <1>1, <3>1, Sizes DEF Made, Entries
    <3>3. g.files[i] = f.files[i]
      BY <1>4, <2>2, <3>2
    <3>4. i \in In(f, f.files[i].parent) /\ f.files[i].parent \in Dirs
      <4>1. f.files[i] \in Entry
        BY <3>2 DEF Shaped, Tables, Slot
      <4> QED
        BY <1>6, <3>1, <3>3, <4>1 DEF WellListed, Entry
    <3> QED
      BY <1>2, <3>3, <3>4
  <2> QED
    BY <2>1, <2>2
<1>7. \A k \in Dirs : \A i, j \in In(g, k) :
          g.files[i].name = g.files[j].name /\ g.files[i].name # NoName => i = j
  <2> SUFFICES ASSUME NEW k \in Dirs, NEW i \in In(g, k), NEW j \in In(g, k),
                      g.files[i].name = g.files[j].name, g.files[i].name # NoName
               PROVE  i = j
    OBVIOUS
  <2>1. CASE i \in In(f, k) /\ j \in In(f, k)
    <3>1. g.files[i] = f.files[i] /\ g.files[j] = f.files[j]
      BY <1>3, <1>4, <2>1
    <3> QED
      BY <2>1, <3>1 DEF WellListed
  <2>2. CASE i \in In(f, k) /\ j \notin In(f, k)
    <3>1. k = d /\ j = n /\ g.files[j] = e /\ g.files[i] = f.files[i]
      BY <1>2, <1>3, <1>4, <2>2
    <3> QED
      BY <2>2, <3>1 DEF Fits
  <2>3. CASE i \notin In(f, k) /\ j \in In(f, k)
    <3>1. k = d /\ i = n /\ g.files[i] = e /\ g.files[j] = f.files[j]
      BY <1>2, <1>3, <1>4, <2>3
    <3> QED
      BY <2>3, <3>1 DEF Fits
  <2>4. CASE i \notin In(f, k) /\ j \notin In(f, k)
    BY <1>2, <2>4
  <2> QED
    BY <2>1, <2>2, <2>3, <2>4
<1>8. ASSUME NEW k \in Dirs
      PROVE  /\ Len(g.dirs[k].files) <= FS_MAX_FILES_PER_DIR
             /\ Injective(g.dirs[k].files)
             /\ k >= g.dir_count => g.dirs[k] = UnusedDir
  <2>1. f.dirs[k].files \in Seq(Entries) /\ Injective(f.dirs[k].files) /\ n \notin ToSet(f.dirs[k].files)
    BY <1>3, ListsTyped DEF WellListed, In
  <2>2. /\ Injective(Append(f.dirs[k].files, n)) /\ Len(Append(f.dirs[k].files, n)) = Len(f.dirs[k].files) + 1
        /\ Len(f.dirs[k].files) \in Nat
    BY <2>1, Appended
  <2>3. g.dirs[k].files = IF k = d THEN Append(f.dirs[k].files, n) ELSE f.dirs[k].files
    BY DEF Grown
  <2>4. Len(f.dirs[k].files) <= FS_MAX_FILES_PER_DIR
    BY DEF WellListed
  <2>5. Len(g.dirs[k].files) <= FS_MAX_FILES_PER_DIR
    BY <2>2, <2>3, <2>4, Sizes DEF Fits
  <2>6. k >= g.dir_count => g.dirs[k] = UnusedDir
    BY <1>1 DEF WellListed, Fits
  <2> QED
    BY <2>1, <2>2, <2>3, <2>5, <2>6
<1> QED
  BY <1>5, <1>6, <1>7, <1>8 DEF WellListed

LEMMA OwnedGrows ==
  ASSUME NEW f, NEW g, NEW d \in Dirs, NEW e,
         Shaped(f), WellListed(f), Owned(f), f.file_count \in Entries,
         Grown(f, g, d, f.file_count, e),
         \A b \in Blocks : IF e.type = FILE /\ e.data = b THEN f.mem[b] = Free /\ g.mem[b] # Free
                                                         ELSE g.mem[b] = f.mem[b]
  PROVE  Owned(g)
<1> DEFINE n == f.file_count
<1>1. \A k \in Dirs : In(g, k) = IF k = d THEN In(f, k) \cup {n} ELSE In(f, k)
  <2>1. ListsWith(f, g, d, n)
    BY GrownLists
  <2> QED
    BY <2>1 DEF ListsWith
<1>2. \A k \in Dirs : In(f, k) \subseteq Entries /\ n \notin In(f, k)
  <2>1. n \in Nat
    BY Sizes
  <2>2. \A k \in Dirs : \A i \in In(f, k) : i < n
    BY DEF WellListed
  <2>3. ~ (n < n)
    BY <2>1
  <2> QED
    BY <2>2, <2>3, ListsTyped
<1>3. \A i \in Entries : g.files[i] = IF i = n THEN e ELSE f.files[i]
  BY DEF Grown
<1>4. \A b \in Blocks, k \in Dirs, i \in Entries :
         Owns(g, k, i, b) <=> \/ Owns(f, k, i, b) /\ i # n
                              \/ k = d /\ i = n /\ e.type = FILE /\ e.data = b
  BY <1>1, <1>2, <1>3 DEF Owns
<1>5. \A k \in Dirs : In(g, k) \subseteq Entries
  BY <1>1, <1>2
<1>6. ASSUME NEW b \in Blocks, g.mem[b] # Free
      PROVE  \E k \in Dirs : \E i \in In(g, k) : Owns(g, k, i, b)
  <2>1. CASE e.type = FILE /\ e.data = b
    BY <1>1, <1>4, <2>1
  <2>2. CASE ~ (e.type = FILE /\ e.data = b)
    <3>1. PICK k \in Dirs, i \in Entries : i \in In(f, k) /\ Owns(f, k, i, b)
      BY <1>2, <1>6, <2>2 DEF Owned
    <3> QED
      BY <1>1, <1>2, <1>4, <3>1
  <2> QED
    BY <2>1, <2>2
<1>7. ASSUME NEW b \in Blocks, NEW k \in Dirs, NEW i \in In(g, k), Owns(g, k, i, b)
      PROVE  g.mem[b] # Free /\ \A m \in Dirs : \A j \in In(g, m) : Owns(g, m, j, b) => j = i
  <2>1. CASE e.type = FILE /\ e.data = b
    <3>1. g.mem[b] # Free /\ f.mem[b] = Free
      BY <2>1
    <3>2. \A m \in Dirs : \A j \in In(g, m) : Owns(g, m, j, b) => j = n
      <4> SUFFICES ASSUME NEW m \in Dirs, NEW j \in In(g, m), Owns(g, m, j, b), j # n PROVE FALSE
        OBVIOUS
      <4>1. Owns(f, m, j, b) /\ j \in In(f, m)
        BY <1>4, <1>5 DEF Owns
      <4> QED
        BY <3>1, <4>1 DEF Owned
    <3> QED
      BY <1>7, <3>1, <3>2
  <2>2. CASE ~ (e.type = FILE /\ e.data = b)
    <3>1. \A m \in Dirs : \A j \in In(g, m) : Owns(g, m, j, b) => Owns(f, m, j, b) /\ j \in In(f, m)
      BY <1>4, <1>5, <2>2 DEF Owns
    <3> QED
      BY <1>7, <2>2, <3>1 DEF Owned
  <2> QED
    BY <2>1, <2>2
<1> QED
  BY <1>6, <1>7 DEF Owned

(* Entry i is taken off d's list and is unused. *)
Shrunk(f, g, d, i) ==
    /\ \A j \in Entries : g.files[j] = IF j = i THEN UnusedEntry ELSE f.files[j]
    /\ g.file_count = f.file_count
    /\ \A k \in Dirs : g.dirs[k].files = IF k = d THEN Unlisted(f.dirs[k].files, i) ELSE f.dirs[k].files

ListsWithout(f, g, i) ==
    \A k \in Dirs : /\ In(g, k) = In(f, k) \ {i}
                    /\ Len(g.dirs[k].files) <= FS_MAX_FILES_PER_DIR
                    /\ Injective(g.dirs[k].files)

LEMMA ShrunkLists ==
  ASSUME NEW f, NEW g, NEW d \in Dirs, NEW i \in In(f, d), Shaped(f), WellListed(f), Shrunk(f, g, d, i)
  PROVE  ListsWithout(f, g, i)
<1> SUFFICES ASSUME NEW k \in Dirs
             PROVE  /\ In(g, k) = In(f, k) \ {i}
                    /\ Len(g.dirs[k].files) <= FS_MAX_FILES_PER_DIR
                    /\ Injective(g.dirs[k].files)
  BY DEF ListsWithout
<1> DEFINE l == f.dirs[k].files
<1>1. l \in Seq(Entries) /\ Injective(l) /\ Len(l) <= FS_MAX_FILES_PER_DIR
  BY ListsTyped DEF WellListed
<1>2. g.dirs[k].files = IF k = d THEN Unlisted(l, i) ELSE l
  BY DEF Shrunk
<1>3. k # d => i \notin In(f, k)
  BY DEF WellListed
<1> HIDE DEF l
<1>4. /\ Injective(Unlisted(l, i)) /\ ToSet(Unlisted(l, i)) = ToSet(l) \ {i}
      /\ Len(Unlisted(l, i)) <= Len(l) /\ Len(l) \in Nat /\ Unlisted(l, i) \in Seq(Entries)
  BY <1>1, UnlistedGone
<1>5. Len(Unlisted(l, i)) \in Nat
  BY <1>4
<1>6. Len(g.dirs[k].files) <= FS_MAX_FILES_PER_DIR
  BY <1>1, <1>2, <1>4, <1>5, Sizes
<1>7. In(g, k) = In(f, k) \ {i}
  BY <1>2, <1>3, <1>4 DEF In, l
<1> QED
  BY <1>1, <1>2, <1>4, <1>6, <1>7

LEMMA ListingShrinks ==
  ASSUME NEW f, NEW g, NEW d \in Dirs, NEW i \in In(f, d), Shaped(f), WellListed(f), Shrunk(f, g, d, i),
         g.dir_count = f.dir_count, \A k \in Dirs : k >= f.dir_count => g.dirs[k] = f.dirs[k]
  PROVE  WellListed(g)
<1>0. ListsWithout(f, g, i)
  BY ShrunkLists
<1>1. \A k \in Dirs : In(g, k) = In(f, k) \ {i} /\ In(f, k) \subseteq Entries
  BY <1>0, ListsTyped DEF ListsWithout
<1>2. /\ \A j \in Entries : g.files[j] = IF j = i THEN UnusedEntry ELSE f.files[j]
      /\ g.file_count = f.file_count
  BY DEF Shrunk
<1>3. \A k \in Dirs : \A j \in In(g, k) :
          g.files[j] = f.files[j] /\ j \in In(f, k) /\ j < g.file_count /\ g.files[j].parent = k
  BY <1>1, <1>2 DEF WellListed
<1>4. \A j \in Made(g) : g.files[j].name # NoName => j \in In(g, g.files[j].parent)
  <2> SUFFICES ASSUME NEW j \in Made(g), g.files[j].name # NoName PROVE j \in In(g, g.files[j].parent)
    OBVIOUS
  <2>1. j \in Made(f) /\ j \in Entries
    <3>1. f.file_count \in 0 .. FS_MAX_FILES + 1
      BY DEF Shaped, Tables, Slot
    <3> QED
      BY <1>2, <3>1, Sizes DEF Made, Entries
  <2>2. j # i /\ g.files[j] = f.files[j]
    BY <1>2, <2>1 DEF UnusedEntry
  <2>3. f.files[j].parent \in Dirs /\ j \in In(f, f.files[j].parent)
    <3>1. f.files[j] \in Entry
      BY <2>1 DEF Shaped, Tables, Slot
    <3>2. f.files[j].parent \in Dirs
      BY <3>1 DEF Entry
    <3> QED
      BY <2>1, <2>2, <3>2 DEF WellListed
  <2> QED
    BY <1>1, <2>2, <2>3
<1>5. \A k \in Dirs : \A j, m \in In(g, k) :
          g.files[j].name = g.files[m].name /\ g.files[j].name # NoName => j = m
  BY <1>3 DEF WellListed
<1>6. \A k \in Dirs : k >= g.dir_count => g.dirs[k] = UnusedDir
  BY DEF WellListed
<1>7. \A k \in Dirs : Len(g.dirs[k].files) <= FS_MAX_FILES_PER_DIR /\ Injective(g.dirs[k].files)
  BY <1>0 DEF ListsWithout
<1> QED
  BY <1>3, <1>4, <1>5, <1>6, <1>7 DEF WellListed

GivesBack(f, g, i) ==
    \A b \in Blocks : g.mem[b] = IF f.files[i].type = FILE /\ f.files[i].data = b THEN Free ELSE f.mem[b]

LEMMA OwnedShrinks ==
  ASSUME NEW f, NEW g, NEW d \in Dirs, NEW i \in In(f, d), Shaped(f), WellListed(f), Owned(f), Shrunk(f, g, d, i),
         GivesBack(f, g, i)
  PROVE  Owned(g)
<1>1. \A k \in Dirs : In(g, k) = In(f, k) \ {i} /\ In(f, k) \subseteq Entries
  <2>1. ListsWithout(f, g, i)
    BY ShrunkLists
  <2> QED
    BY <2>1, ListsTyped DEF ListsWithout
<1>2. \A j \in Entries : j # i => g.files[j] = f.files[j]
  BY DEF Shrunk
<1>3. \A b \in Blocks, k \in Dirs : \A j \in In(g, k) : j \in In(f, k) /\ j # i /\ (Owns(g, k, j, b) <=> Owns(f, k, j, b))
  BY <1>1, <1>2 DEF Owns
<1>4. \A b \in Blocks : f.files[i].type = FILE /\ f.files[i].data = b <=> Owns(f, d, i, b)
  BY DEF Owns
<1>5. ASSUME NEW b \in Blocks, g.mem[b] # Free
      PROVE  \E k \in Dirs : \E j \in In(g, k) : Owns(g, k, j, b)
  <2>1. f.mem[b] # Free /\ ~ (f.files[i].type = FILE /\ f.files[i].data = b)
    BY <1>5 DEF GivesBack
  <2>2. PICK k \in Dirs : \E j \in In(f, k) : Owns(f, k, j, b)
    BY <2>1 DEF Owned
  <2>3. PICK j \in In(f, k) : Owns(f, k, j, b)
    BY <2>2
  <2>4. j # i
    BY <2>1, <2>3 DEF Owns
  <2>5. j \in In(g, k)
    BY <1>1, <2>4
  <2> QED
    BY <1>3, <2>3, <2>5
<1>6. ASSUME NEW b \in Blocks, NEW k \in Dirs, NEW j \in In(g, k), Owns(g, k, j, b)
      PROVE  /\ g.mem[b] # Free
             /\ \A m \in Dirs : \A l \in In(g, m) : Owns(g, m, l, b) => l = j
  <2>1. j \in In(f, k) /\ j # i /\ Owns(f, k, j, b)
    BY <1>3, <1>6
  <2>2. f.mem[b] # Free /\ \A m \in Dirs : \A l \in In(f, m) : Owns(f, m, l, b) => l = j
    BY <2>1 DEF Owned
  <2>3. g.mem[b] = f.mem[b]
    BY <1>4, <2>1, <2>2 DEF GivesBack
  <2> QED
    BY <1>3, <2>2, <2>3
<1> QED
  BY <1>5, <1>6 DEF Owned

(* A file's content moves from one block, or none, to another, or none;    *)
(* the blocks that other files have are as they were. *)
Rewritten(f, g, i) ==
    /\ \A j \in Entries : j # i => g.files[j] = f.files[j]
    /\ g.files[i].name = f.files[i].name /\ g.files[i].parent = f.files[i].parent
    /\ g.files[i].type = FILE /\ f.files[i].type = FILE
    /\ g.file_count = f.file_count /\ g.dirs = f.dirs /\ g.dir_count = f.dir_count
    /\ \A b \in Blocks :
          IF b = g.files[i].data THEN g.mem[b] # Free /\ (b = f.files[i].data \/ f.mem[b] = Free)
          ELSE g.mem[b] = IF b = f.files[i].data THEN Free ELSE f.mem[b]

LEMMA ListingRewritten ==
  ASSUME NEW f, NEW g, NEW d \in Dirs, NEW i \in In(f, d), Shaped(f), WellListed(f), Paired(f), Rewritten(f, g, i)
  PROVE  WellListed(g) /\ Paired(g)
<1>1. \A k : In(g, k) = In(f, k) /\ g.dirs[k] = f.dirs[k]
  BY DEF In, Rewritten
<1>2. \A k \in Dirs : In(f, k) \subseteq Entries
  BY ListsTyped
<1>3. /\ g.file_count = f.file_count /\ g.dir_count = f.dir_count /\ Made(g) = Made(f)
      /\ \A j \in Entries : /\ g.files[j].name = f.files[j].name
                            /\ g.files[j].parent = f.files[j].parent
                            /\ g.files[j].type = f.files[j].type
  BY DEF Rewritten, Made
<1>4. \A j \in Made(g) : j \in Entries
  <2>1. f.file_count \in 0 .. FS_MAX_FILES + 1
    BY DEF Shaped, Tables, Slot
  <2> QED
    BY <1>3, <2>1, Sizes DEF Made, Entries
<1>5. WellListed(g)
  <2>1. \A k \in Dirs : \A j \in In(g, k) : j < g.file_count /\ g.files[j].parent = k
    BY <1>1, <1>2, <1>3 DEF WellListed
  <2>2. \A j \in Made(g) : g.files[j].name # NoName => j \in In(g, g.files[j].parent)
    BY <1>1, <1>3, <1>4 DEF WellListed
  <2>3. \A k \in Dirs : \A j, m \in In(g, k) :
          g.files[j].name = g.files[m].name /\ g.files[j].name # NoName => j = m
    BY <1>1, <1>2, <1>3 DEF WellListed
  <2>4. \A k \in Dirs : /\ Len(g.dirs[k].files) <= FS_MAX_FILES_PER_DIR
                        /\ Injective(g.dirs[k].files)
                        /\ k >= g.dir_count => g.dirs[k] = UnusedDir
    BY <1>1, <1>3 DEF WellListed
  <2> QED
    BY <2>1, <2>2, <2>3, <2>4 DEF WellListed
<1>6. Paired(g)
  <2>1. \A name, k : SlotsNamed(g, name, k) = SlotsNamed(f, name, k)
    BY <1>1, <1>3 DEF SlotsNamed
  <2>2. \A k \in Dirs : \A j \in In(g, k) : g.files[j].type = DIR /\ g.files[j].name # NoName =>
          \E s \in Dirs : SlotsNamed(g, g.files[j].name, k) = {s}
    <3> SUFFICES ASSUME NEW k \in Dirs, NEW j \in In(g, k), g.files[j].type = DIR, g.files[j].name # NoName
                 PROVE  \E s \in Dirs : SlotsNamed(g, g.files[j].name, k) = {s}
      OBVIOUS
    <3>1. j \in In(f, k) /\ g.files[j].name = f.files[j].name /\ g.files[j].type = f.files[j].type
      BY <1>1, <1>2, <1>3
    <3>2. \E s \in Dirs : SlotsNamed(f, f.files[j].name, k) = {s}
      BY <3>1 DEF Paired
    <3> QED
      BY <2>1, <3>1, <3>2
  <2>3. ASSUME NEW s \in Dirs \ {0}, s < g.dir_count
        PROVE  IF g.dirs[s].name = NoName THEN g.dirs[s].files = <<>>
               ELSE /\ g.dirs[s].parent < s
                    /\ \E j \in In(g, g.dirs[s].parent) : g.files[j].type = DIR /\ g.files[j].name = g.dirs[s].name
    <3>1. IF f.dirs[s].name = NoName THEN f.dirs[s].files = <<>>
          ELSE /\ f.dirs[s].parent < s
               /\ \E j \in In(f, f.dirs[s].parent) : f.files[j].type = DIR /\ f.files[j].name = f.dirs[s].name
      BY <1>3, <2>3 DEF Paired
    <3>2. f.dirs[s].parent \in Dirs
      BY DEF Shaped, Tables, Slot
    <3>3. In(f, f.dirs[s].parent) \subseteq Entries
      BY <1>2, <3>2
    <3> QED
      BY <1>1, <1>3, <3>1, <3>3
  <2> QED
    BY <2>2, <2>3 DEF Paired
<1> QED
  BY <1>5, <1>6

LEMMA OwnedRewritten ==
  ASSUME NEW f, NEW g, NEW d \in Dirs, NEW i \in In(f, d), Shaped(f), WellListed(f), Owned(f), Rewritten(f, g, i)
  PROVE  Owned(g)
<1>1. \A k : In(g, k) = In(f, k)
  BY DEF In, Rewritten
<1>2. \A k \in Dirs : In(f, k) \subseteq Entries
  BY ListsTyped
<1>3. \A b \in Blocks, k \in Dirs : \A j \in In(f, k) : j # i => (Owns(g, k, j, b) <=> Owns(f, k, j, b))
  BY <1>1, <1>2 DEF Owns, Rewritten
<1>4. \A b \in Blocks : /\ Owns(g, d, i, b) <=> g.files[i].data = b
                        /\ Owns(f, d, i, b) <=> f.files[i].data = b
  BY <1>1 DEF Owns, Rewritten
<1>5. \A k \in Dirs : i \in In(f, k) => k = d
  BY DEF WellListed
<1>6. \A b \in Blocks :
          IF b = g.files[i].data THEN g.mem[b] # Free /\ (b = f.files[i].data \/ f.mem[b] = Free)
          ELSE g.mem[b] = IF b = f.files[i].data THEN Free ELSE f.mem[b]
  BY DEF Rewritten
<1>7. ASSUME NEW b \in Blocks, g.mem[b] # Free
      PROVE  \E k \in Dirs : \E j \in In(g, k) : Owns(g, k, j, b)
  <2>1. CASE b = g.files[i].data
    BY <1>1, <1>4, <2>1
  <2>2. CASE b # g.files[i].data
    <3>1. b # f.files[i].data /\ f.mem[b] # Free
      BY <1>6, <1>7, <2>2
    <3>2. PICK k \in Dirs : \E j \in In(f, k) : Owns(f, k, j, b)
      BY <3>1 DEF Owned
    <3>3. PICK j \in In(f, k) : Owns(f, k, j, b)
      BY <3>2
    <3>4. j # i
      BY <3>1, <3>3 DEF Owns
    <3> QED
      BY <1>1, <1>3, <3>3, <3>4
  <2> QED
    BY <2>1, <2>2
<1>8. ASSUME NEW b \in Blocks, NEW k \in Dirs, NEW j \in In(g, k), Owns(g, k, j, b)
      PROVE  /\ g.mem[b] # Free
             /\ \A m \in Dirs : \A l \in In(g, m) : Owns(g, m, l, b) => l = j
  <2>1. CASE b = g.files[i].data
    <3>1. g.mem[b] # Free
      BY <1>6, <2>1
    <3>2. ASSUME NEW m \in Dirs, NEW l \in In(f, m), Owns(g, m, l, b), l # i PROVE FALSE
      <4>1. Owns(f, m, l, b)
        BY <1>3, <3>2
      <4>2. f.mem[b] # Free /\ \A n \in Dirs : \A a \in In(f, n) : Owns(f, n, a, b) => a = l
        BY <4>1 DEF Owned
      <4>3. f.files[i].data = b
        BY <1>6, <2>1, <4>2
      <4> QED
        BY <1>4, <3>2, <4>2, <4>3
    <3> QED
      BY <1>1, <1>8, <3>1, <3>2
  <2>2. CASE b # g.files[i].data
    <3>1. \A m \in Dirs : \A l \in In(g, m) : Owns(g, m, l, b) => l # i /\ l \in In(f, m) /\ Owns(f, m, l, b)
      <4>1. \A m \in Dirs : ~ Owns(g, m, i, b)
        BY <2>2 DEF Owns
      <4> QED
        BY <1>1, <1>3, <4>1
    <3>2. f.mem[b] # Free /\ \A m \in Dirs : \A l \in In(f, m) : Owns(f, m, l, b) => l = j
      BY <1>8, <3>1 DEF Owned
    <3>3. b # f.files[i].data
      BY <1>4, <1>8, <3>1, <3>2
    <3> QED
      BY <1>6, <2>2, <3>1, <3>2, <3>3
  <2> QED
    BY <2>1, <2>2
<1> QED
  BY <1>7, <1>8 DEF Owned

-----------------------------------------------------------------------------
(* The calls keep the invariant. *)
Size == {Len(d) : d \in Data} \cup {0}
Content == Data \cup {Uninit}

LEMMA DataTyped ==
  /\ Free \notin Content /\ Size \subseteq Nat /\ 0 \in Size
  /\ Blocks \subseteq Nat /\ NULL \notin Blocks
<1>1. \A d \in Data : Len(d) \in Nat
  BY FsAssumption
<1>2. Size \subseteq Nat /\ 0 \in Size
  BY <1>1 DEF Size
<1>3. Free \notin Content /\ Blocks \subseteq Nat /\ NULL \notin Blocks
  BY FsAssumption DEF Content
<1> QED
  BY <1>2, <1>3

LEMMA UnusedTyped ==
  UnusedEntry \in Entry /\ UnusedEntry.name = NoName /\ UnusedEntry.type = FILE /\ FILE # DIR
<1>1. 0 \in Size /\ 0 \in Dirs /\ NULL \in Blocks \cup {NULL}
  BY DataTyped, Sizes
<1> QED
  BY <1>1 DEF UnusedEntry, Entry, Size, FILE, DIR

Refuses(f, r) == r = Result(f, Refused)
Succeeds(g, r) == r = Result(g, Done(<<>>))

LEMMA Replies ==
  ASSUME NEW f, NEW r
  PROVE  /\ Refuses(f, r)  => r.fs = f /\ r.reply = Refused /\ r.reply.ok = FALSE /\ r.reply.data = <<>>
         /\ Succeeds(f, r) => r.fs = f /\ r.reply = Done(<<>>) /\ r.reply.ok = TRUE /\ r.reply.data = <<>>
<1>1. \A g, x : Result(g, x).fs = g /\ Result(g, x).reply = x
  BY DEF Result
<1>2. Refused.ok = FALSE /\ Refused.data = <<>> /\ Done(<<>>).ok = TRUE /\ Done(<<>>).data = <<>>
  BY DEF Refused, Done
<1> QED
  BY <1>1, <1>2 DEF Refuses, Succeeds

Adds(f, g, d, e) ==
    /\ g \in Tables
    /\ g.files = [f.files EXCEPT ![f.file_count] = e] /\ g.file_count = f.file_count + 1
    /\ g.dirs = [f.dirs EXCEPT ![d].files = Append(@, f.file_count)]
    /\ g.dir_count = f.dir_count /\ g.mem = f.mem

LEMMA EntryAdded ==
  ASSUME NEW f \in Tables, f.file_count \in Entries, NEW d \in Dirs, NEW e \in Entry,
         Append(f.dirs[d].files, f.file_count) \in Seq(Entries)
  PROVE  Adds(f, AddEntry(f, d, e), d, e)
<1> DEFINE F == [f.files EXCEPT ![f.file_count] = e]
           D == [f.dirs EXCEPT ![d].files = Append(@, f.file_count)]
           n == f.file_count + 1
<1>1. F \in [Entries -> Entry]
  BY DEF Tables
<1>2. D \in [Dirs -> Slot]
  <2> DEFINE l == Append(f.dirs[d].files, f.file_count)
  <2> HIDE DEF l
  <2>1. [f.dirs[d] EXCEPT !.files = l] \in Slot
    <3>1. l \in Seq(Entries)
      BY DEF l
    <3>2. f.dirs[d] \in Slot
      BY DEF Tables
    <3> QED
      BY <3>1, <3>2 DEF Slot
  <2>2. D = [f.dirs EXCEPT ![d] = [f.dirs[d] EXCEPT !.files = l]]
    BY DEF l
  <2> QED
    BY <2>1, <2>2 DEF Tables
<1>3. n \in 0 .. FS_MAX_FILES + 1
  BY Sizes DEF Entries
<1>4. AddEntry(f, d, e) = [f EXCEPT !.files = F, !.file_count = n, !.dirs = D]
  BY DEF AddEntry
<1> HIDE DEF F, D, n
<1> DEFINE g == [f EXCEPT !.files = F, !.file_count = n, !.dirs = D]
<1>5. /\ g \in Tables /\ g.files = F /\ g.file_count = n /\ g.dirs = D
      /\ g.dir_count = f.dir_count /\ g.mem = f.mem
  BY <1>1, <1>2, <1>3 DEF Tables
<1> QED
  BY <1>4, <1>5 DEF F, D, n, Adds

LEMMA DirTyped ==
  ASSUME NEW f, Shaped(f), NEW k \in Dirs
  PROVE  /\ f.dirs[k] \in Slot
         /\ f.dirs[k].name \in Names \cup {NoName, "/"} /\ f.dirs[k].parent \in Dirs
         /\ f.dirs[k].files \in Seq(Entries)
  BY DEF Shaped, Tables, Slot

LEMMA CanMallocs ==
  ASSUME NEW f, CanMalloc(f)
  PROVE  Malloced(f) \in Blocks /\ f.mem[Malloced(f)] = Free
<1>1. FreeBlocks(f) \subseteq Nat /\ FreeBlocks(f) # {}
  BY DataTyped DEF FreeBlocks, CanMalloc
<1>2. Smallest(FreeBlocks(f)) \in FreeBlocks(f)
  BY <1>1, SmallestIn
<1> QED
  BY <1>2 DEF Malloced, FreeBlocks

(* What both creators leave of the tables, before mkdir makes a slot.      *)
LEMMA AddedShaped ==
  ASSUME NEW f, Shaped(f), f.file_count <= FS_MAX_FILES, NEW d \in Dirs, NEW e \in Entry, NEW h \in Tables,
         h.files = f.files, h.file_count = f.file_count, h.dirs = f.dirs, h.dir_count = f.dir_count
  PROVE  /\ f.file_count \in Entries
         /\ Shaped(AddEntry(h, d, e)) /\ Grown(f, AddEntry(h, d, e), d, f.file_count, e)
         /\ \A k \in Dirs : /\ AddEntry(h, d, e).dirs[k].name = f.dirs[k].name
                            /\ AddEntry(h, d, e).dirs[k].parent = f.dirs[k].parent
                            /\ k # d => AddEntry(h, d, e).dirs[k] = f.dirs[k]
         /\ AddEntry(h, d, e).dir_count = f.dir_count /\ AddEntry(h, d, e).mem = h.mem
<1> DEFINE g == AddEntry(h, d, e)
           n == f.file_count
           l == Append(f.dirs[d].files, n)
<1>1. n \in Entries
  BY CountsTyped, Sizes DEF Entries
<1>2. l \in Seq(Entries)
  BY <1>1, ListsTyped, Appended
<1>3. /\ g \in Tables
      /\ g.files = [f.files EXCEPT ![n] = e] /\ g.file_count = n + 1
      /\ g.dirs = [f.dirs EXCEPT ![d].files = Append(@, n)]
      /\ g.dir_count = f.dir_count /\ g.mem = h.mem
  <2>1. Append(h.dirs[d].files, h.file_count) \in Seq(Entries) /\ h.file_count \in Entries
    BY <1>1, <1>2
  <2>2. Adds(h, g, d, e)
    BY <2>1, EntryAdded
  <2> HIDE DEF g, n
  <2> QED
    BY <2>2 DEF Adds, n
<1> HIDE DEF g
<1>4. /\ f.files \in [Entries -> Entry] /\ f.dirs \in [Dirs -> Slot] /\ f.dirs[0].name = "/"
  BY DEF Shaped, Tables
<1>5. \A k \in Dirs : g.dirs[k] = IF k = d THEN [f.dirs[k] EXCEPT !.files = l] ELSE f.dirs[k]
  BY <1>3, <1>4
<1> HIDE DEF l, n
<1>6. \A k \in Dirs : /\ g.dirs[k].name = f.dirs[k].name /\ g.dirs[k].parent = f.dirs[k].parent
                      /\ g.dirs[k].files = IF k = d THEN l ELSE f.dirs[k].files
                      /\ k # d => g.dirs[k] = f.dirs[k]
  <2> TAKE k \in Dirs
  <2>1. f.dirs[k] \in Slot
    BY <1>4
  <2>2. CASE k = d
    <3>1. g.dirs[k] = [f.dirs[k] EXCEPT !.files = l]
      BY <1>5, <2>2
    <3> QED
      BY <2>1, <2>2, <3>1 DEF Slot
  <2>3. CASE k # d
    BY <1>5, <2>3
  <2> QED
    BY <2>2, <2>3
<1>7. Shaped(g)
  BY <1>3, <1>4, <1>6, Sizes DEF Shaped
<1>8. \A i \in Entries : g.files[i] = IF i = n THEN e ELSE f.files[i]
  <2>1. g.files = [f.files EXCEPT ![n] = e]
    BY <1>3
  <2> QED
    BY <1>4, <2>1
<1>9. Grown(f, g, d, n, e)
  <2>1. \A k \in Dirs : g.dirs[k].files = IF k = d THEN Append(f.dirs[k].files, n) ELSE f.dirs[k].files
    BY <1>6 DEF l
  <2> QED
    BY <1>3, <1>8, <2>1 DEF Grown
<1> QED
  BY <1>1, <1>3, <1>6, <1>7, <1>9 DEF g, n

(* What a file created leaves: entry e at the end of its directory's list. *)
Created(f, g, path, size) ==
    /\ ~ (Find(f, path) >= 0) /\ FindParentDir(f, path) \in Live(f) /\ f.file_count \in Entries
    /\ g.dir_count = f.dir_count
    /\ \A k \in Dirs : g.dirs[k].name = f.dirs[k].name /\ g.dirs[k].parent = f.dirs[k].parent
    /\ \E e : /\ Grown(f, g, FindParentDir(f, path), f.file_count, e)
              /\ e.name = FileName(path) /\ e.type = FILE /\ e.size = size
              /\ IF size > 0 THEN e.data \in Blocks /\ f.mem[e.data] = Free ELSE e.data = NULL
              /\ \A b \in Blocks : g.mem[b] = IF b = e.data THEN Uninit ELSE f.mem[b]

LEMMA CreateKeeps ==
  ASSUME NEW f, Sound(f), NEW path \in Seq(Names), NEW size \in Size, NEW ok
  PROVE  /\ Sound(Create(f, path, size, ok).fs)
         /\ Create(f, path, size, ok).reply.ok \in BOOLEAN
         /\ Create(f, path, size, ok).reply.data = <<>>
         /\ \/ Refuses(f, Create(f, path, size, ok))
            \/ /\ Succeeds(Create(f, path, size, ok).fs, Create(f, path, size, ok))
               /\ Created(f, Create(f, path, size, ok).fs, path, size)
<1> DEFINE d     == FindParentDir(f, path)
           block == IF size > 0 THEN Malloced(f) ELSE NULL
           name  == FileName(path)
           e     == [UnusedEntry EXCEPT !.name = name, !.parent = d, !.size = size, !.data = block]
           m     == [b \in Blocks |-> IF b = block THEN Uninit ELSE f.mem[b]]
           h     == [f EXCEPT !.mem = m]
           g     == AddEntry(h, d, e)
           r     == Create(f, path, size, ok)
           refused == \/ Find(f, path) >= 0
                      \/ d = NOT_FOUND
                      \/ f.file_count >= FS_MAX_FILES
                      \/ Len(f.dirs[d].files) >= FS_MAX_FILES_PER_DIR
                      \/ size > 0 /\ ~ (ok /\ CanMalloc(f))
<1>0. Shaped(f) /\ WellListed(f) /\ Paired(f) /\ Owned(f)
  BY DEF Sound
<1>1. /\ refused => Refuses(f, r)
      /\ ~ refused => Succeeds(g, r)
  <2>1. r = IF refused THEN Result(f, Refused) ELSE Result(g, Done(<<>>))
    BY DEF Create
  <2> HIDE DEF refused, r, g
  <2> QED
    BY <2>1 DEF Refuses, Succeeds
<1>2. CASE refused
  <2>1. Refuses(f, r)
    BY <1>1, <1>2
  <2> QED
    BY <2>1, Replies
<1>3. CASE ~ refused
  <2>1. /\ ~ (Find(f, path) >= 0) /\ d # NOT_FOUND /\ ~ (f.file_count >= FS_MAX_FILES)
        /\ ~ (Len(f.dirs[d].files) >= FS_MAX_FILES_PER_DIR)
        /\ size > 0 => CanMalloc(f)
    BY <1>3
  <2>2. d \in Live(f) /\ d \in Dirs /\ d < f.dir_count
    BY <1>0, <2>1, ParentLives DEF Live
  <2>3. f.file_count < FS_MAX_FILES /\ f.file_count <= FS_MAX_FILES
    BY <1>0, <2>1, CountsTyped, Sizes
  <2>4. Len(f.dirs[d].files) < FS_MAX_FILES_PER_DIR
    <3>1. f.dirs[d].files \in Seq(Entries)
      BY <1>0, <2>2, ListsTyped
    <3>2. Len(f.dirs[d].files) \in Nat
      BY <3>1
    <3> QED
      BY <2>1, <3>2, Sizes
  <2>5. name \in Names \cup {NoName} /\ \A i \in In(f, d) : f.files[i].name # name \/ name = NoName
    <3>1. path = <<>> => name = NoName
      BY FileNames
    <3>2. path # <<>> => name \in Names
      BY FileNames
    <3>3. path # <<>> => \A i \in In(f, d) : f.files[i].name # name
      BY <1>0, <2>1, Finds
    <3> QED
      BY <3>1, <3>2, <3>3
  <2>6. /\ block \in Blocks \cup {NULL} /\ (block # NULL => f.mem[block] = Free)
        /\ IF size > 0 THEN block \in Blocks /\ f.mem[block] = Free ELSE block = NULL
    BY <2>1, CanMallocs
  <2> HIDE DEF d, name, block, refused, r
  <2>0. e = [UnusedEntry EXCEPT !.name = name, !.parent = d, !.size = size, !.data = block]
    OBVIOUS
  <2> HIDE DEF e
  <2>7. /\ e \in Entry /\ e.name = name /\ e.type = FILE /\ e.parent = d /\ e.data = block /\ e.size = size
    BY <2>0, <2>2, <2>5, <2>6, UnusedTyped DEF Entry, Size
  <2>8. m \in [Blocks -> Data \cup {Free, Uninit}] /\ \A b \in Blocks : m[b] = IF b = block THEN Uninit ELSE f.mem[b]
    BY <1>0 DEF Shaped, Tables
  <2> HIDE DEF m
  <2>9. /\ h \in Tables /\ h.files = f.files /\ h.file_count = f.file_count
        /\ h.dirs = f.dirs /\ h.dir_count = f.dir_count /\ h.mem = m
    BY <1>0, <2>8 DEF Shaped, Tables
  <2> HIDE DEF h
  <2>10. /\ f.file_count \in Entries /\ Shaped(g) /\ Grown(f, g, d, f.file_count, e)
         /\ \A k \in Dirs : /\ g.dirs[k].name = f.dirs[k].name /\ g.dirs[k].parent = f.dirs[k].parent
                            /\ k # d => g.dirs[k] = f.dirs[k]
         /\ g.dir_count = f.dir_count /\ g.mem = m
    BY <1>0, <2>2, <2>3, <2>7, <2>8, <2>9, AddedShaped
  <2> HIDE DEF g
  <2>11. WellListed(g)
    <3>1. f.dir_count <= g.dir_count /\ g.dir_count \in Nat
      BY <1>0, <2>10, CountsTyped
    <3>2. \A k \in Dirs : k >= g.dir_count => g.dirs[k] = f.dirs[k]
      <4>1. \A k \in Dirs : k >= g.dir_count => k # d
        BY <1>0, <2>2, <2>10, CountsTyped, Sizes
      <4> QED
        BY <2>10, <4>1
    <3>3. Fits(f, g, d, e)
      BY <2>2, <2>4, <2>5, <2>7, <3>1, <3>2 DEF Fits
    <3> QED
      BY <1>0, <2>2, <2>10, <3>3, ListingGrows
  <2>12. Paired(g)
    <3>1. \A x \in Names \cup {NoName} : \A k : SlotsNamed(g, x, k) = SlotsNamed(f, x, k)
      <4>1. \A k \in 0 .. f.dir_count - 1 : k \in Dirs
        BY <1>0, Sizes DEF Shaped, Tables, Dirs
      <4> QED
        BY <2>10, <4>1 DEF SlotsNamed
    <3>2. \A k \in Dirs : In(g, k) = IF k = d THEN In(f, k) \cup {f.file_count} ELSE In(f, k)
      <4>1. ListsWith(f, g, d, f.file_count)
        BY <1>0, <2>2, <2>10, GrownLists
      <4> QED
        BY <4>1 DEF ListsWith
    <3>3. \A i \in Entries : g.files[i] = IF i = f.file_count THEN e ELSE f.files[i]
      BY <2>10 DEF Grown
    <3>4. \A k \in Dirs : In(f, k) \subseteq Entries /\ f.file_count \notin In(f, k)
      BY <1>0, ListsTyped, CountsTyped DEF WellListed
    <3>5. ASSUME NEW k \in Dirs, NEW i \in In(g, k), g.files[i].type = DIR, g.files[i].name # NoName
          PROVE  \E s \in Dirs : SlotsNamed(g, g.files[i].name, k) = {s}
      <4>1. i \in In(f, k) /\ g.files[i] = f.files[i] /\ i \in Entries
        BY <2>7, <2>10, <3>2, <3>3, <3>4, <3>5, UnusedTyped
      <4>2. \E s \in Dirs : SlotsNamed(f, f.files[i].name, k) = {s}
        BY <1>0, <3>5, <4>1 DEF Paired
      <4>3. f.files[i].name \in Names \cup {NoName}
        BY <1>0, <4>1 DEF Shaped, Tables, Entry
      <4> QED
        BY <3>1, <4>1, <4>2, <4>3
    <3>6. ASSUME NEW s \in Dirs \ {0}, s < g.dir_count
          PROVE  IF g.dirs[s].name = NoName THEN g.dirs[s].files = <<>>
                 ELSE /\ g.dirs[s].parent < s
                      /\ \E i \in In(g, g.dirs[s].parent) : g.files[i].type = DIR /\ g.files[i].name = g.dirs[s].name
      <4>1. IF f.dirs[s].name = NoName THEN f.dirs[s].files = <<>>
            ELSE /\ f.dirs[s].parent < s
                 /\ \E i \in In(f, f.dirs[s].parent) : f.files[i].type = DIR /\ f.files[i].name = f.dirs[s].name
        BY <1>0, <2>10, <3>6 DEF Paired
      <4>2. g.dirs[s].name = f.dirs[s].name /\ g.dirs[s].parent = f.dirs[s].parent
        BY <2>10
      <4>3. CASE f.dirs[s].name = NoName
        <5>1. s # d
          BY <2>2, <4>3 DEF Live
        <5> QED
          BY <2>10, <4>1, <4>2, <4>3, <5>1
      <4>4. CASE f.dirs[s].name # NoName
        <5>1. PICK i \in In(f, f.dirs[s].parent) : f.files[i].type = DIR /\ f.files[i].name = f.dirs[s].name
          BY <4>1, <4>4
        <5>2. f.dirs[s].parent \in Dirs
          BY <1>0, DirTyped
        <5>3. i \in In(g, f.dirs[s].parent) /\ g.files[i] = f.files[i]
          BY <3>2, <3>3, <3>4, <5>1, <5>2
        <5> QED
          BY <4>1, <4>2, <4>4, <5>1, <5>3
      <4> QED
        BY <4>3, <4>4
    <3> QED
      BY <3>5, <3>6 DEF Paired
  <2>13. Owned(g)
    <3>1. \A b \in Blocks : IF e.type = FILE /\ e.data = b THEN f.mem[b] = Free /\ g.mem[b] # Free
                                                         ELSE g.mem[b] = f.mem[b]
      BY <2>6, <2>7, <2>8, <2>10, DataTyped DEF Content
    <3> QED
      BY <1>0, <2>2, <2>10, <3>1, OwnedGrows
  <2>14. Succeeds(g, r)
    BY <1>1, <1>3 DEF refused
  <2>15. Sound(g)
    BY <2>10, <2>11, <2>12, <2>13 DEF Sound
  <2>16. Created(f, g, path, size)
    <3>1. \A b \in Blocks : g.mem[b] = IF b = e.data THEN Uninit ELSE f.mem[b]
      BY <2>7, <2>8, <2>10
    <3>2. IF size > 0 THEN e.data \in Blocks /\ f.mem[e.data] = Free ELSE e.data = NULL
      BY <2>6, <2>7
    <3>3. d \in Live(f) /\ ~ (Find(f, path) >= 0)
      BY <2>1, <2>2
    <3> QED
      BY <2>7, <2>10, <3>1, <3>2, <3>3 DEF Created, d, name
  <2>17. r.fs = g
    BY <2>14, Replies
  <2> QED
    BY <2>14, <2>15, <2>16, <2>17, Replies DEF r
<1> QED
  BY <1>2, <1>3

LEMMA UnusedDirTyped ==
  UnusedDir \in Slot /\ UnusedDir.files = <<>> /\ UnusedDir.name = NoName
<1>1. 0 \in Dirs /\ <<>> \in Seq(Entries)
  BY Sizes
<1> QED
  BY <1>1 DEF UnusedDir, Slot

(* A slot s of its own for the directory: the entries' lists are as before.*)
MakesSlot(a, g, s, slot) ==
    /\ Shaped(g) /\ g.files = a.files /\ g.file_count = a.file_count /\ g.mem = a.mem
    /\ g.dir_count = s + 1 /\ \A k \in Dirs : g.dirs[k] = IF k = s THEN slot ELSE a.dirs[k]
    /\ \A k \in Dirs : g.dirs[k].files = a.dirs[k].files

LEMMA SlotMade ==
  ASSUME NEW a, Shaped(a), NEW s \in Dirs \ {0}, a.dir_count = s, NEW slot \in Slot, slot.files = a.dirs[s].files,
         NEW g, g = [a EXCEPT !.dirs[s] = slot, !.dir_count = @ + 1]
  PROVE  MakesSlot(a, g, s, slot)
<1> DEFINE D == [a.dirs EXCEPT ![s] = slot]
           n == a.dir_count + 1
<1>1. a \in Tables /\ a.dirs \in [Dirs -> Slot] /\ a.dirs[0].name = "/"
  BY DEF Shaped, Tables
<1>2. D \in [Dirs -> Slot] /\ \A k \in Dirs : D[k] = IF k = s THEN slot ELSE a.dirs[k]
  BY <1>1
<1>3. n \in 1 .. FS_MAX_DIRECTORIES /\ n = s + 1
  <2>1. s \in 0 .. FS_MAX_DIRECTORIES - 1
    BY DEF Dirs
  <2> QED
    BY <2>1, Sizes
<1>4. g = [a EXCEPT !.dirs = D, !.dir_count = n]
  <2>1. [a EXCEPT !.dirs[s] = slot, !.dir_count = @ + 1] = [a EXCEPT !.dirs = D, !.dir_count = n]
    BY Zenon
  <2> QED
    BY <2>1, Zenon
<1> HIDE DEF D, n
<1>5. /\ g \in Tables /\ g.dirs = D /\ g.dir_count = n /\ g.files = a.files
      /\ g.file_count = a.file_count /\ g.mem = a.mem
  BY <1>1, <1>2, <1>3, <1>4 DEF Tables
<1>6. Shaped(g)
  BY <1>1, <1>2, <1>5, Sizes DEF Shaped
<1> QED
  BY <1>2, <1>3, <1>5, <1>6 DEF MakesSlot

(* No slot has the name of an entry the directory does not list.           *)
LEMMA NoSlotNamed ==
  ASSUME NEW f, Shaped(f), Paired(f), NEW d \in Dirs, NEW name \in Names,
         \A i \in In(f, d) : f.files[i].name # name
  PROVE  SlotsNamed(f, name, d) = {}
<1> SUFFICES ASSUME NEW s \in SlotsNamed(f, name, d) PROVE FALSE
  OBVIOUS
<1>1. s \in Dirs \ {0} /\ s < f.dir_count /\ f.dirs[s].name = name /\ f.dirs[s].parent = d /\ name # NoName
  BY SlotsInDirs, NamesProper
<1>2. \E i \in In(f, d) : f.files[i].name = name
  BY <1>1 DEF Paired
<1> QED
  BY <1>2

LEMMA PairedMkdir ==
  ASSUME NEW f, NEW g, NEW d \in Live(f), NEW e, Shaped(f), WellListed(f), Paired(f), Shaped(g),
         f.file_count \in Entries, f.dir_count \in Dirs, Grown(f, g, d, f.file_count, e),
         e.type = DIR, e.name \in Names \cup {NoName},
         \A i \in In(f, d) : f.files[i].name # e.name \/ e.name = NoName,
         g.dir_count = f.dir_count + 1, g.dirs[f.dir_count].name = e.name, g.dirs[f.dir_count].parent = d,
         g.dirs[f.dir_count].files = <<>>,
         \A k \in Dirs \ {f.dir_count} : g.dirs[k].name = f.dirs[k].name /\ g.dirs[k].parent = f.dirs[k].parent
  PROVE  Paired(g)
<1> DEFINE n == f.file_count
           s == f.dir_count
<1>0. /\ d \in Dirs /\ d < s /\ f.dirs[d].name # NoName /\ d # s /\ s \in Nat \ {0}
      /\ \A k \in 0 .. s - 1 : k \in Dirs /\ k # s
  <2>1. s \in 1 .. FS_MAX_DIRECTORIES
    BY DEF Shaped, Tables
  <2> QED
    BY <2>1, Sizes DEF Live, Dirs
<1>1. \A k \in Dirs : In(g, k) = IF k = d THEN In(f, k) \cup {n} ELSE In(f, k)
  <2>1. ListsWith(f, g, d, n)
    BY <1>0, GrownLists
  <2> QED
    BY <2>1 DEF ListsWith
<1>2. /\ \A i \in Entries : g.files[i] = IF i = n THEN e ELSE f.files[i]
      /\ \A k \in Dirs : k # d => g.dirs[k].files = f.dirs[k].files
  BY DEF Grown
<1>3. \A k \in Dirs : In(f, k) \subseteq Entries /\ n \notin In(f, k)
  BY ListsTyped, CountsTyped DEF WellListed
<1>4. \A name \in Names, k \in Dirs :
         SlotsNamed(g, name, k) = IF name = e.name /\ k = d THEN SlotsNamed(f, name, k) \cup {s} ELSE SlotsNamed(f, name, k)
  <2> TAKE name \in Names, k \in Dirs
  <2>1. 0 .. g.dir_count - 1 = (0 .. s - 1) \cup {s}
    BY <1>0
  <2> QED
    BY <1>0, <2>1 DEF SlotsNamed
<1>5. ASSUME NEW k \in Dirs, NEW i \in In(g, k), g.files[i].type = DIR, g.files[i].name # NoName
      PROVE  \E t \in Dirs : SlotsNamed(g, g.files[i].name, k) = {t}
  <2>1. CASE i = n
    <3>1. k = d /\ g.files[i] = e /\ e.name \in Names
      BY <1>1, <1>2, <1>3, <1>5, <2>1
    <3>2. SlotsNamed(f, e.name, d) = {}
      <4>1. \A j \in In(f, d) : f.files[j].name # e.name
        BY <1>5, <3>1
      <4> QED
        BY <1>0, <3>1, <4>1, NoSlotNamed
    <3>3. SlotsNamed(g, e.name, d) = {s}
      BY <1>0, <1>4, <3>1, <3>2
    <3> QED
      BY <3>1, <3>3
  <2>2. CASE i # n
    <3>1. i \in In(f, k) /\ i \in Entries /\ g.files[i] = f.files[i]
      BY <1>1, <1>2, <1>3, <2>2
    <3>2. \E t \in Dirs : SlotsNamed(f, f.files[i].name, k) = {t}
      BY <1>5, <3>1 DEF Paired
    <3>3. f.files[i].name \in Names
      BY <1>5, <3>1 DEF Shaped, Tables, Entry
    <3>4. ~ (f.files[i].name = e.name /\ k = d)
      BY <1>5, <3>1
    <3> QED
      BY <1>4, <3>1, <3>2, <3>3, <3>4
  <2> QED
    BY <2>1, <2>2
<1>6. ASSUME NEW t \in Dirs \ {0}, t < g.dir_count
      PROVE  IF g.dirs[t].name = NoName THEN g.dirs[t].files = <<>>
             ELSE /\ g.dirs[t].parent < t
                  /\ \E i \in In(g, g.dirs[t].parent) : g.files[i].type = DIR /\ g.files[i].name = g.dirs[t].name
  <2>1. CASE t = s
    <3>1. g.dirs[t].files = <<>> /\ g.dirs[t].parent < t
      BY <1>0, <2>1
    <3>2. n \in In(g, d) /\ g.files[n] = e
      BY <1>0, <1>1, <1>2
    <3> QED
      BY <2>1, <3>1, <3>2
  <2>2. CASE t # s
    <3>1. t < f.dir_count /\ g.dirs[t].name = f.dirs[t].name /\ g.dirs[t].parent = f.dirs[t].parent
      BY <1>0, <1>6, <2>2, Sizes
    <3>2. IF f.dirs[t].name = NoName THEN f.dirs[t].files = <<>>
          ELSE /\ f.dirs[t].parent < t
               /\ \E i \in In(f, f.dirs[t].parent) : f.files[i].type = DIR /\ f.files[i].name = f.dirs[t].name
      BY <3>1 DEF Paired
    <3>3. CASE f.dirs[t].name = NoName
      <4>1. t # d
        BY <1>0, <3>3
      <4> QED
        BY <1>2, <3>1, <3>2, <3>3, <4>1
    <3>4. CASE f.dirs[t].name # NoName
      <4>1. PICK i \in In(f, f.dirs[t].parent) : f.files[i].type = DIR /\ f.files[i].name = f.dirs[t].name
        BY <3>2, <3>4
      <4>2. f.dirs[t].parent \in Dirs
        BY DirTyped
      <4>3. i \in In(g, f.dirs[t].parent) /\ g.files[i] = f.files[i]
        BY <1>1, <1>2, <1>3, <4>1, <4>2
      <4> QED
        BY <3>1, <3>2, <3>4, <4>1, <4>3
    <3> QED
      BY <3>3, <3>4
  <2> QED
    BY <2>1, <2>2
<1> QED
  BY <1>5, <1>6 DEF Paired

LEMMA SoundParts ==
  ASSUME NEW f
  PROVE  Sound(f) <=> Shaped(f) /\ WellListed(f) /\ Paired(f) /\ Owned(f)
  BY DEF Sound

(* The name of an entry to be, and that the directory has none of it.      *)
LEMMA NameFree ==
  ASSUME NEW f, Shaped(f), NEW path \in Seq(Names), ~ (Find(f, path) >= 0), FindParentDir(f, path) # NOT_FOUND
  PROVE  /\ FileName(path) \in Names \cup {NoName}
         /\ FindParentDir(f, path) \in Live(f)
         /\ \A i \in In(f, FindParentDir(f, path)) : f.files[i].name # FileName(path) \/ FileName(path) = NoName
<1>1. path = <<>> => FileName(path) = NoName
  BY FileNames
<1>2. path # <<>> => FileName(path) \in Names
  BY FileNames
<1>3. path # <<>> => \A i \in In(f, FindParentDir(f, path)) : f.files[i].name # FileName(path)
  BY Finds
<1>4. FindParentDir(f, path) \in Live(f)
  BY ParentLives
<1> QED
  BY <1>1, <1>2, <1>3, <1>4

(* What a directory made leaves: an entry, and a slot with an empty list.  *)
DirMade(f, g, path) ==
    /\ ~ (Find(f, path) >= 0) /\ FindParentDir(f, path) \in Live(f) /\ f.file_count \in Entries
    /\ f.dir_count \in Dirs \ {0} /\ g.dir_count = f.dir_count + 1
    /\ \A k \in Dirs \ {f.dir_count} : g.dirs[k].name = f.dirs[k].name /\ g.dirs[k].parent = f.dirs[k].parent
    /\ g.dirs[f.dir_count].name = FileName(path) /\ g.dirs[f.dir_count].parent = FindParentDir(f, path)
    /\ g.dirs[f.dir_count].files = <<>>
    /\ \E e : /\ Grown(f, g, FindParentDir(f, path), f.file_count, e)
              /\ e.name = FileName(path) /\ e.type = DIR
    /\ g.mem = f.mem

LEMMA MkdirKeeps ==
  ASSUME NEW f, Sound(f), f.file_count <= FS_MAX_FILES, NEW path \in Seq(Names)
  PROVE  /\ Sound(Mkdir(f, path).fs)
         /\ Mkdir(f, path).reply.ok \in BOOLEAN /\ Mkdir(f, path).reply.data = <<>>
         /\ \/ Refuses(f, Mkdir(f, path))
            \/ Succeeds(Mkdir(f, path).fs, Mkdir(f, path)) /\ DirMade(f, Mkdir(f, path).fs, path)
<1> DEFINE d    == FindParentDir(f, path)
           name == FileName(path)
           s    == f.dir_count
           e    == [UnusedEntry EXCEPT !.name = name, !.type = DIR, !.parent = d]
           slot == [UnusedDir EXCEPT !.name = name, !.parent = d]
           a    == AddEntry(f, d, e)
           g    == [a EXCEPT !.dirs[s] = slot, !.dir_count = @ + 1]
           r    == Mkdir(f, path)
           refused == \/ Find(f, path) >= 0
                      \/ d = NOT_FOUND
                      \/ f.dir_count >= FS_MAX_DIRECTORIES
                      \/ Len(f.dirs[d].files) >= FS_MAX_FILES_PER_DIR
<1>0. Shaped(f) /\ WellListed(f) /\ Paired(f) /\ Owned(f)
  BY SoundParts
<1>1. /\ refused => Refuses(f, r)
      /\ ~ refused => Succeeds(g, r)
  <2>1. r = IF refused THEN Result(f, Refused) ELSE Result(g, Done(<<>>))
    BY DEF Mkdir
  <2> HIDE DEF refused, r, g
  <2> QED
    BY <2>1 DEF Refuses, Succeeds
<1>2. CASE refused
  <2>1. Refuses(f, r)
    BY <1>1, <1>2
  <2> QED
    BY <2>1, Replies
<1>3. CASE ~ refused
  <2>1. /\ ~ (Find(f, path) >= 0) /\ d # NOT_FOUND /\ ~ (s >= FS_MAX_DIRECTORIES)
        /\ ~ (Len(f.dirs[d].files) >= FS_MAX_FILES_PER_DIR)
    BY <1>3
  <2>2. /\ name \in Names \cup {NoName} /\ d \in Live(f)
        /\ \A i \in In(f, d) : f.files[i].name # name \/ name = NoName
    BY <1>0, <2>1, NameFree
  <2>3. d \in Dirs /\ d < s
    BY <2>2 DEF Live
  <2>4. s \in Dirs \ {0} /\ s \in Nat
    <3>1. s \in 1 .. FS_MAX_DIRECTORIES
      BY <1>0 DEF Shaped, Tables
    <3> QED
      BY <2>1, <3>1, Sizes DEF Dirs
  <2>5. Len(f.dirs[d].files) < FS_MAX_FILES_PER_DIR
    <3>1. f.dirs[d].files \in Seq(Entries)
      BY <1>0, <2>3, ListsTyped
    <3>2. Len(f.dirs[d].files) \in Nat
      BY <3>1
    <3> QED
      BY <2>1, <3>2, Sizes
  <2> HIDE DEF d, name, s, refused, r
  <2>6. e \in Entry /\ e.name = name /\ e.type = DIR /\ e.parent = d
    BY <2>2, <2>3, UnusedTyped DEF Entry
  <2>7. slot \in Slot /\ slot.files = <<>> /\ slot.name = name /\ slot.parent = d
    BY <2>2, <2>3, UnusedDirTyped DEF Slot
  <2> HIDE DEF e, slot
  <2>8. /\ f.file_count \in Entries /\ Shaped(a) /\ Grown(f, a, d, f.file_count, e)
        /\ \A k \in Dirs : /\ a.dirs[k].name = f.dirs[k].name /\ a.dirs[k].parent = f.dirs[k].parent
                           /\ k # d => a.dirs[k] = f.dirs[k]
        /\ a.dir_count = f.dir_count /\ a.mem = f.mem
    <3>1. f \in Tables
      BY <1>0 DEF Shaped
    <3> QED
      BY <1>0, <2>3, <2>6, <3>1, AddedShaped
  <2>9. a.dirs[s] = f.dirs[s] /\ a.dirs[s].files = <<>> /\ s # d
    <3>1. s # d
      BY <2>3, <2>4
    <3>2. f.dirs[s] = UnusedDir
      BY <1>0, <2>4 DEF WellListed, s
    <3> QED
      BY <2>4, <2>8, <3>1, <3>2, UnusedDirTyped
  <2> HIDE DEF a
  <2>10. /\ Shaped(g) /\ g.files = a.files /\ g.file_count = a.file_count /\ g.mem = a.mem
         /\ g.dir_count = s + 1 /\ \A k \in Dirs : g.dirs[k] = IF k = s THEN slot ELSE a.dirs[k]
         /\ \A k \in Dirs : g.dirs[k].files = a.dirs[k].files
    <3>1. a.dir_count = s /\ slot.files = a.dirs[s].files
      BY <2>7, <2>8, <2>9 DEF s
    <3>2. g = [a EXCEPT !.dirs[s] = slot, !.dir_count = @ + 1]
      OBVIOUS
    <3> HIDE DEF g
    <3>3. MakesSlot(a, g, s, slot)
      BY <2>4, <2>7, <2>8, <3>1, <3>2, SlotMade
    <3> QED
      BY <3>3 DEF MakesSlot
  <2> HIDE DEF g
  <2>11. Grown(f, g, d, f.file_count, e)
    BY <2>8, <2>10 DEF Grown
  <2>12. WellListed(g)
    <3>1. \A k \in Dirs : k >= g.dir_count => g.dirs[k] = f.dirs[k]
      <4>1. \A k \in Dirs : k >= g.dir_count => k # s /\ k # d
        BY <2>3, <2>4, <2>10, Sizes
      <4> QED
        BY <2>8, <2>10, <4>1
    <3>2. f.dir_count <= g.dir_count /\ g.dir_count \in Nat
      BY <2>4, <2>10 DEF s
    <3>3. Fits(f, g, d, e)
      BY <2>2, <2>3, <2>5, <2>6, <3>1, <3>2 DEF Fits, s
    <3> QED
      BY <1>0, <2>3, <2>8, <2>11, <3>3, ListingGrows
  <2>13. Paired(g)
    <3>1. \A k \in Dirs \ {f.dir_count} : g.dirs[k].name = f.dirs[k].name /\ g.dirs[k].parent = f.dirs[k].parent
      BY <2>8, <2>10 DEF s
    <3>2. /\ g.dir_count = f.dir_count + 1 /\ g.dirs[f.dir_count].name = e.name
          /\ g.dirs[f.dir_count].parent = d /\ g.dirs[f.dir_count].files = <<>>
      BY <2>4, <2>6, <2>7, <2>10 DEF s
    <3>3. f.dir_count \in Dirs
      BY <2>4 DEF s
    <3> QED
      BY <1>0, <2>2, <2>6, <2>8, <2>10, <2>11, <3>1, <3>2, <3>3, PairedMkdir
  <2>14. Owned(g)
    <3>1. \A b \in Blocks : IF e.type = FILE /\ e.data = b THEN f.mem[b] = Free /\ g.mem[b] # Free
                                                         ELSE g.mem[b] = f.mem[b]
      BY <2>6, <2>8, <2>10, UnusedTyped
    <3> QED
      BY <1>0, <2>3, <2>8, <2>11, <3>1, OwnedGrows
  <2>15. Sound(g) /\ Succeeds(g, r)
    BY <1>1, <1>3, <2>10, <2>12, <2>13, <2>14, SoundParts DEF refused
  <2>16. DirMade(f, g, path)
    <3>1. \A k \in Dirs \ {f.dir_count} : g.dirs[k].name = f.dirs[k].name /\ g.dirs[k].parent = f.dirs[k].parent
      BY <2>8, <2>10 DEF s
    <3>2. /\ g.dir_count = f.dir_count + 1 /\ g.dirs[f.dir_count].name = FileName(path)
          /\ g.dirs[f.dir_count].parent = FindParentDir(f, path) /\ g.dirs[f.dir_count].files = <<>>
      BY <2>4, <2>7, <2>10 DEF s, d, name
    <3>3. /\ ~ (Find(f, path) >= 0) /\ FindParentDir(f, path) \in Live(f) /\ f.dir_count \in Dirs \ {0}
          /\ f.file_count \in Entries /\ g.mem = f.mem
      BY <2>1, <2>2, <2>4, <2>8, <2>10 DEF s, d
    <3>4. Grown(f, g, FindParentDir(f, path), f.file_count, e) /\ e.name = FileName(path) /\ e.type = DIR
      BY <2>6, <2>11 DEF d, name
    <3> QED
      BY <3>1, <3>2, <3>3, <3>4 DEF DirMade
  <2>17. r.fs = g
    BY <2>15, Replies
  <2> QED
    BY <2>15, <2>16, <2>17, Replies DEF r
<1> QED
  BY <1>2, <1>3

(* What fs_delete does last, in whatever state h its first step left.      *)
Removes(h, g, d, i) ==
    /\ g \in Tables /\ g.files = [h.files EXCEPT ![i] = UnusedEntry]
    /\ g.file_count = h.file_count /\ g.dir_count = h.dir_count /\ g.mem = h.mem
    /\ \A k \in Dirs : /\ g.dirs[k].name = h.dirs[k].name /\ g.dirs[k].parent = h.dirs[k].parent
                       /\ g.dirs[k].files = IF k = d THEN Unlisted(h.dirs[k].files, i) ELSE h.dirs[k].files
                       /\ k # d => g.dirs[k] = h.dirs[k]

LEMMA EntryRemoved ==
  ASSUME NEW h \in Tables, NEW d \in Dirs, NEW i \in Entries, Unlisted(h.dirs[d].files, i) \in Seq(Entries),
         NEW g, g = [h EXCEPT !.dirs[d].files = Unlisted(@, i), !.files[i] = UnusedEntry]
  PROVE  Removes(h, g, d, i)
<1> DEFINE l == Unlisted(h.dirs[d].files, i)
           D == [h.dirs EXCEPT ![d].files = l]
           F == [h.files EXCEPT ![i] = UnusedEntry]
<1>1. h.files \in [Entries -> Entry] /\ h.dirs \in [Dirs -> Slot]
  BY DEF Tables
<1>2. F \in [Entries -> Entry]
  BY <1>1, UnusedTyped
<1>3. g = [h EXCEPT !.dirs = D, !.files = F]
  <2>1. [h EXCEPT !.dirs[d].files = Unlisted(@, i), !.files[i] = UnusedEntry] = [h EXCEPT !.dirs = D, !.files = F]
    BY Zenon
  <2> QED
    BY <2>1, Zenon
<1>4. l \in Seq(Entries)
  OBVIOUS
<1> HIDE DEF l
<1>5. \A k \in Dirs : D[k] = IF k = d THEN [h.dirs[k] EXCEPT !.files = l] ELSE h.dirs[k]
  BY <1>1
<1>6. D = [k \in Dirs |-> D[k]]
  BY <1>1
<1> HIDE DEF D, F
<1>7. ASSUME NEW k \in Dirs
      PROVE  /\ D[k] \in Slot /\ D[k].name = h.dirs[k].name /\ D[k].parent = h.dirs[k].parent
             /\ D[k].files = IF k = d THEN l ELSE h.dirs[k].files
             /\ k # d => D[k] = h.dirs[k]
  <2>1. h.dirs[k] \in Slot
    BY <1>1
  <2>2. CASE k = d
    <3>1. D[k] = [h.dirs[k] EXCEPT !.files = l]
      BY <1>5, <2>2
    <3> QED
      BY <1>4, <2>1, <2>2, <3>1 DEF Slot
  <2>3. CASE k # d
    BY <1>5, <2>1, <2>3
  <2> QED
    BY <2>2, <2>3
<1>8. D \in [Dirs -> Slot]
  BY <1>6, <1>7
<1>9. /\ g \in Tables /\ g.dirs = D /\ g.files = F /\ g.file_count = h.file_count
      /\ g.dir_count = h.dir_count /\ g.mem = h.mem
  BY <1>2, <1>3, <1>8 DEF Tables
<1>10. \A k \in Dirs : g.dirs[k].files = IF k = d THEN Unlisted(h.dirs[k].files, i) ELSE h.dirs[k].files
  BY <1>7, <1>9 DEF l
<1> QED
  BY <1>7, <1>9, <1>10 DEF Removes, F

LEMMA PairedFileGone ==
  ASSUME NEW f, NEW g, NEW d \in Live(f), NEW i \in In(f, d), Shaped(f), WellListed(f), Paired(f), Shrunk(f, g, d, i),
         f.files[i].type = FILE, g.dir_count = f.dir_count,
         \A k \in Dirs : g.dirs[k].name = f.dirs[k].name /\ g.dirs[k].parent = f.dirs[k].parent
  PROVE  Paired(g)
<1>0. d \in Dirs /\ f.dirs[d].name # NoName /\ FILE # DIR
  BY UnusedTyped DEF Live
<1>1. \A k \in Dirs : In(g, k) = In(f, k) \ {i} /\ In(f, k) \subseteq Entries
  <2>1. ListsWithout(f, g, i)
    BY <1>0, ShrunkLists
  <2> QED
    BY <2>1, ListsTyped DEF ListsWithout
<1>2. \A j \in Entries : j # i => g.files[j] = f.files[j]
  BY DEF Shrunk
<1>3. \A name, k : SlotsNamed(g, name, k) = SlotsNamed(f, name, k)
  <2>1. \A t \in 0 .. f.dir_count - 1 : t \in Dirs
    BY Sizes DEF Shaped, Tables, Dirs
  <2> QED
    BY <2>1 DEF SlotsNamed
<1>4. ASSUME NEW k \in Dirs, NEW j \in In(g, k), g.files[j].type = DIR, g.files[j].name # NoName
      PROVE  \E t \in Dirs : SlotsNamed(g, g.files[j].name, k) = {t}
  <2>1. j \in In(f, k) /\ g.files[j] = f.files[j]
    BY <1>1, <1>2
  <2>2. \E t \in Dirs : SlotsNamed(f, f.files[j].name, k) = {t}
    BY <1>4, <2>1 DEF Paired
  <2> QED
    BY <1>3, <2>1, <2>2
<1>5. ASSUME NEW t \in Dirs \ {0}, t < g.dir_count
      PROVE  IF g.dirs[t].name = NoName THEN g.dirs[t].files = <<>>
             ELSE /\ g.dirs[t].parent < t
                  /\ \E j \in In(g, g.dirs[t].parent) : g.files[j].type = DIR /\ g.files[j].name = g.dirs[t].name
  <2>1. IF f.dirs[t].name = NoName THEN f.dirs[t].files = <<>>
        ELSE /\ f.dirs[t].parent < t
             /\ \E j \in In(f, f.dirs[t].parent) : f.files[j].type = DIR /\ f.files[j].name = f.dirs[t].name
    BY <1>5 DEF Paired
  <2>2. CASE f.dirs[t].name = NoName
    <3>1. g.dirs[t].files = f.dirs[t].files
      BY <1>0, <2>2 DEF Shrunk
    <3> QED
      BY <2>1, <2>2, <3>1
  <2>3. CASE f.dirs[t].name # NoName
    <3>1. PICK j \in In(f, f.dirs[t].parent) : f.files[j].type = DIR /\ f.files[j].name = f.dirs[t].name
      BY <2>1, <2>3
    <3>2. f.dirs[t].parent \in Dirs /\ j # i
      BY <1>0, <3>1, DirTyped
    <3>3. j \in In(g, f.dirs[t].parent) /\ g.files[j] = f.files[j]
      BY <1>1, <1>2, <3>1, <3>2
    <3> QED
      BY <2>1, <2>3, <3>1, <3>3
  <2> QED
    BY <2>2, <2>3
<1> QED
  BY <1>4, <1>5 DEF Paired

(* Entry i and slot s are gone together: nothing was under s.              *)
SlotGone(f, g, d, i, s) ==
    /\ SlotsNamed(f, f.files[i].name, d) = {s} /\ f.dirs[s].files = <<>>
    /\ g.dir_count = f.dir_count /\ g.dirs[s].name = NoName
    /\ \A k \in Dirs : (k # s => g.dirs[k].name = f.dirs[k].name) /\ g.dirs[k].parent = f.dirs[k].parent

LEMMA PairedDirGone ==
  ASSUME NEW f, NEW g, NEW d \in Live(f), NEW i \in In(f, d), NEW s \in Dirs, Shaped(f), WellListed(f), Paired(f),
         Shrunk(f, g, d, i), f.files[i].name \in Names, SlotGone(f, g, d, i, s)
  PROVE  Paired(g)
<1>0. d \in Dirs /\ f.dirs[d].name # NoName
  BY DEF Live
<1>1. \A k \in Dirs : In(g, k) = In(f, k) \ {i} /\ In(f, k) \subseteq Entries
  <2>1. ListsWithout(f, g, i)
    BY <1>0, ShrunkLists
  <2> QED
    BY <2>1, ListsTyped DEF ListsWithout
<1>2. \A j \in Entries : j # i => g.files[j] = f.files[j]
  BY DEF Shrunk
<1>3. s # 0 /\ s # d /\ f.dirs[s].name = f.files[i].name /\ f.dirs[s].parent = d
  <2>1. /\ s \in Dirs \ {0} /\ s < f.dir_count /\ s \in Live(f)
        /\ f.dirs[s].name = f.files[i].name /\ f.dirs[s].parent = d
    <3>1. s \in SlotsNamed(f, f.files[i].name, d)
      BY DEF SlotGone
    <3> QED
      BY <3>1, SlotsInDirs
  <2>2. f.dirs[s].parent < s
    BY <2>1 DEF Paired, Live
  <2> QED
    BY <2>1, <2>2, Sizes
<1>4. \A name \in Names : \A k : SlotsNamed(g, name, k) = SlotsNamed(f, name, k) \ {s}
  <2>1. \A t \in 0 .. f.dir_count - 1 : t \in Dirs
    BY Sizes DEF Shaped, Tables, Dirs
  <2> QED
    BY <2>1, NamesProper DEF SlotsNamed, SlotGone
<1>5. ASSUME NEW k \in Dirs, NEW j \in In(g, k), g.files[j].type = DIR, g.files[j].name # NoName
      PROVE  \E t \in Dirs : SlotsNamed(g, g.files[j].name, k) = {t}
  <2>1. j \in In(f, k) /\ j # i /\ j \in Entries /\ g.files[j] = f.files[j]
    BY <1>1, <1>2
  <2>2. PICK t \in Dirs : SlotsNamed(f, f.files[j].name, k) = {t}
    <3>1. f.files[j].type = DIR /\ f.files[j].name # NoName
      BY <1>5, <2>1
    <3> QED
      BY <2>1, <3>1 DEF Paired
  <2>3. f.files[j].name \in Names
    BY <1>5, <2>1 DEF Shaped, Tables, Entry
  <2>4. t # s
    <3> SUFFICES ASSUME t = s PROVE FALSE
      OBVIOUS
    <3>1. s \in SlotsNamed(f, f.files[j].name, k)
      BY <2>2
    <3>2. f.dirs[s].name = f.files[j].name /\ f.dirs[s].parent = k
      BY <3>1 DEF SlotsNamed
    <3> QED
      <4>1. i \in In(f, k) /\ f.files[i].name = f.files[j].name /\ f.files[i].name # NoName
        BY <1>3, <2>3, <3>2, NamesProper
      <4> QED
        BY <2>1, <4>1 DEF WellListed
  <2> QED
    BY <1>4, <2>1, <2>2, <2>3, <2>4
<1>6. ASSUME NEW t \in Dirs \ {0}, t < g.dir_count
      PROVE  IF g.dirs[t].name = NoName THEN g.dirs[t].files = <<>>
             ELSE /\ g.dirs[t].parent < t
                  /\ \E j \in In(g, g.dirs[t].parent) : g.files[j].type = DIR /\ g.files[j].name = g.dirs[t].name
  <2>1. IF f.dirs[t].name = NoName THEN f.dirs[t].files = <<>>
        ELSE /\ f.dirs[t].parent < t
             /\ \E j \in In(f, f.dirs[t].parent) : f.files[j].type = DIR /\ f.files[j].name = f.dirs[t].name
    BY <1>6 DEF Paired, SlotGone
  <2>2. CASE t = s \/ f.dirs[t].name = NoName
    <3>1. g.dirs[t].files = f.dirs[t].files
      BY <1>0, <1>3, <2>2 DEF Shrunk
    <3>2. g.dirs[t].name = NoName /\ f.dirs[s].files = <<>>
      BY <2>2 DEF SlotGone
    <3> QED
      BY <2>1, <2>2, <3>1, <3>2
  <2>3. CASE t # s /\ f.dirs[t].name # NoName
    <3>1. PICK j \in In(f, f.dirs[t].parent) : f.files[j].type = DIR /\ f.files[j].name = f.dirs[t].name
      BY <2>1, <2>3
    <3>2. f.dirs[t].parent \in Dirs
      BY DirTyped
    <3>3. j # i
      <4> SUFFICES ASSUME j = i PROVE FALSE
        OBVIOUS
      <4>1. f.dirs[t].parent = d
        <5>1. f.files[i].parent = d
          BY <1>0 DEF WellListed
        <5>2. f.files[j].parent = f.dirs[t].parent
          BY <3>1, <3>2 DEF WellListed
        <5> QED
          BY <5>1, <5>2
      <4>2. t \in SlotsNamed(f, f.files[i].name, d)
        <5>1. t \in 0 .. f.dir_count - 1
          BY <1>6, Sizes DEF Shaped, Tables, SlotGone
        <5>2. f.dirs[t].name = f.files[i].name
          BY <3>1
        <5> QED
          BY <4>1, <5>1, <5>2 DEF SlotsNamed
      <4> QED
        BY <2>3, <4>2 DEF SlotGone
    <3>4. j \in In(g, f.dirs[t].parent) /\ g.files[j] = f.files[j]
      BY <1>1, <1>2, <3>1, <3>2, <3>3
    <3>5. g.dirs[t].name = f.dirs[t].name /\ g.dirs[t].parent = f.dirs[t].parent
      BY <2>3 DEF SlotGone
    <3> QED
      BY <2>1, <2>3, <3>1, <3>4, <3>5
  <2> QED
    BY <2>2, <2>3
<1> QED
  BY <1>5, <1>6 DEF Paired

(* fs_delete's first step. *)
Unnames(f, h, s) ==
    /\ h \in Tables /\ h.files = f.files /\ h.file_count = f.file_count /\ h.mem = f.mem
    /\ h.dir_count = f.dir_count
    /\ \A k \in Dirs : /\ h.dirs[k].name = IF k = s THEN NoName ELSE f.dirs[k].name
                       /\ h.dirs[k].parent = f.dirs[k].parent /\ h.dirs[k].files = f.dirs[k].files
                       /\ k # s => h.dirs[k] = f.dirs[k]

LEMMA SlotUnnamed ==
  ASSUME NEW f, Shaped(f), NEW s \in Dirs \ {0}, NEW h, h = [f EXCEPT !.dirs[s].name = NoName]
  PROVE  Unnames(f, h, s)
<1> DEFINE D == [f.dirs EXCEPT ![s].name = NoName]
<1>1. f \in Tables /\ f.dirs \in [Dirs -> Slot]
  BY DEF Shaped, Tables
<1>2. \A k \in Dirs : D[k] = IF k = s THEN [f.dirs[k] EXCEPT !.name = NoName] ELSE f.dirs[k]
  BY <1>1
<1>3. D = [k \in Dirs |-> D[k]]
  BY <1>1
<1>4. h = [f EXCEPT !.dirs = D]
  <2>1. [f EXCEPT !.dirs[s].name = NoName] = [f EXCEPT !.dirs = D]
    BY Zenon
  <2> QED
    BY <2>1, Zenon
<1> HIDE DEF D
<1>5. ASSUME NEW k \in Dirs
      PROVE  /\ D[k] \in Slot /\ D[k].name = IF k = s THEN NoName ELSE f.dirs[k].name
             /\ D[k].parent = f.dirs[k].parent /\ D[k].files = f.dirs[k].files
             /\ k # s => D[k] = f.dirs[k]
  <2>1. f.dirs[k] \in Slot
    BY <1>1
  <2>2. CASE k = s
    <3>1. D[k] = [f.dirs[k] EXCEPT !.name = NoName]
      BY <1>2, <2>2
    <3> QED
      BY <2>1, <2>2, <3>1 DEF Slot
  <2>3. CASE k # s
    BY <1>2, <2>1, <2>3
  <2> QED
    BY <2>2, <2>3
<1>6. D \in [Dirs -> Slot]
  BY <1>3, <1>5
<1>7. /\ h \in Tables /\ h.dirs = D /\ h.files = f.files /\ h.file_count = f.file_count
      /\ h.dir_count = f.dir_count /\ h.mem = f.mem
  BY <1>1, <1>4, <1>6 DEF Tables
<1> QED
  BY <1>5, <1>7 DEF Unnames

LEMMA FreedTyped ==
  ASSUME NEW f, f \in Tables, NEW b \in Blocks \cup {NULL}, NEW h, h = Freed(f, b)
  PROVE  /\ h \in Tables /\ h.files = f.files /\ h.file_count = f.file_count
         /\ h.dirs = f.dirs /\ h.dir_count = f.dir_count
         /\ \A c \in Blocks : h.mem[c] = IF c = b THEN Free ELSE f.mem[c]
<1>1. CASE b = NULL
  BY <1>1, DataTyped DEF Freed
<1>2. CASE b # NULL
  <2> DEFINE m == [f.mem EXCEPT ![b] = Free]
  <2>1. m \in [Blocks -> Data \cup {Free, Uninit}] /\ \A c \in Blocks : m[c] = IF c = b THEN Free ELSE f.mem[c]
    BY <1>2 DEF Tables
  <2>2. h = [f EXCEPT !.mem = m]
    <3>1. [f EXCEPT !.mem[b] = Free] = [f EXCEPT !.mem = m]
      BY Zenon
    <3> QED
      BY <1>2, <3>1 DEF Freed
  <2> HIDE DEF m
  <2> QED
    BY <2>1, <2>2 DEF Tables
<1> QED
  BY <1>1, <1>2

(* What a deletion leaves: of a file, or of a directory with an empty list.*)
Gone(f, g, path) ==
    /\ Find(f, path) \in Entries
    /\ Shrunk(f, g, FindParentDir(f, path), Find(f, path)) /\ GivesBack(f, g, Find(f, path))
    /\ g.dir_count = f.dir_count
    /\ \/ /\ f.files[Find(f, path)].type = FILE
          /\ \A k \in Dirs : g.dirs[k].name = f.dirs[k].name /\ g.dirs[k].parent = f.dirs[k].parent
       \/ /\ f.files[Find(f, path)].type = DIR
          /\ \E s \in Dirs : SlotGone(f, g, FindParentDir(f, path), Find(f, path), s)

LEMMA DeleteKeeps ==
  ASSUME NEW f, Sound(f), NEW path \in Seq(Names)
  PROVE  /\ Sound(Delete(f, path).fs) /\ Delete(f, path).fs.file_count = f.file_count
         /\ Delete(f, path).reply.ok \in BOOLEAN /\ Delete(f, path).reply.data = <<>>
         /\ \/ /\ Refuses(f, Delete(f, path))
               /\ Find(f, path) \in Entries => f.files[Find(f, path)].type # FILE
            \/ Succeeds(Delete(f, path).fs, Delete(f, path)) /\ Gone(f, Delete(f, path).fs, path)
<1> DEFINE i     == Find(f, path)
           e     == f.files[i]
           slots == SlotsNamed(f, e.name, e.parent)
           h     == IF e.type = DIR THEN [f EXCEPT !.dirs[Smallest(slots)].name = NoName]
                                    ELSE Freed(f, e.data)
           g     == Deleted(f, i)
           r     == Delete(f, path)
           d     == FindParentDir(f, path)
           refused == \/ i < 0
                      \/ e.type = DIR /\ (slots = {} \/ f.dirs[Smallest(slots)].files # <<>>)
<1>0. Shaped(f) /\ WellListed(f) /\ Paired(f) /\ Owned(f)
  BY SoundParts
<1>1. /\ refused => Refuses(f, r)
      /\ ~ refused => Succeeds(g, r)
  <2>1. r = IF i < 0 THEN Result(f, Refused)
            ELSE IF e.type = DIR /\ (slots = {} \/ f.dirs[Smallest(slots)].files # <<>>) THEN Result(f, Refused)
            ELSE Result(g, Done(<<>>))
    BY DEF Delete
  <2> HIDE DEF r, g, i, slots, e
  <2>2. CASE i < 0
    BY <2>1, <2>2 DEF Refuses
  <2>3. CASE ~ (i < 0) /\ refused
    <3>1. r = Result(f, Refused)
      BY <2>1, <2>3
    <3> QED
      BY <2>3, <3>1 DEF Refuses
  <2>4. CASE ~ refused
    <3>1. r = Result(g, Done(<<>>))
      BY <2>1, <2>4
    <3> QED
      BY <2>4, <3>1 DEF Succeeds
  <2> QED
    BY <2>2, <2>3, <2>4
<1>2. CASE refused
  <2>1. Refuses(f, r)
    BY <1>1, <1>2
  <2>2. i \in Entries => e.type # FILE
    <3>1. i < 0 <=> i \notin Entries
      BY <1>0, Finds
    <3> HIDE DEF i, e, slots
    <3> QED
      BY <1>2, <3>1, UnusedTyped
  <2> HIDE DEF r
  <2> QED
    BY <2>1, <2>2, Replies DEF r
<1>3. CASE ~ refused
  <2>1. ~ (i < 0) /\ (e.type = DIR => slots # {} /\ f.dirs[Smallest(slots)].files = <<>>)
    <3> HIDE DEF i, slots, e
    <3> QED
      BY <1>3
  <2>2. i \in Entries /\ path # <<>> /\ d \in Live(f) /\ i \in In(f, d) /\ e.name = FileName(path)
    BY <1>0, <2>1, Finds
  <2>3. e.parent = d /\ d \in Dirs /\ d < f.dir_count /\ e.name \in Names
    BY <1>0, <2>2, FileNames DEF Live, WellListed
  <2>4. e \in Entry /\ (e.type # DIR => e.type = FILE) /\ e.data \in Blocks \cup {NULL} /\ FILE # DIR
    BY <1>0, <2>2, UnusedTyped DEF Shaped, Tables, Entry
  <2>5. Unlisted(f.dirs[d].files, i) \in Seq(Entries)
    BY <1>0, <2>3, ListsTyped, UnlistedGone DEF WellListed
  <2> HIDE DEF i, d, e, slots, refused, r
  (* What every case needs of h, and what then holds of g. *)
  <2> DEFINE Ready == /\ h \in Tables /\ h.files = f.files /\ h.file_count = f.file_count
                      /\ h.dir_count = f.dir_count
                      /\ \A k \in Dirs : h.dirs[k].parent = f.dirs[k].parent /\ h.dirs[k].files = f.dirs[k].files
                      /\ \A k \in Dirs : k >= f.dir_count => h.dirs[k] = f.dirs[k]
                      /\ h.dirs[0].name = "/"
                      /\ \A b \in Blocks : h.mem[b] = IF e.type = FILE /\ e.data = b THEN Free ELSE f.mem[b]
  <2> HIDE DEF h
  <2>6. ASSUME Ready
        PROVE  /\ Shaped(g) /\ WellListed(g) /\ Owned(g) /\ Shrunk(f, g, d, i) /\ GivesBack(f, g, i)
               /\ g.dir_count = f.dir_count /\ g.file_count = f.file_count
               /\ \A k \in Dirs : g.dirs[k].name = h.dirs[k].name /\ g.dirs[k].parent = f.dirs[k].parent
    <3>1. g = [h EXCEPT !.dirs[d].files = Unlisted(@, i), !.files[i] = UnusedEntry]
      BY <2>3 DEF Deleted, h, e, slots
    <3> HIDE DEF g
    <3>2. Removes(h, g, d, i)
      <4>1. Unlisted(h.dirs[d].files, i) \in Seq(Entries) /\ h \in Tables
        BY <2>3, <2>5, <2>6
      <4> QED
        BY <2>2, <2>3, <3>1, <4>1, EntryRemoved
    <3>3. Shrunk(f, g, d, i)
      <4>1. \A j \in Entries : g.files[j] = IF j = i THEN UnusedEntry ELSE f.files[j]
        <5>1. g.files = [f.files EXCEPT ![i] = UnusedEntry] /\ f.files \in [Entries -> Entry]
          BY <1>0, <2>6, <3>2 DEF Removes, Shaped, Tables
        <5> QED
          BY <5>1
      <4>2. \A k \in Dirs : g.dirs[k].files = IF k = d THEN Unlisted(f.dirs[k].files, i) ELSE f.dirs[k].files
        BY <2>6, <3>2 DEF Removes
      <4> QED
        BY <2>6, <3>2, <4>1, <4>2 DEF Removes, Shrunk
    <3>4. Shaped(g)
      BY <2>6, <3>2, Sizes DEF Removes, Shaped
    <3>5. /\ g.dir_count = f.dir_count /\ g.file_count = f.file_count
          /\ \A k \in Dirs : g.dirs[k].name = h.dirs[k].name /\ g.dirs[k].parent = f.dirs[k].parent
      BY <2>6, <3>2 DEF Removes
    <3>6. WellListed(g)
      <4>1. \A k \in Dirs : k >= f.dir_count => k # d
        BY <1>0, <2>3, CountsTyped, Sizes
      <4>2. \A k \in Dirs : k >= f.dir_count => g.dirs[k] = f.dirs[k]
        BY <2>6, <3>2, <4>1 DEF Removes
      <4> QED
        BY <1>0, <2>2, <2>3, <3>3, <3>5, <4>2, ListingShrinks
    <3>7. GivesBack(f, g, i)
      BY <2>6, <3>2 DEF Removes, GivesBack, e
    <3>8. Owned(g)
      BY <1>0, <2>2, <2>3, <3>3, <3>7, OwnedShrinks
    <3> QED
      BY <3>3, <3>4, <3>5, <3>6, <3>7, <3>8
  <2> DEFINE Leaves == /\ Shrunk(f, g, d, i) /\ GivesBack(f, g, i) /\ g.dir_count = f.dir_count
                       /\ \/ /\ e.type = FILE
                             /\ \A k \in Dirs : g.dirs[k].name = f.dirs[k].name /\ g.dirs[k].parent = f.dirs[k].parent
                          \/ e.type = DIR /\ \E s \in Dirs : SlotGone(f, g, d, i, s)
  <2>7. Sound(g) /\ g.file_count = f.file_count /\ Leaves
    <3>1. CASE e.type = FILE
      <4>1. h = Freed(f, e.data)
        BY <2>4, <3>1 DEF h
      <4>2. /\ h \in Tables /\ h.files = f.files /\ h.file_count = f.file_count
            /\ h.dirs = f.dirs /\ h.dir_count = f.dir_count
            /\ \A c \in Blocks : h.mem[c] = IF c = e.data THEN Free ELSE f.mem[c]
        <5>1. f \in Tables
          BY <1>0 DEF Shaped
        <5> QED
          BY <2>4, <4>1, <5>1, FreedTyped
      <4>3. Ready
        BY <1>0, <3>1, <4>2 DEF Shaped
      <4>4. \A k \in Dirs : g.dirs[k].name = f.dirs[k].name /\ g.dirs[k].parent = f.dirs[k].parent
        BY <2>6, <4>2, <4>3
      <4>5. Paired(g)
        <5>1. f.files[i].type = FILE
          BY <3>1 DEF e
        <5> HIDE DEF g, Ready
        <5> QED
          BY <1>0, <2>2, <2>6, <4>3, <4>4, <5>1, PairedFileGone
      <4> HIDE DEF g, Ready
      <4> QED
        BY <2>6, <3>1, <4>3, <4>4, <4>5, SoundParts
    <3>2. CASE e.type = DIR
      <4>1. PICK s \in Dirs : slots = {s}
        <5>1. f.files[i].type = DIR /\ f.files[i].name # NoName /\ f.files[i].name = e.name
          BY <2>3, <3>2, NamesProper DEF e
        <5>2. \E s \in Dirs : SlotsNamed(f, f.files[i].name, d) = {s}
          BY <1>0, <2>2, <2>3, <5>1 DEF Paired
        <5>3. slots = SlotsNamed(f, f.files[i].name, d)
          BY <2>3, <5>1 DEF slots
        <5> QED
          BY <5>2, <5>3
      <4>2. Smallest(slots) = s
        <5>1. slots \subseteq Nat /\ slots # {}
          BY <4>1, Sizes
        <5> QED
          BY <4>1, <5>1, SmallestIn
      <4>3. f.dirs[s].files = <<>> /\ h = [f EXCEPT !.dirs[s].name = NoName]
        BY <2>1, <2>4, <3>2, <4>2 DEF h
      <4>4. s \in Dirs \ {0} /\ s < f.dir_count
        <5>1. s \in SlotsNamed(f, e.name, d)
          BY <2>3, <4>1 DEF slots
        <5> QED
          BY <1>0, <2>3, <5>1, SlotsInDirs
      <4>5. /\ h \in Tables /\ h.files = f.files /\ h.file_count = f.file_count /\ h.mem = f.mem
            /\ h.dir_count = f.dir_count
            /\ \A k \in Dirs : /\ h.dirs[k].name = IF k = s THEN NoName ELSE f.dirs[k].name
                               /\ h.dirs[k].parent = f.dirs[k].parent /\ h.dirs[k].files = f.dirs[k].files
                               /\ k # s => h.dirs[k] = f.dirs[k]
        <5>1. Unnames(f, h, s)
          BY <1>0, <4>3, <4>4, SlotUnnamed
        <5> QED
          BY <5>1 DEF Unnames
      <4>6. Ready
        <5>1. \A k \in Dirs : k >= f.dir_count => k # s
          BY <1>0, <4>4, CountsTyped, Sizes
        <5> QED
          BY <1>0, <2>4, <3>2, <4>4, <4>5, <5>1, Sizes DEF Shaped
      <4>7. SlotGone(f, g, d, i, s)
        <5>1. SlotsNamed(f, f.files[i].name, d) = {s}
          BY <2>3, <4>1 DEF slots, e
        <5>2. /\ g.dir_count = f.dir_count
              /\ \A k \in Dirs : g.dirs[k].name = h.dirs[k].name /\ g.dirs[k].parent = f.dirs[k].parent
          BY <2>6, <4>6
        <5> HIDE DEF g
        <5>3. g.dirs[s].name = NoName /\ \A k \in Dirs : k # s => g.dirs[k].name = f.dirs[k].name
          BY <4>5, <5>2
        <5> QED
          BY <4>3, <5>1, <5>2, <5>3 DEF SlotGone
      <4>8. Paired(g)
        <5>1. f.files[i].name \in Names
          BY <2>3 DEF e
        <5> HIDE DEF g, Ready
        <5> QED
          BY <1>0, <2>2, <2>6, <4>6, <4>7, <5>1, PairedDirGone
      <4> HIDE DEF g, Ready
      <4> QED
        BY <2>6, <3>2, <4>6, <4>7, <4>8, SoundParts
    <3> QED
      BY <2>4, <3>1, <3>2
  <2>8. Succeeds(g, r)
    BY <1>1, <1>3 DEF refused, h
  <2> HIDE DEF g
  <2>9. r.fs = g
    BY <2>8, Replies
  <2>10. Gone(f, g, path)
    BY <2>2, <2>7 DEF Gone, i, d, e
  <2> QED
    BY <2>7, <2>8, <2>9, <2>10, Replies DEF r
<1> QED
  BY <1>2, <1>3

(* A file's record and a block are given new contents. *)
Rewrites(g, h, i, b, size, data) ==
    /\ h \in Tables /\ h.file_count = g.file_count /\ h.dirs = g.dirs /\ h.dir_count = g.dir_count
    /\ \A j \in Entries : j # i => h.files[j] = g.files[j]
    /\ h.files[i].data = b /\ h.files[i].size = size
    /\ h.files[i].name = g.files[i].name /\ h.files[i].type = g.files[i].type
    /\ h.files[i].parent = g.files[i].parent
    /\ \A c \in Blocks : h.mem[c] = IF c = b THEN data ELSE g.mem[c]

LEMMA EntryRewritten ==
  ASSUME NEW g \in Tables, NEW i \in Entries, NEW b \in Blocks, NEW size \in Size, NEW data \in Content,
         NEW h, h = [g EXCEPT !.files[i].data = b, !.files[i].size = size, !.mem[b] = data]
  PROVE  Rewrites(g, h, i, b, size, data)
<1> DEFINE e == [g.files[i] EXCEPT !.data = b, !.size = size]
           F == [g.files EXCEPT ![i] = e]
           m == [g.mem EXCEPT ![b] = data]
<1>1. g.files \in [Entries -> Entry] /\ g.mem \in [Blocks -> Data \cup {Free, Uninit}]
  BY DEF Tables
<1>2. e \in Entry /\ e.data = b /\ e.size = size /\ e.name = g.files[i].name /\ e.type = g.files[i].type /\ e.parent = g.files[i].parent
  <2>1. g.files[i] \in Entry
    BY <1>1
  <2> QED
    BY <2>1 DEF Entry, Size
<1>3. F \in [Entries -> Entry] /\ F[i] = e /\ \A j \in Entries : j # i => F[j] = g.files[j]
  <2> HIDE DEF e
  <2> QED
    BY <1>1, <1>2
<1>4. m \in [Blocks -> Data \cup {Free, Uninit}] /\ \A c \in Blocks : m[c] = IF c = b THEN data ELSE g.mem[c]
  BY <1>1 DEF Content
<1>5. h = [g EXCEPT !.files = F, !.mem = m]
  <2>1. [g.files EXCEPT ![i].data = b, ![i].size = size] = F
    BY <1>1
  <2>2. h = [g EXCEPT !.files = [g.files EXCEPT ![i].data = b, ![i].size = size], !.mem = m]
    OBVIOUS
  <2> QED
    BY <2>1, <2>2
<1> HIDE DEF F, m
<1>6. /\ h \in Tables /\ h.files = F /\ h.mem = m /\ h.file_count = g.file_count
      /\ h.dirs = g.dirs /\ h.dir_count = g.dir_count
  BY <1>3, <1>4, <1>5 DEF Tables
<1> HIDE DEF e
<1> QED
  BY <1>2, <1>3, <1>4, <1>6 DEF Rewrites

(* fs_write's first step: g is f, or f with the old block given back.      *)
Unloads(f, g, i) ==
    /\ g \in Tables /\ g.file_count = f.file_count /\ g.dirs = f.dirs /\ g.dir_count = f.dir_count
    /\ \A j \in Entries : j # i => g.files[j] = f.files[j]
    /\ g.files[i].name = f.files[i].name /\ g.files[i].type = f.files[i].type
    /\ g.files[i].parent = f.files[i].parent /\ g.files[i].size = f.files[i].size
    /\ g.files[i].data \in {NULL, f.files[i].data}
    /\ \A c \in Blocks : g.mem[c] = IF c = f.files[i].data /\ c # g.files[i].data THEN Free ELSE f.mem[c]

LEMMA ContentUnloaded ==
  ASSUME NEW f \in Tables, NEW i \in Entries, NEW g,
         g = [Freed(f, f.files[i].data) EXCEPT !.files[i].data = NULL]
  PROVE  Unloads(f, g, i) /\ g.files[i].data = NULL
<1> DEFINE h == Freed(f, f.files[i].data)
           e == [f.files[i] EXCEPT !.data = NULL]
           F == [f.files EXCEPT ![i] = e]
<1>1. f.files \in [Entries -> Entry] /\ f.files[i] \in Entry
  BY DEF Tables
<1>2. f.files[i].data \in Blocks \cup {NULL}
  BY <1>1 DEF Entry
<1>3. /\ h \in Tables /\ h.files = f.files /\ h.file_count = f.file_count
      /\ h.dirs = f.dirs /\ h.dir_count = f.dir_count
      /\ \A c \in Blocks : h.mem[c] = IF c = f.files[i].data THEN Free ELSE f.mem[c]
  BY <1>2, FreedTyped
<1>4. g = [h EXCEPT !.files[i].data = NULL]
  OBVIOUS
<1> HIDE DEF h
<1>5. /\ e \in Entry /\ e.data = NULL /\ e.size = f.files[i].size
      /\ e.name = f.files[i].name /\ e.type = f.files[i].type /\ e.parent = f.files[i].parent
  BY <1>1 DEF Entry
<1>6. F \in [Entries -> Entry] /\ F[i] = e /\ \A j \in Entries : j # i => F[j] = f.files[j]
  <2> HIDE DEF e
  <2> QED
    BY <1>1, <1>5
<1>7. g = [h EXCEPT !.files = F]
  <2>1. [h EXCEPT !.files[i].data = NULL] = [h EXCEPT !.files = [h.files EXCEPT ![i] = [h.files[i] EXCEPT !.data = NULL]]]
    BY Zenon
  <2> QED
    BY <1>3, <1>4, <2>1
<1> HIDE DEF F
<1>8. /\ g \in Tables /\ g.files = F /\ g.mem = h.mem /\ g.file_count = f.file_count
      /\ g.dirs = f.dirs /\ g.dir_count = f.dir_count
  BY <1>3, <1>6, <1>7 DEF Tables
<1> HIDE DEF e
<1>9. g.files[i].data = NULL
  BY <1>5, <1>6, <1>8
<1>10. \A c \in Blocks : g.mem[c] = IF c = f.files[i].data /\ c # NULL THEN Free ELSE f.mem[c]
  BY <1>3, <1>8, DataTyped
<1>11. /\ \A j \in Entries : j # i => g.files[j] = f.files[j]
       /\ g.files[i].name = f.files[i].name /\ g.files[i].type = f.files[i].type
       /\ g.files[i].parent = f.files[i].parent /\ g.files[i].size = f.files[i].size
  BY <1>5, <1>6, <1>8
<1>12. \A c \in Blocks : g.mem[c] = IF c = f.files[i].data /\ c # g.files[i].data THEN Free ELSE f.mem[c]
  BY <1>9, <1>10
<1> QED
  BY <1>8, <1>9, <1>11, <1>12 DEF Unloads

(* What a write leaves: the file with a block of that content and size, or *)
(* with no block. *)
Filled(f, g, path, data, size) ==
    /\ Find(f, path) \in Entries /\ Rewritten(f, g, Find(f, path))
    /\ g.files[Find(f, path)].size = size
    /\ g.files[Find(f, path)].data \in Blocks /\ g.mem[g.files[Find(f, path)].data] = data

Emptied(f, g, path) ==
    /\ Find(f, path) \in Entries /\ Rewritten(f, g, Find(f, path))
    /\ g.files[Find(f, path)].size = f.files[Find(f, path)].size /\ g.files[Find(f, path)].data = NULL

LEMMA WriteKeeps ==
  ASSUME NEW f, Sound(f), NEW path \in Seq(Names), NEW data \in Content, NEW size \in Size, NEW ok
  PROVE  /\ Sound(Write(f, path, data, size, ok).fs) /\ Write(f, path, data, size, ok).fs.file_count = f.file_count
         /\ Write(f, path, data, size, ok).reply.ok \in BOOLEAN
         /\ Write(f, path, data, size, ok).reply.data = <<>>
         /\ \/ /\ Refuses(f, Write(f, path, data, size, ok))
               /\ Find(f, path) \in Entries => f.files[Find(f, path)].type # FILE
            \/ /\ Refuses(Write(f, path, data, size, ok).fs, Write(f, path, data, size, ok))
               /\ Emptied(f, Write(f, path, data, size, ok).fs, path)
               /\ f.files[Find(f, path)].data = NULL \/ f.files[Find(f, path)].size # size
            \/ /\ Succeeds(Write(f, path, data, size, ok).fs, Write(f, path, data, size, ok))
               /\ Filled(f, Write(f, path, data, size, ok).fs, path, data, size)
<1> DEFINE i == Find(f, path)
           d == FindParentDir(f, path)
           old == f.files[i].data
           g == IF old # NULL /\ f.files[i].size # size
                THEN [Freed(f, old) EXCEPT !.files[i].data = NULL]
                ELSE f
           b == IF g.files[i].data = NULL THEN Malloced(g) ELSE g.files[i].data
           h == [g EXCEPT !.files[i].data = b, !.files[i].size = size, !.mem[b] = data]
           r == Write(f, path, data, size, ok)
           absent  == i < 0 \/ f.files[i].type # FILE
           refused == g.files[i].data = NULL /\ ~ (ok /\ CanMalloc(g))
<1>0. Shaped(f) /\ WellListed(f) /\ Paired(f) /\ Owned(f) /\ f \in Tables
  BY SoundParts DEF Shaped
<1>1. /\ absent => Refuses(f, r)
      /\ ~ absent /\ refused => Refuses(g, r)
      /\ ~ absent /\ ~ refused => Succeeds(h, r)
  <2>1. r = IF absent THEN Result(f, Refused)
            ELSE IF refused THEN Result(g, Refused)
            ELSE Result(h, Done(<<>>))
    BY DEF Write
  <2> HIDE DEF r, g, h, absent, refused
  <2> QED
    BY <2>1 DEF Refuses, Succeeds
<1>2. CASE absent
  <2>1. Refuses(f, r)
    BY <1>1, <1>2
  <2>2. i \in Entries => f.files[i].type # FILE
    <3>1. i < 0 <=> i \notin Entries
      BY <1>0, Finds
    <3> HIDE DEF i
    <3> QED
      BY <1>2, <3>1
  <2> HIDE DEF r, i
  <2>3. r.fs = f /\ r.reply.ok \in BOOLEAN /\ r.reply.data = <<>>
    BY <2>1, Replies
  <2> QED
    BY <2>1, <2>2, <2>3 DEF r, i
<1>3. CASE ~ absent
  <2>1. ~ (i < 0) /\ f.files[i].type = FILE
    BY <1>3
  <2>2. i \in Entries /\ d \in Live(f) /\ d \in Dirs /\ i \in In(f, d)
    BY <1>0, <2>1, Finds DEF Live
  <2>3. old \in Blocks \cup {NULL} /\ NULL \notin Blocks
    BY <1>0, <2>2, DataTyped DEF Tables, Entry
  <2> HIDE DEF i, d, absent, r
  <2>4. Unloads(f, g, i)
    <3>1. CASE old # NULL /\ f.files[i].size # size
      <4>1. g = [Freed(f, f.files[i].data) EXCEPT !.files[i].data = NULL]
        BY <3>1
      <4> HIDE DEF g
      <4> QED
        BY <1>0, <2>2, <4>1, ContentUnloaded
    <3>2. CASE ~ (old # NULL /\ f.files[i].size # size)
      <4>1. g = f
        BY <3>2
      <4> HIDE DEF g
      <4> QED
        BY <1>0, <4>1 DEF Unloads
    <3> QED
      BY <3>1, <3>2
  <2> HIDE DEF g, refused
  (* Whatever h2 is left, by whichever way, the file owns its block again. *)
  <2>5. ASSUME NEW x, x \in Tables, Rewritten(f, x, i) PROVE Sound(x) /\ x.file_count = f.file_count
    <3>1. Shaped(x)
      BY <1>0, <2>5 DEF Shaped, Rewritten
    <3>2. WellListed(x) /\ Paired(x)
      BY <1>0, <2>2, <2>5, ListingRewritten
    <3>3. Owned(x)
      BY <1>0, <2>2, <2>5, OwnedRewritten
    <3> QED
      BY <2>5, <3>1, <3>2, <3>3, SoundParts DEF Rewritten
  <2>6. CASE refused
    <3>1. g.files[i].data = NULL
      BY <2>6 DEF refused
    <3>2. Rewritten(f, g, i)
      BY <2>1, <2>3, <2>4, <3>1 DEF Unloads, Rewritten
    <3>3. Sound(g) /\ g.file_count = f.file_count
      BY <2>4, <2>5, <3>2 DEF Unloads
    <3>4. Refuses(g, r)
      BY <1>1, <1>3, <2>6
    <3>5. r.fs = g
      BY <3>4, Replies
    <3>6. (old = NULL \/ f.files[i].size # size) /\ g.files[i].size = f.files[i].size
      <4>1. CASE old # NULL /\ f.files[i].size # size
        BY <2>4, <4>1 DEF Unloads
      <4>2. CASE ~ (old # NULL /\ f.files[i].size # size)
        <5>1. g = f
          BY <4>2 DEF g
        <5> QED
          BY <3>1, <4>2, <5>1
      <4> QED
        BY <4>1, <4>2
    <3>7. Emptied(f, g, path)
      BY <2>2, <3>1, <3>2, <3>6 DEF Emptied, i
    <3> QED
      BY <3>3, <3>4, <3>5, <3>6, <3>7, Replies DEF r, i
  <2>7. CASE ~ refused
    <3>1. b \in Blocks /\ (g.files[i].data = NULL => g.mem[b] = Free) /\ (g.files[i].data # NULL => b = g.files[i].data)
      <4>1. CASE g.files[i].data = NULL
        <5>1. CanMalloc(g)
          BY <2>7, <4>1 DEF refused
        <5> QED
          BY <4>1, <5>1, CanMallocs
      <4>2. CASE g.files[i].data # NULL
        BY <2>3, <2>4, <4>2 DEF Unloads
      <4> QED
        BY <4>1, <4>2
    <3> HIDE DEF b
    <3>2. h = [g EXCEPT !.files[i].data = b, !.files[i].size = size, !.mem[b] = data]
      OBVIOUS
    <3> HIDE DEF h
    <3>3. Rewrites(g, h, i, b, size, data)
      <4>1. g \in Tables
        BY <2>4 DEF Unloads
      <4> QED
        BY <2>2, <3>1, <3>2, <4>1, EntryRewritten
    <3>4. /\ h.files[i].data = b /\ data # Free /\ h \in Tables
          /\ \A c \in Blocks : h.mem[c] = IF c = b THEN data ELSE g.mem[c]
          /\ \A c \in Blocks : g.mem[c] = IF c = old /\ c # g.files[i].data THEN Free ELSE f.mem[c]
          /\ g.files[i].data \in {NULL, old}
      BY <2>4, <3>3, DataTyped DEF Unloads, Rewrites
    <3>5. \A c \in Blocks :
             IF c = h.files[i].data THEN h.mem[c] # Free /\ (c = old \/ f.mem[c] = Free)
             ELSE h.mem[c] = IF c = old THEN Free ELSE f.mem[c]
      <4> HIDE DEF old
      <4> QED
        BY <2>3, <3>1, <3>4
    <3>6. Rewritten(f, h, i)
      <4>1. /\ h.file_count = f.file_count /\ h.dirs = f.dirs /\ h.dir_count = f.dir_count
            /\ \A j \in Entries : j # i => h.files[j] = f.files[j]
            /\ h.files[i].name = f.files[i].name /\ h.files[i].parent = f.files[i].parent
            /\ h.files[i].type = f.files[i].type
        BY <2>4, <3>3 DEF Unloads, Rewrites
      <4> QED
        BY <2>1, <3>5, <4>1 DEF Rewritten
    <3>7. Sound(h) /\ h.file_count = f.file_count
      BY <2>5, <3>4, <3>6
    <3>8. Succeeds(h, r)
      BY <1>1, <1>3, <2>7 DEF h, b
    <3>9. r.fs = h
      BY <3>8, Replies
    <3>10. Filled(f, h, path, data, size)
      BY <2>2, <3>1, <3>3, <3>6 DEF Filled, Rewrites, i
    <3> QED
      BY <3>7, <3>8, <3>9, <3>10, Replies DEF r
  <2> QED
    BY <2>6, <2>7
<1> QED
  BY <1>2, <1>3

(* A listed file's block is in use. *)
LEMMA ContentOf ==
  ASSUME NEW f, Sound(f), NEW path \in Seq(Names), ~ (Find(f, path) < 0), f.files[Find(f, path)].type = FILE
  PROVE  /\ f.files[Find(f, path)].size \in Size
         /\ f.files[Find(f, path)].data # NULL => f.mem[f.files[Find(f, path)].data] \in Content
<1> DEFINE i == Find(f, path)
           d == FindParentDir(f, path)
           b == f.files[i].data
<1>1. Shaped(f) /\ Owned(f)
  BY SoundParts
<1>2. i \in Entries /\ d \in Live(f) /\ d \in Dirs /\ i \in In(f, d)
  BY <1>1, Finds DEF Live
<1> HIDE DEF i, d
<1>3. f.files[i].size \in Size /\ b \in Blocks \cup {NULL} /\ f.mem \in [Blocks -> Data \cup {Free, Uninit}]
  BY <1>1, <1>2 DEF Shaped, Tables, Entry, Size
<1>4. Owns(f, d, i, b)
  BY <1>2 DEF Owns, i
<1>5. b # NULL => f.mem[b] # Free
  BY <1>1, <1>2, <1>3, <1>4 DEF Owned
<1>6. b # NULL => f.mem[b] \in Content
  BY <1>3, <1>5 DEF Content
<1> QED
  BY <1>3, <1>6 DEF i

(* A call leaves a sound state and answers as it should. *)
AnswerOK(reply_) == reply_.ok \in BOOLEAN /\ reply_.data \in Data \cup {<<>>, Uninit}
Good(r) == Sound(r.fs) /\ AnswerOK(r.reply)

LEMMA RefusedGood ==
  ASSUME NEW f, Sound(f)
  PROVE  Good(Result(f, Refused))
<1>1. Refuses(f, Result(f, Refused))
  BY DEF Refuses
<1> QED
  BY <1>1, Replies DEF Good, AnswerOK

LEMMA ReadKeeps ==
  ASSUME NEW f, Sound(f), NEW path \in Seq(Names)
  PROVE  Good(Result(f, Read(f, path)))
<1> DEFINE i == Find(f, path)
           m == f.mem[f.files[i].data]
<1>1. \A x : Result(f, x).fs = f /\ Result(f, x).reply = x
  BY DEF Result
<1>2. \A x : Done(x).ok = TRUE /\ Done(x).data = x
  BY DEF Done
<1>3. CASE i < 0 \/ f.files[i].type # FILE
  <2>1. Read(f, path) = Refused
    BY <1>3 DEF Read
  <2> QED
    BY <2>1, RefusedGood
<1>4. CASE ~ (i < 0 \/ f.files[i].type # FILE) /\ f.files[i].data = NULL
  <2>1. Read(f, path) = Done(<<>>)
    BY <1>4 DEF Read
  <2>2. AnswerOK(Done(<<>>))
    BY <1>2 DEF AnswerOK
  <2> QED
    BY <1>1, <2>1, <2>2 DEF Good
<1>5. CASE ~ (i < 0 \/ f.files[i].type # FILE) /\ f.files[i].data # NULL
  <2>1. Read(f, path) = Done(m)
    BY <1>5 DEF Read
  <2>2. m \in Content
    BY <1>5, ContentOf
  <2> HIDE DEF m
  <2>3. AnswerOK(Done(m))
    BY <1>2, <2>2 DEF AnswerOK, Content
  <2> QED
    BY <1>1, <2>1, <2>3 DEF Good
<1> QED
  BY <1>3, <1>4, <1>5

LEMMA MkdirGood ==
  ASSUME NEW f, Sound(f), f.file_count <= FS_MAX_FILES, NEW path \in Seq(Names)
  PROVE  Good(Mkdir(f, path))
  BY MkdirKeeps DEF Good, AnswerOK

LEMMA CreateGood ==
  ASSUME NEW f, Sound(f), NEW path \in Seq(Names), NEW size \in Size, NEW ok
  PROVE  Good(Create(f, path, size, ok))
  BY CreateKeeps DEF Good, AnswerOK

LEMMA DeleteGood ==
  ASSUME NEW f, Sound(f), NEW path \in Seq(Names)
  PROVE  Good(Delete(f, path))
  BY DeleteKeeps DEF Good, AnswerOK

LEMMA WriteGood ==
  ASSUME NEW f, Sound(f), NEW path \in Seq(Names), NEW data \in Content, NEW size \in Size, NEW ok
  PROVE  Good(Write(f, path, data, size, ok))
  BY WriteKeeps DEF Good, AnswerOK

LEMMA CopyGood ==
  ASSUME NEW f, Sound(f), NEW src \in Seq(Names), NEW dest \in Seq(Names), NEW ok, NEW okTemp
  PROVE  Good(Copy(f, src, dest, ok, okTemp))
<1> DEFINE i       == Find(f, src)
           size    == f.files[i].size
           data    == f.mem[f.files[i].data]
           created == Create(f, dest, size, ok)
           written == Write(created.fs, dest, data, size, TRUE)
           undone  == Delete(created.fs, dest).fs
           r       == Copy(f, src, dest, ok, okTemp)
           absent  == i < 0 \/ f.files[i].type # FILE
           empty   == f.files[i].data = NULL \/ size = 0
<1>1. r = IF absent \/ Find(f, dest) >= 0 THEN Result(f, Refused)
          ELSE IF ~ created.reply.ok THEN created
          ELSE IF empty THEN created
          ELSE IF ~ (okTemp /\ CanMalloc(created.fs)) THEN Result(undone, Refused)
          ELSE IF ~ written.reply.ok THEN Result(undone, Refused)
          ELSE written
  BY DEF Copy
<1>2. CASE absent
  <2>1. r = Result(f, Refused)
    <3> HIDE DEF absent, r, created, written, undone, empty
    <3> QED
      BY <1>1, <1>2
  <2> QED
    BY <2>1, RefusedGood
<1>3. CASE ~ absent
  <2>1. ~ (i < 0) /\ f.files[i].type = FILE
    BY <1>3
  <2>2. size \in Size /\ (f.files[i].data # NULL => data \in Content)
    BY <2>1, ContentOf
  <2>3. ~ empty => data \in Content
    BY <2>2
  <2> HIDE DEF i, size, data, absent, empty, r
  <2>4. Good(created) /\ Sound(created.fs)
    BY <2>2, CreateGood DEF Good
  <2> HIDE DEF created
  <2>5. Sound(undone)
    BY <2>4, DeleteKeeps
  <2>6. ~ empty => Good(written)
    BY <2>2, <2>3, <2>4, WriteGood
  <2> HIDE DEF written, undone
  <2>7. Good(Result(f, Refused)) /\ Good(Result(undone, Refused))
    BY <2>5, RefusedGood
  <2> QED
    BY <1>1, <2>4, <2>6, <2>7 DEF r
<1> QED
  BY <1>2, <1>3

LEMMA MoveGood ==
  ASSUME NEW f, Sound(f), NEW src \in Seq(Names), NEW dest \in Seq(Names), NEW ok, NEW okTemp
  PROVE  Good(Move(f, src, dest, ok, okTemp))
<1> DEFINE copied  == Copy(f, src, dest, ok, okTemp)
           deleted == Delete(copied.fs, src)
           undone  == Delete(deleted.fs, dest).fs
           r       == Move(f, src, dest, ok, okTemp)
<1>1. r = IF ~ copied.reply.ok THEN copied
          ELSE IF ~ deleted.reply.ok THEN Result(undone, Refused)
          ELSE deleted
  BY DEF Move
<1>2. Good(copied) /\ Sound(copied.fs)
  BY CopyGood DEF Good
<1> HIDE DEF copied, r
<1>3. Good(deleted) /\ Sound(deleted.fs)
  BY <1>2, DeleteGood DEF Good
<1> HIDE DEF deleted
<1>4. Good(Result(undone, Refused))
  <2>1. Sound(undone)
    BY <1>3, DeleteKeeps
  <2> QED
    BY <2>1, RefusedGood
<1> HIDE DEF undone
<1> QED
  BY <1>1, <1>2, <1>3, <1>4 DEF r

-----------------------------------------------------------------------------
(* The specification. *)
FsIInv == Sound(fs) /\ AnswerOK(reply)

LEMMA PathsOfNames ==
  ASSUME NEW p \in Named
  PROVE  p \in Seq(Names)
<1>1. CASE p = <<>>
  BY <1>1
<1>2. CASE p \in Paths
  <2>1. p \in Seq(Names \ {NoName, "/"})
    BY <1>2, FsAssumption
  <2>2. Len(p) \in Nat /\ p = [j \in 1 .. Len(p) |-> p[j]] /\ \A j \in 1 .. Len(p) : p[j] \in Names
    BY <2>1
  <2> QED
    BY <2>2, IsASeq
<1> QED
  BY <1>1, <1>2 DEF Named

LEMMA FsInit ==
  Init => FsIInv
<1> SUFFICES ASSUME Init PROVE FsIInv
  OBVIOUS
<1>1. /\ fs.files = [i \in Entries |-> UnusedEntry] /\ fs.file_count = 0 /\ fs.dir_count = 1
      /\ fs.dirs = [k \in Dirs |-> IF k = 0 THEN [UnusedDir EXCEPT !.name = "/"] ELSE UnusedDir]
      /\ fs.mem = [b \in Blocks |-> Free]
  BY DEF Init
<1>2. [UnusedDir EXCEPT !.name = "/"] \in Slot /\ [UnusedDir EXCEPT !.name = "/"].files = <<>>
      /\ [UnusedDir EXCEPT !.name = "/"].name = "/"
  BY UnusedDirTyped DEF Slot
<1>3. \A k \in Dirs : /\ fs.dirs[k] \in Slot /\ fs.dirs[k].files = <<>>
                      /\ k # 0 => fs.dirs[k] = UnusedDir
                      /\ k = 0 => fs.dirs[k].name = "/"
  BY <1>1, <1>2, UnusedDirTyped
<1>4. Shaped(fs)
  <2>1. fs.files \in [Entries -> Entry] /\ fs.mem \in [Blocks -> Data \cup {Free, Uninit}]
    BY <1>1, UnusedTyped
  <2>2. fs.dirs \in [Dirs -> Slot]
    BY <1>1, <1>2, UnusedDirTyped
  <2>3. fs.file_count \in 0 .. FS_MAX_FILES + 1 /\ fs.dir_count \in 1 .. FS_MAX_DIRECTORIES
    BY <1>1, Sizes
  <2>4. fs \in Tables
    <3>1. ASSUME NEW F \in [Entries -> Entry], NEW n \in 0 .. FS_MAX_FILES + 1, NEW D \in [Dirs -> Slot],
                 NEW k \in 1 .. FS_MAX_DIRECTORIES, NEW m \in [Blocks -> Data \cup {Free, Uninit}]
          PROVE  [files |-> F, file_count |-> n, dirs |-> D, dir_count |-> k, mem |-> m] \in Tables
      BY DEF Tables
    <3>2. fs = [files |-> fs.files, file_count |-> fs.file_count, dirs |-> fs.dirs, dir_count |-> fs.dir_count,
                mem |-> fs.mem]
      BY DEF Init
    <3> QED
      BY <2>1, <2>2, <2>3, <3>1, <3>2
  <2> QED
    BY <1>3, <2>4, Sizes DEF Shaped
<1>5. \A k \in Dirs : In(fs, k) = {}
  BY <1>3 DEF In, ToSet
<1>6. WellListed(fs)
  <2>1. \A k \in Dirs : Len(fs.dirs[k].files) <= FS_MAX_FILES_PER_DIR /\ Injective(fs.dirs[k].files)
    BY <1>3, Sizes DEF Injective
  <2>2. \A k \in Dirs : k >= fs.dir_count => fs.dirs[k] = UnusedDir
    BY <1>1, <1>3, Sizes
  <2>3. Made(fs) = {}
    BY <1>1 DEF Made
  <2> QED
    BY <1>5, <2>1, <2>2, <2>3 DEF WellListed
<1>7. Paired(fs)
  <2>1. \A s \in Dirs \ {0} : ~ (s < fs.dir_count)
    BY <1>1, Sizes
  <2> QED
    BY <1>5, <2>1 DEF Paired
<1>8. Owned(fs)
  BY <1>1, <1>5 DEF Owned
<1>9. AnswerOK(reply)
  BY DEF Init, Refused, AnswerOK
<1> QED
  BY <1>4, <1>6, <1>7, <1>8, <1>9, SoundParts DEF FsIInv

LEMMA ReturnsGood ==
  ASSUME NEW results, \A r \in results : Good(r), Returns(results)
  PROVE  FsIInv'
<1>1. PICK r \in results : fs' = r.fs /\ reply' = r.reply
  BY DEF Returns
<1> QED
  BY <1>1 DEF FsIInv, Good

LEMMA FsStep ==
  FsIInv /\ [Next]_vars => FsIInv'
<1> SUFFICES ASSUME FsIInv, [Next]_vars PROVE FsIInv'
  OBVIOUS
<1>0. Sound(fs)
  BY DEF FsIInv
<1>1. CASE fs_mkdir /\ fs.file_count <= FS_MAX_FILES
  <2>1. \A p \in Named : Good(Mkdir(fs, p))
    BY <1>0, <1>1, MkdirGood, PathsOfNames
  <2>2. \A r \in {Mkdir(fs, p) : p \in Named} : Good(r)
    BY <2>1
  <2> QED
    BY <1>1, <2>2, ReturnsGood DEF fs_mkdir
<1>2. CASE fs_create
  <2>1. \A p \in Named : Good(Create(fs, p, 0, TRUE))
    BY <1>0, CreateGood, PathsOfNames, DataTyped
  <2>2. \A r \in {Create(fs, p, 0, TRUE) : p \in Named} : Good(r)
    BY <2>1
  <2> QED
    BY <1>2, <2>2, ReturnsGood DEF fs_create
<1>3. CASE fs_delete
  <2>1. \A p \in Named : Good(Delete(fs, p))
    BY <1>0, DeleteGood, PathsOfNames
  <2>2. \A r \in {Delete(fs, p) : p \in Named} : Good(r)
    BY <2>1
  <2> QED
    BY <1>3, <2>2, ReturnsGood DEF fs_delete
<1>4. CASE fs_write
  <2>1. \A p \in Named, d \in Data, ok \in BOOLEAN : Good(Write(fs, p, d, Len(d), ok))
    <3>1. \A d \in Data : d \in Content /\ Len(d) \in Size
      BY DEF Content, Size
    <3> QED
      BY <1>0, <3>1, WriteGood, PathsOfNames
  <2>2. \A r \in {Write(fs, p, d, Len(d), ok) : p \in Named, d \in Data, ok \in BOOLEAN} : Good(r)
    BY <2>1
  <2> QED
    BY <1>4, <2>2, ReturnsGood DEF fs_write
<1>5. CASE fs_read
  <2>1. \A p \in Named : Good(Result(fs, Read(fs, p)))
    BY <1>0, ReadKeeps, PathsOfNames
  <2>2. \A r \in {Result(fs, Read(fs, p)) : p \in Named} : Good(r)
    BY <2>1
  <2> QED
    BY <1>5, <2>2, ReturnsGood DEF fs_read
<1>6. CASE fs_copy
  <2>1. \A p, q \in Named, m \in Mallocs : Good(Copy(fs, p, q, m[1], m[2]))
    BY <1>0, CopyGood, PathsOfNames
  <2>2. \A r \in {Copy(fs, p, q, m[1], m[2]) : p, q \in Named, m \in Mallocs} : Good(r)
    BY <2>1
  <2> QED
    BY <1>6, <2>2, ReturnsGood DEF fs_copy
<1>7. CASE fs_move
  <2>1. \A p, q \in Named, m \in Mallocs : Good(Move(fs, p, q, m[1], m[2]))
    BY <1>0, MoveGood, PathsOfNames
  <2>2. \A r \in {Move(fs, p, q, m[1], m[2]) : p, q \in Named, m \in Mallocs} : Good(r)
    BY <2>1
  <2> QED
    BY <1>7, <2>2, ReturnsGood DEF fs_move
<1>8. CASE UNCHANGED vars
  BY <1>8 DEF vars, FsIInv
<1> QED
  BY <1>1, <1>2, <1>3, <1>4, <1>5, <1>6, <1>7, <1>8 DEF Next

LEMMA FsInvariant ==
  Spec => []FsIInv
  BY FsInit, FsStep, PTL DEF Spec

-----------------------------------------------------------------------------
(* What the runs check. *)
LEMMA SoundTyped ==
  FsIInv => TypeOK
<1> SUFFICES ASSUME FsIInv PROVE TypeOK
  OBVIOUS
<1>1. fs \in Tables /\ AnswerOK(reply) /\ \A k \in Dirs : Len(fs.dirs[k].files) <= FS_MAX_FILES_PER_DIR
  BY SoundParts DEF FsIInv, Shaped, WellListed
<1>2. fs.files \in [Entries -> Entry] /\ fs.file_count \in 0 .. FS_MAX_FILES + 1 /\ fs.dirs \in [Dirs -> Slot]
      /\ fs.dir_count \in 1 .. FS_MAX_DIRECTORIES /\ fs.mem \in [Blocks -> Data \cup {Free, Uninit}]
  BY <1>1 DEF Tables
<1>3. \A k \in Dirs : /\ fs.dirs[k].name \in Names \cup {NoName, "/"}
                      /\ fs.dirs[k].parent \in Dirs
                      /\ fs.dirs[k].files \in Seq(Entries)
  BY <1>2 DEF Slot
<1> QED
  BY <1>1, <1>2, <1>3 DEF TypeOK, AnswerOK

LEMMA SoundListed ==
  ASSUME NEW f, Sound(f)
  PROVE  EntriesListed(f)
<1>1. WellListed(f) /\ Shaped(f)
  BY SoundParts
<1>2. f.files \in [Entries -> Entry] /\ f.dirs \in [Dirs -> Slot] /\ f.file_count \in Nat
  BY <1>1, Sizes DEF Shaped, Tables
<1>3. ASSUME NEW k \in Used(f)
      PROVE  /\ ToSet(f.dirs[k].files) \subseteq 0 .. f.file_count - 1
             /\ IsInjective(f.dirs[k].files)
             /\ \A i \in ToSet(f.dirs[k].files) : f.files[i].parent = k
  <2>1. k \in Dirs
    BY DEF Used
  <2>2. f.dirs[k].files \in Seq(Entries)
    BY <1>2, <2>1 DEF Slot
  <2>3. ASSUME NEW i \in ToSet(f.dirs[k].files) PROVE i \in 0 .. f.file_count - 1 /\ f.files[i].parent = k
    <3>1. i \in Entries
      BY <2>2 DEF ToSet
    <3>2. i < f.file_count /\ f.files[i].parent = k
      BY <1>1, <2>1 DEF WellListed, In
    <3> QED
      BY <1>2, <3>1, <3>2 DEF Entries
  <2>4. IsInjective(f.dirs[k].files)
    BY <1>1, <2>1 DEF WellListed, Injective, IsInjective
  <2> QED
    BY <2>3, <2>4
<1>4. \A i \in 0 .. f.file_count - 1 :
         f.files[i].name # NoName => i \in ToSet(f.dirs[f.files[i].parent].files)
  BY <1>1 DEF WellListed, Made, In
<1>5. ASSUME NEW i \in Listed(f), NEW j \in Listed(f), f.files[i].parent = f.files[j].parent,
             f.files[i].name = f.files[j].name, f.files[i].name # NoName
      PROVE  i = j
  <2>1. PICK k \in Used(f) : i \in In(f, k)
    BY DEF Listed, In
  <2>2. PICK m \in Used(f) : j \in In(f, m)
    BY DEF Listed, In
  <2>3. k \in Dirs /\ m \in Dirs
    BY DEF Used
  <2>4. k = f.files[i].parent /\ m = f.files[j].parent
    BY <1>1, <2>1, <2>2, <2>3 DEF WellListed
  <2> QED
    BY <1>1, <1>5, <2>1, <2>2, <2>3, <2>4 DEF WellListed
<1> QED
  BY <1>3, <1>4, <1>5 DEF EntriesListed

LEMMA SoundPaired ==
  ASSUME NEW f, Sound(f)
  PROVE  SlotsPaired(f)
<1>1. WellListed(f) /\ Paired(f)
  BY SoundParts
<1>2. ASSUME NEW i \in Listed(f), f.files[i].type = DIR, f.files[i].name # NoName
      PROVE  Cardinality(SlotsNamed(f, f.files[i].name, f.files[i].parent)) = 1
  <2>1. PICK k \in Used(f) : i \in In(f, k)
    BY DEF Listed, In
  <2>2. k \in Dirs
    BY DEF Used
  <2>3. f.files[i].parent = k
    BY <1>1, <2>1, <2>2 DEF WellListed
  <2>4. PICK s \in Dirs : SlotsNamed(f, f.files[i].name, k) = {s}
    BY <1>1, <1>2, <2>1, <2>2 DEF Paired
  <2> QED
    BY <2>3, <2>4, FS_Singleton
<1>3. ASSUME NEW k \in Used(f) \ {0}
      PROVE  IF f.dirs[k].name = NoName THEN f.dirs[k].files = <<>>
             ELSE /\ f.dirs[k].parent < k
                  /\ \E i \in ToSet(f.dirs[f.dirs[k].parent].files) :
                        f.files[i].type = DIR /\ f.files[i].name = f.dirs[k].name
  BY <1>1 DEF Paired, Used, In
<1> QED
  BY <1>2, <1>3 DEF SlotsPaired

(* The two tables of the filesystem never disagree, whatever is made,      *)
(* deleted, copied and moved: fs.c ties an entry to its slot and to its    *)
(* parent's list by name and index only, in three places per call.         *)
THEOREM TablesAlwaysAgree ==
  Spec => []TablesAgree
<1>1. FsIInv => TablesAgree
  <2>1. FsIInv => Sound(fs)
    BY DEF FsIInv
  <2> QED
    BY <2>1, SoundTyped, SoundListed, SoundPaired DEF TablesAgree
<1> QED
  BY <1>1, FsInvariant, PTL

(* No block is lost and none has two owners or an owner after its free:    *)
(* fs_write replaces blocks, fs_copy and fs_move undo what they created,   *)
(* fs_delete frees, and each path through them gives every block back.     *)
THEOREM BlocksAlwaysOwned ==
  Spec => []BlocksOwned
<1>1. ASSUME FsIInv, NEW b \in Blocks
      PROVE  Cardinality(Owners(fs, b)) = IF fs.mem[b] = Free THEN 0 ELSE 1
  <2>1. Owned(fs) /\ WellListed(fs)
    BY <1>1, SoundParts DEF FsIInv
  <2>2. \A i \in Owners(fs, b) : \E k \in Dirs : i \in In(fs, k) /\ Owns(fs, k, i, b)
    BY DEF Owners, Listed, Used, In, Owns
  <2>3. \A i, j \in Owners(fs, b) : i = j
    BY <2>1, <2>2 DEF Owned
  <2>4. CASE fs.mem[b] = Free
    <3>1. Owners(fs, b) = {}
      BY <2>1, <2>2, <2>4 DEF Owned
    <3> QED
      BY <2>4, <3>1, FS_EmptySet
  <2>5. CASE fs.mem[b] # Free
    <3>1. PICK k \in Dirs : \E i \in In(fs, k) : Owns(fs, k, i, b)
      BY <2>1, <2>5 DEF Owned
    <3>2. PICK i \in In(fs, k) : Owns(fs, k, i, b)
      BY <3>1
    <3>3. k < fs.dir_count
      <4>1. ~ (k >= fs.dir_count)
        <5>1. UnusedDir.files = <<>>
          BY DEF UnusedDir
        <5>2. k >= fs.dir_count => In(fs, k) = {}
          BY <2>1, <5>1 DEF WellListed, In, ToSet
        <5> QED
          BY <3>2, <5>2
      <4> QED
        BY <1>1, <4>1, SoundTyped, Sizes DEF TypeOK, Dirs
    <3>4. i \in Owners(fs, b)
      BY <3>2, <3>3 DEF Owners, Owns, Listed, Used, In
    <3>5. Owners(fs, b) = {i}
      BY <2>3, <3>4
    <3> QED
      BY <2>5, <3>5, FS_Singleton
  <2> QED
    BY <2>4, <2>5
<1>2. FsIInv => BlocksOwned
  BY <1>1 DEF BlocksOwned
<1> QED
  BY <1>2, FsInvariant, PTL

-----------------------------------------------------------------------------
(* The tree the tables stand for.  A path reaches a slot no other path     *)
(* reaches; so what a call does to one list and one slot changes what      *)
(* one path leads to.                                                      *)
LEMMA Parts ==
  ASSUME NEW S, NEW p \in Seq(S), p # <<>>
  PROVE  /\ Front(p) \in Seq(S) /\ Len(p) \in Nat \ {0} /\ Len(Front(p)) = Len(p) - 1
         /\ \A i \in 1 .. Len(p) - 1 : Front(p)[i] = p[i]
         /\ Last(p) = p[Len(p)] /\ Last(p) \in S
<1>1. Len(p) \in Nat \ {0} /\ \A i \in 1 .. Len(p) : p[i] \in S
  OBVIOUS
<1>2. PICK n \in Int : n = Len(p) - 1 /\ n \in Nat
  BY <1>1
<1>3. /\ SubSeq(p, 1, n) \in Seq(S)
      /\ Len(SubSeq(p, 1, n)) = IF 1 <= n THEN n - 1 + 1 ELSE 0
      /\ \A i \in 1 .. n - 1 + 1 : SubSeq(p, 1, n)[i] = p[1 + i - 1]
  <2>1. \A i \in 1 .. n : p[i] \in S
    BY <1>1, <1>2
  <2> QED
    BY <1>2, <2>1, SubSeqProperties
<1>4. Len(SubSeq(p, 1, n)) = n /\ \A i \in 1 .. n : SubSeq(p, 1, n)[i] = p[i]
  BY <1>2, <1>3
<1>5. Last(p) = p[Len(p)] /\ Last(p) \in S
  BY <1>1 DEF Last
<1>6. Front(p) = SubSeq(p, 1, n)
  BY <1>2 DEF Front
<1> QED
  BY <1>1, <1>2, <1>3, <1>4, <1>5, <1>6

LEMMA SameParts ==
  ASSUME NEW S, NEW p \in Seq(S), NEW q \in Seq(S), p # <<>>, q # <<>>, Front(p) = Front(q), Last(p) = Last(q)
  PROVE  p = q
<1>1. /\ Len(p) \in Nat \ {0} /\ Len(q) \in Nat \ {0} /\ Len(p) = Len(q)
      /\ \A i \in 1 .. Len(p) - 1 : p[i] = q[i]
      /\ p[Len(p)] = q[Len(p)]
  <2>1. /\ Len(p) \in Nat \ {0} /\ Len(Front(p)) = Len(p) - 1
        /\ \A i \in 1 .. Len(p) - 1 : Front(p)[i] = p[i]
        /\ Last(p) = p[Len(p)]
    BY Parts
  <2>2. /\ Len(q) \in Nat \ {0} /\ Len(Front(q)) = Len(q) - 1
        /\ \A i \in 1 .. Len(q) - 1 : Front(q)[i] = q[i]
        /\ Last(q) = q[Len(q)]
    BY Parts
  <2>3. Len(p) = Len(q)
    BY <2>1, <2>2
  <2> QED
    BY <2>1, <2>2, <2>3
<1>2. \A i \in 1 .. Len(p) : p[i] = q[i]
  BY <1>1
<1> QED
  BY <1>1, <1>2, SeqEqual

(* Paths closed under going up reach the root. *)
LEMMA Descent ==
  ASSUME NEW B, \A q \in B : q \in Seq(Names) /\ q # <<>> /\ Front(q) \in B
  PROVE  B = {}
<1> DEFINE S == {Len(q) : q \in B}
<1> SUFFICES ASSUME B # {} PROVE FALSE
  OBVIOUS
<1>1. \A q \in B : Len(q) \in Nat
  OBVIOUS
<1>2. PICK m \in S : \A j \in S : m <= j
  <2>1. S \subseteq Nat /\ S # {}
    BY <1>1
  <2> HIDE DEF S
  <2> QED
    BY <2>1, LeastNat
<1>3. PICK q \in B : m = Len(q)
  BY <1>2
<1>4. Len(Front(q)) \in S
  OBVIOUS
<1>5. Len(Front(q)) = Len(q) - 1 /\ Len(q) \in Nat
  BY Parts
<1>6. Len(q) <= Len(Front(q))
  BY <1>2, <1>3, <1>4
<1> QED
  BY <1>5, <1>6

LEMMA ReachedSteps ==
  ASSUME NEW f, NEW path \in Seq(Names)
  PROVE  /\ Reached(f, <<>>) = 0
         /\ path # <<>> => /\ Reached(f, path) = Step(f, Reached(f, Front(path)), Last(path))
                           /\ FindParentDir(f, path) = Reached(f, Front(path))
                           /\ FileName(path) = Last(path)
<1>1. Reached(f, <<>>) = 0
  <2>1. Len(<<>>) = 0
    OBVIOUS
  <2>2. Walk(f, <<>>)[0] = 0
    BY <2>1, WalkSteps
  <2> QED
    BY <2>1, <2>2 DEF Reached
<1>2. ASSUME path # <<>>
      PROVE  /\ Reached(f, path) = Step(f, Reached(f, Front(path)), Last(path))
             /\ FindParentDir(f, path) = Reached(f, Front(path))
             /\ FileName(path) = Last(path)
  <2> DEFINE front == Front(path)
             n     == Len(path) - 1
  <2>1. /\ front \in Seq(Names) /\ Len(path) \in Nat \ {0} /\ Len(front) = n
        /\ \A i \in 1 .. n : front[i] = path[i]
        /\ Last(path) = path[Len(path)]
    BY <1>2, Parts
  <2> HIDE DEF front
  <2>2. \A i \in 0 .. n : Walk(f, path)[i] = Walk(f, front)[i]
    <3>1. \A i \in 1 .. n : Step(f, Walk(f, path)[i - 1], path[i]) = Step(f, Walk(f, path)[i - 1], front[i])
      BY <2>1
    <3>2. n \in Nat /\ Len(path) \in Nat /\ Len(front) \in Nat /\ n <= Len(path) /\ n <= Len(front)
      BY <2>1
    <3> HIDE DEF n
    <3> QED
      BY <3>1, <3>2, WalksAgree
  <2>3. Walk(f, path)[n] = Reached(f, front)
    BY <2>1, <2>2 DEF Reached
  <2>4. Walk(f, path)[Len(path)] = Step(f, Walk(f, path)[Len(path) - 1], path[Len(path)])
    BY <2>1, WalkSteps
  <2>5. FindParentDir(f, path) = Walk(f, path)[Len(path) - 1]
    BY <1>2, ParentDirWalks
  <2> QED
    BY <1>2, <2>1, <2>3, <2>4, <2>5 DEF Reached, front, FileName
<1> QED
  BY <1>1, <1>2

(* The slot a path reaches has its last part for a name, and the slot the  *)
(* rest reaches for a parent; so no other path reaches it.                 *)
LEMMA SlotReached ==
  ASSUME NEW f, Shaped(f), NEW q \in Seq(Names), Reached(f, q) # NOT_FOUND
  PROVE  /\ Reached(f, q) \in Live(f)
         /\ q # <<>> => /\ Front(q) \in Seq(Names) /\ Last(q) \in Names
                        /\ Reached(f, Front(q)) \in Live(f)
                        /\ Reached(f, q) # 0 /\ Reached(f, q) \in SlotsNamed(f, Last(q), Reached(f, Front(q)))
                        /\ f.dirs[Reached(f, q)].name = Last(q)
                        /\ f.dirs[Reached(f, q)].parent = Reached(f, Front(q))
<1>1. ASSUME NEW p \in Seq(Names) PROVE Reached(f, p) \in Live(f) \cup {NOT_FOUND}
  <2>1. Len(p) \in 0 .. Len(p)
    OBVIOUS
  <2> QED
    BY <2>1, WalkLives DEF Reached
<1>2. ASSUME q # <<>>
      PROVE  /\ Front(q) \in Seq(Names) /\ Last(q) \in Names
             /\ Reached(f, Front(q)) \in Live(f)
             /\ Reached(f, q) # 0 /\ Reached(f, q) \in SlotsNamed(f, Last(q), Reached(f, Front(q)))
             /\ f.dirs[Reached(f, q)].name = Last(q)
             /\ f.dirs[Reached(f, q)].parent = Reached(f, Front(q))
  <2> DEFINE d == Reached(f, Front(q))
             n == Last(q)
  <2>1. Front(q) \in Seq(Names) /\ n \in Names
    BY <1>2, Parts
  <2>2. Reached(f, q) = Step(f, d, n)
    BY <1>2, ReachedSteps
  <2>3. d \in Live(f) \cup {NOT_FOUND}
    BY <1>1, <2>1
  <2> HIDE DEF d, n
  <2>4. d # NOT_FOUND /\ Reached(f, q) = SubDir(f, d, n) /\ SubDir(f, d, n) # NOT_FOUND
    BY <2>2 DEF Step
  <2>5. SubDir(f, d, n) \in SlotsNamed(f, n, d)
    BY <2>1, <2>4, SubDirFinds
  <2>6. Reached(f, q) # 0 /\ f.dirs[Reached(f, q)].name = n /\ f.dirs[Reached(f, q)].parent = d
    BY <2>1, <2>4, <2>5, SlotsInDirs
  <2> QED
    BY <2>1, <2>3, <2>4, <2>5, <2>6 DEF d, n
<1> QED
  BY <1>1, <1>2

LEMMA OnePath ==
  ASSUME NEW f, Shaped(f), NEW p \in Seq(Names), NEW q \in Seq(Names),
         Reached(f, p) = Reached(f, q), Reached(f, p) # NOT_FOUND
  PROVE  p = q
<1> DEFINE Twice(b, a) == /\ a \in Seq(Names) /\ b \in Seq(Names) /\ a # b
                          /\ Reached(f, a) = Reached(f, b) /\ Reached(f, a) # NOT_FOUND
           B == {b \in Seq(Names) : \E a \in Seq(Names) : Twice(b, a)}
<1>1. ASSUME NEW b \in B PROVE b \in Seq(Names) /\ b # <<>> /\ Front(b) \in B
  <2>1. PICK a \in Seq(Names) : Twice(b, a)
    OBVIOUS
  <2>2. Reached(f, <<>>) = 0
    BY <2>1, ReachedSteps
  <2>3. a # <<>> /\ b # <<>>
    BY <2>1, <2>2, SlotReached
  <2>4. /\ Front(a) \in Seq(Names) /\ Reached(f, Front(a)) \in Live(f)
        /\ f.dirs[Reached(f, a)].name = Last(a) /\ f.dirs[Reached(f, a)].parent = Reached(f, Front(a))
    BY <2>1, <2>3, SlotReached
  <2>5. /\ Front(b) \in Seq(Names) /\ Reached(f, Front(b)) \in Live(f)
        /\ f.dirs[Reached(f, b)].name = Last(b) /\ f.dirs[Reached(f, b)].parent = Reached(f, Front(b))
    BY <2>1, <2>3, SlotReached
  <2>6. Front(a) # Front(b)
    BY <2>1, <2>3, <2>4, <2>5, SameParts
  <2>7. Twice(Front(b), Front(a))
    BY <2>1, <2>4, <2>5, <2>6, Sizes DEF Live
  <2> QED
    BY <2>1, <2>3, <2>4, <2>5, <2>7
<1>2. B = {}
  <2> HIDE DEF B
  <2> QED
    BY <1>1, Descent
<1>3. p # q => q \in B
  OBVIOUS
<1> QED
  BY <1>2, <1>3

(* What fs_find finds: the one listed entry of that name, there.           *)
IsAt(f, q, i) == /\ q # <<>> /\ Reached(f, Front(q)) # NOT_FOUND
                 /\ i \in In(f, Reached(f, Front(q))) /\ f.files[i].name = Last(q)

LEMMA FindIs ==
  ASSUME NEW f, Shaped(f), WellListed(f), NEW q \in Seq(Names)
  PROVE  /\ \A i \in Entries : Find(f, q) = i <=> IsAt(f, q, i)
         /\ q = <<>> => Find(f, q) = ROOT
         /\ q # <<>> => Find(f, q) \in Entries \cup {NOT_FOUND}
         /\ Find(f, q) >= 0 <=> Find(f, q) \in Entries
<1>1. /\ Find(f, q) >= 0 <=> Find(f, q) \in Entries
      /\ Find(f, q) \in Entries \cup {ROOT, NOT_FOUND}
      /\ q = <<>> => Find(f, q) = ROOT
  BY Finds DEF Find
<1>2. ROOT \notin Entries /\ NOT_FOUND \notin Entries
  BY Sizes DEF ROOT, NOT_FOUND
<1>3. CASE q = <<>>
  BY <1>1, <1>2, <1>3 DEF IsAt
<1>4. CASE q # <<>>
  <2> DEFINE d == Reached(f, Front(q))
  <2>1. FindParentDir(f, q) = d /\ FileName(q) = Last(q) /\ Last(q) \in Names
    BY <1>4, ReachedSteps, Parts
  <2>2. d \in Live(f) \cup {NOT_FOUND}
    BY <2>1, ParentLives
  <2>3. Find(f, q) = IF d = NOT_FOUND THEN NOT_FOUND ELSE Lookup(f, d, Last(q))
    BY <1>4, <2>1 DEF Find
  <2>4. ASSUME d # NOT_FOUND
        PROVE  /\ Lookup(f, d, Last(q)) # NOT_FOUND =>
                     /\ Lookup(f, d, Last(q)) \in In(f, d) /\ Lookup(f, d, Last(q)) \in Entries
                     /\ f.files[Lookup(f, d, Last(q))].name = Last(q)
               /\ Lookup(f, d, Last(q)) = NOT_FOUND => \A i \in In(f, d) : f.files[i].name # Last(q)
    <3>1. d \in Dirs
      BY <2>2, <2>4 DEF Live
    <3> HIDE DEF d
    <3> QED
      BY <3>1, LookupFinds
  <2>5. Find(f, q) \in Entries \cup {NOT_FOUND}
    BY <2>3, <2>4
  <2>6. ASSUME NEW i \in Entries PROVE Find(f, q) = i <=> IsAt(f, q, i)
    <3>1. CASE d = NOT_FOUND
      BY <1>2, <2>3, <3>1 DEF IsAt
    <3>2. CASE d # NOT_FOUND
      <4>1. IsAt(f, q, i) <=> i \in In(f, d) /\ f.files[i].name = Last(q)
        BY <1>4, <3>2 DEF IsAt
      <4>2. ASSUME i \in In(f, d), f.files[i].name = Last(q) PROVE Find(f, q) = i
        <5>1. Lookup(f, d, Last(q)) \in In(f, d) /\ f.files[Lookup(f, d, Last(q))].name = Last(q)
          BY <2>4, <3>2, <4>2
        <5>2. d \in Dirs /\ Last(q) # NoName
          BY <2>1, <2>2, <3>2, NamesProper DEF Live
        <5> HIDE DEF d
        <5>3. Lookup(f, d, Last(q)) = i
          BY <4>2, <5>1, <5>2 DEF WellListed
        <5> QED
          BY <2>3, <3>2, <5>3
      <4>3. Find(f, q) = i => i \in In(f, d) /\ f.files[i].name = Last(q)
        BY <1>2, <2>3, <2>4, <3>2
      <4> QED
        BY <4>1, <4>2, <4>3
    <3> QED
      BY <3>1, <3>2
  <2> QED
    BY <1>1, <1>4, <2>5, <2>6
<1> QED
  BY <1>3, <1>4

(* A path reaches a slot when it leads to a directory. *)
LEMMA DirReached ==
  ASSUME NEW f, Sound(f), NEW q \in Seq(Names)
  PROVE  Reached(f, q) # NOT_FOUND <=>
            q = <<>> \/ (Find(f, q) \in Entries /\ f.files[Find(f, q)].type = DIR)
<1>0. Shaped(f) /\ WellListed(f) /\ Paired(f)
  BY SoundParts
<1>1. CASE q = <<>>
  BY <1>1, ReachedSteps, Sizes
<1>2. CASE q # <<>>
  <2> DEFINE d == Reached(f, Front(q))
             n == Last(q)
  <2>1. Reached(f, q) = Step(f, d, n) /\ n \in Names /\ n # NoName /\ Front(q) \in Seq(Names)
    BY <1>2, ReachedSteps, Parts, NamesProper
  <2>2. d # NOT_FOUND => d \in Live(f) /\ d \in Dirs /\ In(f, d) \subseteq Entries
    BY <1>0, <2>1, SlotReached, ListsTyped DEF Live
  <2>3. ASSUME Reached(f, q) # NOT_FOUND
        PROVE  Find(f, q) \in Entries /\ f.files[Find(f, q)].type = DIR
    <3>1. d # NOT_FOUND /\ SubDir(f, d, n) # NOT_FOUND
      BY <2>1, <2>3 DEF Step
    <3>2. PICK i \in In(f, d) : f.files[i].type = DIR /\ f.files[i].name = n
      <4> HIDE DEF d, n
      <4> QED
        BY <1>0, <2>1, <3>1, SubDirFinds
    <3>3. i \in Entries /\ IsAt(f, q, i)
      BY <1>2, <2>2, <3>1, <3>2 DEF IsAt
    <3>4. Find(f, q) = i
      BY <1>0, <3>3, FindIs
    <3> QED
      BY <3>2, <3>3, <3>4
  <2>4. ASSUME Find(f, q) \in Entries, f.files[Find(f, q)].type = DIR
        PROVE  Reached(f, q) # NOT_FOUND
    <3> DEFINE i == Find(f, q)
    <3>1. i \in Entries /\ IsAt(f, q, i)
      BY <1>0, <2>4, FindIs
    <3>2. d # NOT_FOUND /\ i \in In(f, d) /\ f.files[i].name = n /\ f.files[i].type = DIR
      BY <2>4, <3>1 DEF IsAt
    <3> HIDE DEF i, d, n
    <3>3. PICK s \in Dirs : SlotsNamed(f, n, d) = {s}
      BY <1>0, <2>1, <2>2, <3>2 DEF Paired
    <3>4. SubDir(f, d, n) = Smallest({s})
      BY <3>2, <3>3 DEF SubDir, In
    <3>5. Smallest({s}) \in {s}
      BY Sizes, SmallestIn
    <3>6. SubDir(f, d, n) # NOT_FOUND
      BY <3>3, <3>4, <3>5, Sizes
    <3> QED
      BY <2>1, <3>2, <3>6 DEF Step
  <2> QED
    BY <1>2, <2>3, <2>4
<1> QED
  BY <1>1, <1>2

LEMMA NothingBelow ==
  ASSUME NEW f, NEW k, In(f, k) = {}, NEW x
  PROVE  SubDir(f, k, x) = NOT_FOUND /\ Step(f, k, x) = NOT_FOUND
  BY DEF SubDir, Step, In

(* A call on a path changes what that path leads to and nothing else:      *)
(* entry n, in the list the path's last part is looked up in, and the slot *)
(* v the path then reaches; whatever slot it reaches has an empty list.    *)
Local(f, g, path, n, v) ==
    /\ \A k \in Live(f), x \in Names :
          ~ (path # <<>> /\ k = FindParentDir(f, path) /\ x = FileName(path)) => SubDir(g, k, x) = SubDir(f, k, x)
    /\ path # <<>> =>
          /\ FindParentDir(f, path) \in Live(f) /\ SubDir(g, FindParentDir(f, path), FileName(path)) = v
          /\ v # NOT_FOUND => In(g, v) = {}
          /\ Reached(f, path) # NOT_FOUND => In(f, Reached(f, path)) = {}
    /\ \A k \in Dirs : /\ In(g, k) \ {n} = In(f, k) \ {n}
                       /\ n \in In(f, k) => k = FindParentDir(f, path) /\ f.files[n].name = FileName(path)
                       /\ n \in In(g, k) => k = FindParentDir(f, path) /\ g.files[n].name = FileName(path)
    /\ \A j \in Entries \ {n} : g.files[j] = f.files[j]

(* Only the path itself is looked up where it is, by its name.             *)
LEMMA OnlyThere ==
  ASSUME NEW f, Shaped(f), NEW path \in Seq(Names), NEW q \in Seq(Names), q # <<>>, q # path,
         Reached(f, Front(q)) # NOT_FOUND, Reached(f, Front(q)) = FindParentDir(f, path)
  PROVE  Last(q) # FileName(path)
<1>1. Front(q) \in Seq(Names) /\ Last(q) \in Names /\ Last(q) # NoName
  BY Parts, NamesProper
<1>2. CASE path = <<>>
  BY <1>1, <1>2, FileNames
<1>3. CASE path # <<>>
  <2>1. Front(path) \in Seq(Names) /\ FindParentDir(f, path) = Reached(f, Front(path)) /\ FileName(path) = Last(path)
    BY <1>3, Parts, ReachedSteps
  <2>2. Front(q) = Front(path)
    BY <1>1, <2>1, OnePath
  <2> QED
    BY <1>3, <2>1, <2>2, SameParts
<1> QED
  BY <1>2, <1>3

LEMMA ReachedBut ==
  ASSUME NEW f, NEW g, Shaped(f), NEW path \in Seq(Names), NEW n, NEW v, Local(f, g, path, n, v),
         NEW q \in Seq(Names)
  PROVE  Reached(g, q) = IF path # <<>> /\ q = path THEN v ELSE Reached(f, q)
<1> DEFINE Should(p) == IF path # <<>> /\ p = path THEN v ELSE Reached(f, p)
           B == {p \in Seq(Names) : Reached(g, p) # Should(p)}
<1>1. ASSUME NEW p \in B PROVE p \in Seq(Names) /\ p # <<>> /\ Front(p) \in B
  <2>1. p # <<>>
    <3>1. Reached(f, <<>>) = 0 /\ Reached(g, <<>>) = 0
      BY ReachedSteps
    <3> QED
      BY <3>1
  <2> DEFINE k == Reached(f, Front(p))
             x == Last(p)
  <2>2. Front(p) \in Seq(Names) /\ x \in Names /\ Front(p) # p
    BY <2>1, Parts
  <2>3. Reached(f, p) = Step(f, k, x) /\ Reached(g, p) = Step(g, Reached(g, Front(p)), x)
    BY <2>1, ReachedSteps
  <2>4. NOT_FOUND \notin Live(f) /\ k \in Live(f) \cup {NOT_FOUND}
    BY <2>2, SlotReached, Sizes DEF Live
  <2>5. ASSUME Reached(g, Front(p)) = Should(Front(p)) PROVE FALSE
    <3>1. CASE path # <<>> /\ Front(p) = path
      <4>0. /\ v # NOT_FOUND => In(g, v) = {}
            /\ k # NOT_FOUND => In(f, k) = {}
        BY <3>1 DEF Local
      <4>1. Step(g, v, x) = NOT_FOUND
        BY <4>0, NothingBelow DEF Step
      <4>2. Step(f, k, x) = NOT_FOUND
        BY <4>0, NothingBelow DEF Step
      <4> QED
        BY <2>2, <2>3, <2>5, <3>1, <4>1, <4>2
    <3>2. CASE ~ (path # <<>> /\ Front(p) = path) /\ path # <<>> /\ p = path
      <4>1. k = FindParentDir(f, path) /\ x = FileName(path) /\ k # NOT_FOUND
        BY <2>4, <3>2, ReachedSteps DEF Local
      <4>2. Step(g, k, x) = v
        BY <3>2, <4>1 DEF Local, Step
      <4> QED
        BY <2>3, <2>5, <3>2, <4>2
    <3>3. CASE ~ (path # <<>> /\ Front(p) = path) /\ ~ (path # <<>> /\ p = path)
      <4>1. Step(g, k, x) = Step(f, k, x)
        <5>1. CASE k = NOT_FOUND
          BY <5>1 DEF Step
        <5>2. CASE k # NOT_FOUND
          <6>1. ~ (path # <<>> /\ k = FindParentDir(f, path) /\ x = FileName(path))
            BY <2>1, <3>3, <5>2, OnlyThere
          <6>2. SubDir(g, k, x) = SubDir(f, k, x)
            <7> HIDE DEF k, x
            <7> QED
              BY <2>2, <2>4, <5>2, <6>1 DEF Local
          <6> QED
            BY <5>2, <6>2 DEF Step
        <5> QED
          BY <5>1, <5>2
      <4> QED
        BY <2>3, <2>5, <3>3, <4>1
    <3> QED
      BY <3>1, <3>2, <3>3
  <2> QED
    BY <2>1, <2>2, <2>5
<1>2. B = {}
  <2> HIDE DEF B
  <2> QED
    BY <1>1, Descent
<1> QED
  BY <1>2

LEMMA FoundBut ==
  ASSUME NEW f, NEW g, Shaped(f), WellListed(f), Shaped(g), WellListed(g), NEW path \in Seq(Names), NEW n \in Entries,
         NEW v, Local(f, g, path, n, v), NEW q \in Seq(Names), q # path
  PROVE  Find(g, q) = Find(f, q) /\ Find(f, q) # n
<1>0. ROOT \notin Entries /\ NOT_FOUND \notin Entries
  BY Sizes DEF ROOT, NOT_FOUND
<1>1. CASE q = <<>>
  BY <1>0, <1>1, FindIs
<1>2. CASE q # <<>>
  <2> DEFINE a == Reached(f, Front(q))
             b == Reached(g, Front(q))
  <2>1. Front(q) \in Seq(Names)
    BY <1>2, Parts
  <2>2. a # NOT_FOUND => a \in Dirs
    BY <2>1, SlotReached DEF Live
  <2>3. b = IF path # <<>> /\ Front(q) = path THEN v ELSE a
    BY <2>1, ReachedBut
  <2>4. \A i \in Entries : /\ IsAt(f, q, i) <=> a # NOT_FOUND /\ i \in In(f, a) /\ f.files[i].name = Last(q)
                           /\ IsAt(g, q, i) <=> b # NOT_FOUND /\ i \in In(g, b) /\ g.files[i].name = Last(q)
    BY <1>2 DEF IsAt
  <2>5. ASSUME NEW i \in Entries PROVE ~ IsAt(f, q, n) /\ (IsAt(g, q, i) <=> IsAt(f, q, i))
    <3>1. CASE path # <<>> /\ Front(q) = path
      <4>1. b = v /\ a = Reached(f, path)
        BY <2>3, <3>1
      <4>2. (b # NOT_FOUND => In(g, b) = {}) /\ (a # NOT_FOUND => In(f, a) = {})
        BY <3>1, <4>1 DEF Local
      <4> QED
        BY <2>4, <4>2
    <3>2. CASE ~ (path # <<>> /\ Front(q) = path)
      <4>1. b = a
        BY <2>3, <3>2
      <4>2. a = FindParentDir(f, path) /\ a # NOT_FOUND => Last(q) # FileName(path)
        BY <1>2, OnlyThere
      <4> HIDE DEF a, b
      <4>3. ~ IsAt(f, q, n) /\ ~ IsAt(g, q, n)
        BY <2>2, <2>4, <4>1, <4>2 DEF Local
      <4>4. i # n => (IsAt(g, q, i) <=> IsAt(f, q, i))
        <5>1. ASSUME i # n, a # NOT_FOUND
              PROVE  (i \in In(g, a) <=> i \in In(f, a)) /\ g.files[i] = f.files[i]
          BY <2>2, <5>1 DEF Local
        <5> QED
          BY <2>4, <4>1, <5>1
      <4> QED
        BY <4>3, <4>4
    <3> QED
      BY <3>1, <3>2
  <2>6. \A i \in Entries : (Find(f, q) = i <=> IsAt(f, q, i)) /\ (Find(g, q) = i <=> IsAt(g, q, i))
    BY FindIs
  <2>7. Find(f, q) \in Entries \cup {NOT_FOUND} /\ Find(g, q) \in Entries \cup {NOT_FOUND}
    BY <1>2, FindIs
  <2> QED
    BY <1>0, <2>5, <2>6, <2>7
<1> QED
  BY <1>1, <1>2

(* What a path names. *)
Have(f, q) == Find(f, q) \in Entries
At(f, q)   == f.files[Find(f, q)]

Kept(f, g, e) == e.type = FILE /\ e.data # NULL => g.mem[e.data] = f.mem[e.data]

Same(f, g, q) == /\ Have(f, q) <=> Have(g, q)
                 /\ Have(f, q) => At(g, q) = At(f, q) /\ Kept(f, g, At(f, q))

OthersKept(f, g, n) == \A k \in Dirs : \A j \in In(f, k) : j # n => Kept(f, g, f.files[j])

Elsewhere(f, g, path) == \A q \in Seq(Names) : q # path => Same(f, g, q)

LEMMA LocalElsewhere ==
  ASSUME NEW f, NEW g, Sound(f), Sound(g), NEW path \in Seq(Names), NEW n \in Entries, NEW v,
         Local(f, g, path, n, v), OthersKept(f, g, n)
  PROVE  Elsewhere(f, g, path)
<1> SUFFICES ASSUME NEW q \in Seq(Names), q # path PROVE Same(f, g, q)
  BY DEF Elsewhere
<1>1. Find(g, q) = Find(f, q) /\ Find(f, q) # n
  BY SoundParts, FoundBut
<1>2. ASSUME Have(f, q) PROVE At(g, q) = At(f, q) /\ Kept(f, g, At(f, q))
  <2> DEFINE i == Find(f, q)
  <2>1. i \in Entries /\ FindParentDir(f, q) \in Dirs /\ i \in In(f, FindParentDir(f, q))
    BY <1>2, SoundParts, Finds DEF Have, Live
  <2>2. g.files[i] = f.files[i]
    BY <1>1, <2>1 DEF Local
  <2>3. Kept(f, g, f.files[i])
    <3> HIDE DEF i
    <3> QED
      BY <1>1, <2>1 DEF OthersKept, i
  <2> QED
    BY <1>1, <2>2, <2>3 DEF At
<1> QED
  BY <1>1, <1>2 DEF Same, Have

LEMMA FoundThere ==
  ASSUME NEW f, NEW g, Shaped(f), WellListed(f), Shaped(g), WellListed(g), NEW path \in Seq(Names), path # <<>>,
         NEW n \in Entries, NEW v, Local(f, g, path, n, v)
  PROVE  /\ n \in In(g, FindParentDir(f, path)) => Find(g, path) = n
         /\ n \notin In(g, FindParentDir(f, path)) /\ (Find(f, path) = n \/ ~ Have(f, path)) => ~ Have(g, path)
<1> DEFINE d == FindParentDir(f, path)
<1>1. /\ Front(path) \in Seq(Names) /\ Front(path) # path
      /\ d = Reached(f, Front(path)) /\ FileName(path) = Last(path)
  <2>1. Front(path) \in Seq(Names) /\ Len(path) \in Nat \ {0} /\ Len(Front(path)) = Len(path) - 1
    BY Parts
  <2>2. Front(path) # path
    BY <2>1
  <2> QED
    BY <2>1, <2>2, ReachedSteps
<1>2. Reached(g, Front(path)) = d /\ d \in Live(f) /\ d \in Dirs /\ d # NOT_FOUND
  <2>1. d \in Live(f) /\ d \in Dirs /\ d # NOT_FOUND
    BY Sizes DEF Local, Live
  <2>2. Reached(g, Front(path)) = Reached(f, Front(path))
    BY <1>1, ReachedBut
  <2> QED
    BY <1>1, <2>1, <2>2
<1>3. \A i \in Entries : /\ Find(f, path) = i <=> i \in In(f, d) /\ f.files[i].name = Last(path)
                         /\ Find(g, path) = i <=> i \in In(g, d) /\ g.files[i].name = Last(path)
  <2>1. \A i \in Entries : (Find(f, path) = i <=> IsAt(f, path, i)) /\ (Find(g, path) = i <=> IsAt(g, path, i))
    BY FindIs
  <2> HIDE DEF d
  <2> QED
    BY <1>1, <1>2, <2>1 DEF IsAt
<1> HIDE DEF d
<1>4. n \in In(g, d) => Find(g, path) = n
  <2>1. n \in In(g, d) => g.files[n].name = FileName(path)
    BY <1>2 DEF Local
  <2> QED
    BY <1>1, <1>3, <2>1
<1>5. ASSUME n \notin In(g, d), Find(f, path) = n \/ ~ Have(f, path), Have(g, path) PROVE FALSE
  <2> DEFINE i == Find(g, path)
  <2>1. i \in Entries /\ i \in In(g, d) /\ g.files[i].name = Last(path) /\ i # n
    BY <1>3, <1>5 DEF Have
  <2>2. i \in In(f, d) /\ f.files[i] = g.files[i]
    BY <1>2, <2>1 DEF Local
  <2>3. Find(f, path) = i
    BY <1>3, <2>1, <2>2
  <2> QED
    BY <1>5, <2>1, <2>3 DEF Have
<1> QED
  BY <1>4, <1>5 DEF d

LEMMA ListedBlock ==
  ASSUME NEW f, Sound(f), NEW k \in Dirs, NEW j \in In(f, k), f.files[j].type = FILE, f.files[j].data # NULL
  PROVE  /\ f.files[j].data \in Blocks /\ f.mem[f.files[j].data] # Free
         /\ \A m \in Dirs : \A i \in In(f, m) :
               f.files[i].type = FILE /\ f.files[i].data = f.files[j].data => i = j
<1> DEFINE b == f.files[j].data
<1>1. Shaped(f) /\ Owned(f) /\ j \in Entries
  BY SoundParts, ListsTyped
<1>2. b \in Blocks
  BY <1>1 DEF Shaped, Tables, Entry
<1>3. Owns(f, k, j, b)
  BY DEF Owns
<1>4. f.mem[b] # Free /\ \A m \in Dirs : \A i \in In(f, m) : Owns(f, m, i, b) => i = j
  <2> HIDE DEF b
  <2> QED
    BY <1>1, <1>2, <1>3 DEF Owned
<1> QED
  BY <1>2, <1>4 DEF Owns

LEMMA SlotsSame ==
  ASSUME NEW f, NEW g, Shaped(f), g.dir_count = f.dir_count,
         \A k \in Dirs : g.dirs[k].name = f.dirs[k].name /\ g.dirs[k].parent = f.dirs[k].parent
  PROVE  \A k, x : SlotsNamed(g, x, k) = SlotsNamed(f, x, k)
<1>1. \A k \in 0 .. f.dir_count - 1 : k \in Dirs
  BY Sizes DEF Shaped, Tables, Dirs
<1> QED
  BY <1>1 DEF SlotsNamed

(* A write. *)
LEMMA RewrittenLocal ==
  ASSUME NEW f, NEW g, Sound(f), Sound(g), NEW path \in Seq(Names), Have(f, path), Rewritten(f, g, Find(f, path))
  PROVE  Elsewhere(f, g, path) /\ Find(g, path) = Find(f, path)
<1> DEFINE i == Find(f, path)
           d == FindParentDir(f, path)
<1>0. Shaped(f) /\ WellListed(f) /\ Paired(f) /\ Owned(f) /\ Shaped(g) /\ WellListed(g)
  BY SoundParts
<1>1. i \in Entries /\ path # <<>> /\ d \in Live(f) /\ d \in Dirs /\ i \in In(f, d) /\ f.files[i].name = FileName(path)
  BY <1>0, Finds DEF Have, Live
<1>2. f.files[i].type = FILE /\ FILE # DIR /\ Reached(f, path) = NOT_FOUND
  BY <1>1, DirReached, UnusedTyped DEF Rewritten
<1>3. FileName(path) \in Names /\ Step(f, d, FileName(path)) = NOT_FOUND
  BY <1>1, <1>2, ReachedSteps, FileNames
<1> HIDE DEF i, d
<1>4. /\ \A k : In(g, k) = In(f, k)
      /\ \A j \in Entries \ {i} : g.files[j] = f.files[j]
      /\ g.files[i].name = f.files[i].name /\ g.files[i].type = f.files[i].type
      /\ \A k, x : SlotsNamed(g, x, k) = SlotsNamed(f, x, k)
  BY DEF Rewritten, In, SlotsNamed, i
<1>5. \A k \in Dirs, x \in Names : SubDir(g, k, x) = SubDir(f, k, x)
  <2>1. \A k \in Dirs, x \in Names : (\E j \in In(g, k) : g.files[j].type = DIR /\ g.files[j].name = x)
                                        <=> (\E j \in In(f, k) : f.files[j].type = DIR /\ f.files[j].name = x)
    <3>1. \A k \in Dirs : \A j \in In(f, k) : g.files[j].type = f.files[j].type /\ g.files[j].name = f.files[j].name
      BY <1>0, <1>4, ListsTyped
    <3> QED
      BY <1>4, <3>1
  <2> QED
    BY <1>4, <2>1 DEF SubDir, In
<1>6. Local(f, g, path, i, NOT_FOUND)
  <2>1. SubDir(g, d, FileName(path)) = NOT_FOUND
    BY <1>1, <1>3, <1>5, Sizes DEF Step
  <2>2. \A k \in Dirs : /\ In(g, k) \ {i} = In(f, k) \ {i}
                        /\ i \in In(f, k) => k = d /\ f.files[i].name = FileName(path)
                        /\ i \in In(g, k) => k = d /\ g.files[i].name = FileName(path)
    BY <1>0, <1>1, <1>4 DEF WellListed
  <2>3. \A k \in Live(f), x \in Names : SubDir(g, k, x) = SubDir(f, k, x)
    BY <1>5 DEF Live
  <2> QED
    BY <1>1, <1>2, <1>4, <2>1, <2>2, <2>3 DEF Local, d
<1>7. OthersKept(f, g, i)
  <2> SUFFICES ASSUME NEW k \in Dirs, NEW j \in In(f, k), j # i, f.files[j].type = FILE, f.files[j].data # NULL
               PROVE  g.mem[f.files[j].data] = f.mem[f.files[j].data]
    BY DEF OthersKept, Kept
  <2> DEFINE b == f.files[j].data
  <2>1. b \in Blocks /\ f.mem[b] # Free /\ b # f.files[i].data
    BY <1>1, <1>2, ListedBlock
  <2> HIDE DEF b
  <2>2. g.mem[b] = f.mem[b]
    BY <2>1 DEF Rewritten, i
  <2> QED
    BY <2>2 DEF b
<1>8. Elsewhere(f, g, path)
  BY <1>1, <1>6, <1>7, LocalElsewhere
<1>9. Find(g, path) = i
  <2>1. i \in In(g, FindParentDir(f, path))
    BY <1>1, <1>4 DEF d
  <2> QED
    BY <1>0, <1>1, <1>6, <2>1, FoundThere
<1> QED
  BY <1>8, <1>9 DEF i

(* A creation. *)
FileNew(g, path, size) ==
    /\ Have(g, path) /\ At(g, path).type = FILE /\ At(g, path).size = size
    /\ IF size > 0 THEN At(g, path).data # NULL /\ g.mem[At(g, path).data] = Uninit ELSE At(g, path).data = NULL

Addable(f, path) == path # <<>> => ~ Have(f, path) /\ Reached(f, Front(path)) # NOT_FOUND

LEMMA NotThere ==
  ASSUME NEW f, Sound(f), NEW path \in Seq(Names), ~ (Find(f, path) >= 0), FindParentDir(f, path) \in Live(f)
  PROVE  /\ Addable(f, path) /\ ~ Have(f, path)
         /\ path # <<>> => Reached(f, path) = NOT_FOUND /\ FileName(path) \in Names
                           /\ Step(f, FindParentDir(f, path), FileName(path)) = NOT_FOUND
<1>1. ~ Have(f, path)
  BY SoundParts, FindIs DEF Have
<1>2. path # <<>> => /\ Reached(f, path) = NOT_FOUND /\ FindParentDir(f, path) = Reached(f, Front(path))
                     /\ Reached(f, path) = Step(f, FindParentDir(f, path), FileName(path))
                     /\ FileName(path) \in Names
  BY <1>1, DirReached, ReachedSteps, FileNames DEF Have
<1>3. FindParentDir(f, path) # NOT_FOUND
  BY Sizes DEF Live
<1> QED
  BY <1>1, <1>2, <1>3 DEF Addable

LEMMA CreatedLocal ==
  ASSUME NEW f, NEW g, Sound(f), Sound(g), NEW path \in Seq(Names), NEW size, Created(f, g, path, size)
  PROVE  Elsewhere(f, g, path) /\ Addable(f, path) /\ (path # <<>> => FileNew(g, path, size))
<1> DEFINE n == f.file_count
           d == FindParentDir(f, path)
<1>0. Shaped(f) /\ WellListed(f) /\ Paired(f) /\ Owned(f) /\ Shaped(g) /\ WellListed(g)
  BY SoundParts
<1>1. /\ ~ (Find(f, path) >= 0) /\ d \in Live(f) /\ d \in Dirs /\ n \in Entries
      /\ g.dir_count = f.dir_count
      /\ \A k \in Dirs : g.dirs[k].name = f.dirs[k].name /\ g.dirs[k].parent = f.dirs[k].parent
  BY DEF Created, Live
<1>2. PICK e : /\ Grown(f, g, d, n, e) /\ e.name = FileName(path) /\ e.type = FILE /\ e.size = size
               /\ IF size > 0 THEN e.data \in Blocks /\ f.mem[e.data] = Free ELSE e.data = NULL
               /\ \A b \in Blocks : g.mem[b] = IF b = e.data THEN Uninit ELSE f.mem[b]
  BY DEF Created
<1>3. /\ Addable(f, path) /\ ~ Have(f, path)
      /\ path # <<>> => Reached(f, path) = NOT_FOUND /\ FileName(path) \in Names /\ Step(f, d, FileName(path)) = NOT_FOUND
  BY <1>1, NotThere
<1> HIDE DEF n, d
<1>4. /\ \A k \in Dirs : In(g, k) = IF k = d THEN In(f, k) \cup {n} ELSE In(f, k)
      /\ \A i \in Entries : g.files[i] = IF i = n THEN e ELSE f.files[i]
  <2>1. ListsWith(f, g, d, n)
    BY <1>0, <1>1, <1>2, GrownLists DEF n
  <2> QED
    BY <1>2, <2>1 DEF ListsWith, Grown
<1>5. \A k \in Dirs : In(f, k) \subseteq Entries /\ n \notin In(f, k)
  BY <1>0, ListsTyped, CountsTyped DEF WellListed, n
<1>6. \A k \in Dirs, x \in Names : SubDir(g, k, x) = SubDir(f, k, x)
  <2>1. \A k \in Dirs, x \in Names : (\E j \in In(g, k) : g.files[j].type = DIR /\ g.files[j].name = x)
                                        <=> (\E j \in In(f, k) : f.files[j].type = DIR /\ f.files[j].name = x)
    BY <1>1, <1>2, <1>4, <1>5, UnusedTyped
  <2>2. \A k, x : SlotsNamed(g, x, k) = SlotsNamed(f, x, k)
    BY <1>0, <1>1, SlotsSame
  <2> QED
    BY <2>1, <2>2 DEF SubDir, In
<1>7. Local(f, g, path, n, NOT_FOUND)
  <2>1. path # <<>> => SubDir(g, d, FileName(path)) = NOT_FOUND
    BY <1>1, <1>3, <1>6, Sizes DEF Step
  <2>2. \A k \in Dirs : /\ In(g, k) \ {n} = In(f, k) \ {n}
                        /\ n \in In(f, k) => k = d /\ f.files[n].name = FileName(path)
                        /\ n \in In(g, k) => k = d /\ g.files[n].name = FileName(path)
    BY <1>1, <1>2, <1>4, <1>5
  <2>3. \A k \in Live(f), x \in Names : SubDir(g, k, x) = SubDir(f, k, x)
    BY <1>6 DEF Live
  <2>4. \A j \in Entries \ {n} : g.files[j] = f.files[j]
    BY <1>4
  <2> QED
    BY <1>1, <1>3, <2>1, <2>2, <2>3, <2>4 DEF Local, d
<1>8. OthersKept(f, g, n)
  <2> SUFFICES ASSUME NEW k \in Dirs, NEW j \in In(f, k), f.files[j].type = FILE, f.files[j].data # NULL
               PROVE  g.mem[f.files[j].data] = f.mem[f.files[j].data]
    BY DEF OthersKept, Kept
  <2> DEFINE b == f.files[j].data
  <2>1. b \in Blocks /\ f.mem[b] # Free /\ b # NULL
    BY ListedBlock
  <2> HIDE DEF b
  <2>2. g.mem[b] = f.mem[b]
    BY <1>2, <2>1
  <2> QED
    BY <2>2 DEF b
<1>9. Elsewhere(f, g, path)
  BY <1>1, <1>7, <1>8, LocalElsewhere
<1>10. ASSUME path # <<>> PROVE FileNew(g, path, size)
  <2>1. n \in In(g, FindParentDir(f, path))
    BY <1>1, <1>4 DEF d
  <2>2. Find(g, path) = n
    BY <1>0, <1>1, <1>7, <1>10, <2>1, FoundThere
  <2>3. At(g, path) = e /\ Have(g, path)
    BY <1>1, <1>4, <2>2 DEF At, Have
  <2>4. IF size > 0 THEN e.data # NULL /\ g.mem[e.data] = Uninit ELSE e.data = NULL
    BY <1>2, DataTyped
  <2> QED
    BY <1>2, <2>3, <2>4 DEF FileNew
<1> QED
  BY <1>3, <1>9, <1>10

(* A directory made. *)
DirNew(g, path) == Have(g, path) /\ At(g, path).type = DIR

LEMMA DirMadeLocal ==
  ASSUME NEW f, NEW g, Sound(f), Sound(g), NEW path \in Seq(Names), DirMade(f, g, path)
  PROVE  Elsewhere(f, g, path) /\ Addable(f, path) /\ (path # <<>> => DirNew(g, path))
<1> DEFINE n == f.file_count
           d == FindParentDir(f, path)
           s == f.dir_count
           name == FileName(path)
<1>0. Shaped(f) /\ WellListed(f) /\ Paired(f) /\ Owned(f) /\ Shaped(g) /\ WellListed(g)
  BY SoundParts
<1>1. /\ ~ (Find(f, path) >= 0) /\ d \in Live(f) /\ d \in Dirs /\ n \in Entries /\ s \in Dirs \ {0}
      /\ g.dir_count = s + 1 /\ g.mem = f.mem
      /\ \A k \in Dirs \ {s} : g.dirs[k].name = f.dirs[k].name /\ g.dirs[k].parent = f.dirs[k].parent
      /\ g.dirs[s].name = name /\ g.dirs[s].parent = d /\ g.dirs[s].files = <<>>
  BY DEF DirMade, Live
<1>2. PICK e : Grown(f, g, d, n, e) /\ e.name = name /\ e.type = DIR
  BY DEF DirMade
<1>3. /\ Addable(f, path) /\ ~ Have(f, path)
      /\ path # <<>> => Reached(f, path) = NOT_FOUND /\ name \in Names
      /\ path = <<>> => name = NoName
  BY <1>1, NotThere, FileNames
<1>4. path # <<>> => SlotsNamed(f, name, d) = {}
  <2>1. path # <<>> => \A i \in In(f, d) : f.files[i].name # name
    <3>1. Find(f, path) \notin Entries
      BY <1>3 DEF Have
    <3> QED
      BY <1>0, <1>1, <3>1, Finds, Sizes DEF Live
  <2> HIDE DEF d, name
  <2> QED
    BY <1>0, <1>1, <1>3, <2>1, NoSlotNamed
<1> HIDE DEF n, d, s, name
<1>5. /\ \A k \in Dirs : In(g, k) = IF k = d THEN In(f, k) \cup {n} ELSE In(f, k)
      /\ \A i \in Entries : g.files[i] = IF i = n THEN e ELSE f.files[i]
  <2>1. ListsWith(f, g, d, n)
    BY <1>0, <1>1, <1>2, GrownLists DEF n
  <2> QED
    BY <1>2, <2>1 DEF ListsWith, Grown
<1>6. \A k \in Dirs : In(f, k) \subseteq Entries /\ n \notin In(f, k)
  BY <1>0, ListsTyped, CountsTyped DEF WellListed, n
<1>7. \A k, x : SlotsNamed(g, x, k) = IF k = d /\ x = name THEN SlotsNamed(f, x, k) \cup {s} ELSE SlotsNamed(f, x, k)
  <2>1. s \in Nat /\ 0 .. g.dir_count - 1 = (0 .. s - 1) \cup {s} /\ \A k \in 0 .. s - 1 : k \in Dirs \ {s}
    BY <1>1, Sizes DEF Dirs
  <2> QED
    BY <1>1, <2>1 DEF SlotsNamed, s
<1>8. ASSUME NEW k \in Live(f), NEW x \in Names, ~ (path # <<>> /\ k = d /\ x = name)
      PROVE  SubDir(g, k, x) = SubDir(f, k, x)
  <2>1. ~ (k = d /\ x = name) /\ k \in Dirs
    BY <1>3, <1>8, NamesProper DEF Live
  <2>2. SlotsNamed(g, x, k) = SlotsNamed(f, x, k)
    BY <1>7, <2>1
  <2>3. (\E j \in In(g, k) : g.files[j].type = DIR /\ g.files[j].name = x)
            <=> (\E j \in In(f, k) : f.files[j].type = DIR /\ f.files[j].name = x)
    BY <1>1, <1>2, <1>5, <1>6, <2>1
  <2> QED
    BY <2>2, <2>3 DEF SubDir, In
<1>9. path # <<>> => SubDir(g, d, name) = s
  <2> SUFFICES ASSUME path # <<>> PROVE SubDir(g, d, name) = s
    OBVIOUS
  <2>1. SlotsNamed(g, name, d) = {s}
    BY <1>4, <1>7
  <2>2. n \in In(g, d) /\ g.files[n].type = DIR /\ g.files[n].name = name
    BY <1>1, <1>2, <1>5
  <2>3. Smallest({s}) \in {s}
    BY <1>1, Sizes, SmallestIn
  <2> QED
    BY <2>1, <2>2, <2>3 DEF SubDir, In
<1>10. Local(f, g, path, n, s)
  <2>1. \A k \in Dirs : /\ In(g, k) \ {n} = In(f, k) \ {n}
                        /\ n \in In(f, k) => k = d /\ f.files[n].name = name
                        /\ n \in In(g, k) => k = d /\ g.files[n].name = name
    BY <1>1, <1>2, <1>5, <1>6
  <2>2. \A j \in Entries \ {n} : g.files[j] = f.files[j]
    BY <1>5
  <2>3. In(g, s) = {}
    BY <1>1 DEF In, ToSet
  <2> QED
    BY <1>1, <1>3, <1>8, <1>9, <2>1, <2>2, <2>3 DEF Local, d, name
<1>11. Elsewhere(f, g, path)
  <2>1. OthersKept(f, g, n)
    BY <1>1 DEF OthersKept, Kept
  <2> QED
    BY <1>1, <1>10, <2>1, LocalElsewhere
<1>12. ASSUME path # <<>> PROVE DirNew(g, path)
  <2>1. n \in In(g, FindParentDir(f, path))
    BY <1>1, <1>5 DEF d
  <2>2. Find(g, path) = n
    BY <1>0, <1>1, <1>10, <1>12, <2>1, FoundThere
  <2> QED
    BY <1>1, <1>2, <1>5, <2>2 DEF At, Have, DirNew
<1> QED
  BY <1>3, <1>11, <1>12

(* A deletion. *)
NoneBelow(f, path) == \A q \in Seq(Names) : q # <<>> /\ Have(f, q) => Front(q) # path

LEMMA GoneLocal ==
  ASSUME NEW f, NEW g, Sound(f), Sound(g), NEW path \in Seq(Names), Gone(f, g, path)
  PROVE  Elsewhere(f, g, path) /\ path # <<>> /\ Have(f, path) /\ ~ Have(g, path) /\ NoneBelow(f, path)
<1> DEFINE i == Find(f, path)
           d == FindParentDir(f, path)
           name == FileName(path)
<1>0. Shaped(f) /\ WellListed(f) /\ Paired(f) /\ Owned(f) /\ Shaped(g) /\ WellListed(g)
  BY SoundParts
<1>1. /\ i \in Entries /\ path # <<>> /\ d \in Live(f) /\ d \in Dirs /\ i \in In(f, d) /\ f.files[i].name = name
      /\ name \in Names /\ NOT_FOUND \notin Dirs
  BY <1>0, Finds, FileNames, Sizes DEF Gone, Live
<1>2. Reached(f, path) = Step(f, d, name)
  BY <1>1, ReachedSteps
<1>3. /\ \A k \in Dirs : In(g, k) = In(f, k) \ {i}
      /\ \A j \in Entries : j # i => g.files[j] = f.files[j]
      /\ GivesBack(f, g, i) /\ g.dir_count = f.dir_count
  <2>1. Shrunk(f, g, d, i) /\ GivesBack(f, g, i) /\ g.dir_count = f.dir_count
    BY DEF Gone
  <2>2. ListsWithout(f, g, i)
    <3> HIDE DEF i, d
    <3> QED
      BY <1>0, <1>1, <2>1, ShrunkLists
  <2> QED
    BY <2>1, <2>2 DEF Shrunk, ListsWithout
<1>4. \/ /\ f.files[i].type = FILE /\ Reached(f, path) = NOT_FOUND
         /\ \A k \in Dirs : g.dirs[k].name = f.dirs[k].name /\ g.dirs[k].parent = f.dirs[k].parent
      \/ /\ f.files[i].type = DIR
         /\ \E s \in Dirs : SlotGone(f, g, d, i, s)
  BY <1>1, DirReached, UnusedTyped DEF Gone
<1>5. \A k \in Dirs : (i \in In(f, k) => k = d) /\ In(f, k) \subseteq Entries
  BY <1>0, <1>1, ListsTyped DEF WellListed
<1> HIDE DEF i, d, name
<1>6. Local(f, g, path, i, NOT_FOUND)
  <2>1. \A k \in Dirs : /\ In(g, k) \ {i} = In(f, k) \ {i}
                        /\ i \in In(f, k) => k = d /\ f.files[i].name = name
                        /\ i \in In(g, k) => k = d /\ g.files[i].name = name
    BY <1>1, <1>3, <1>5
  <2>2. ASSUME NEW k \in Dirs, NEW x \in Names, ~ (k = d /\ x = name) \/ f.files[i].type = FILE
        PROVE (\E j \in In(g, k) : g.files[j].type = DIR /\ g.files[j].name = x)
                  <=> (\E j \in In(f, k) : f.files[j].type = DIR /\ f.files[j].name = x)
    <3>1. i \in In(f, k) => ~ (f.files[i].type = DIR /\ f.files[i].name = x)
      BY <1>1, <1>5, <2>2, UnusedTyped
    <3>2. \A j \in In(g, k) : j \in In(f, k) /\ g.files[j] = f.files[j]
      BY <1>3, <1>5
    <3>3. \A j \in In(f, k) : j = i \/ (j \in In(g, k) /\ g.files[j] = f.files[j])
      BY <1>3, <1>5
    <3> QED
      BY <3>1, <3>2, <3>3
  <2>3. /\ \A k \in Live(f), x \in Names : ~ (k = d /\ x = name) => SubDir(g, k, x) = SubDir(f, k, x)
        /\ SubDir(g, d, name) = NOT_FOUND
        /\ Reached(f, path) # NOT_FOUND => In(f, Reached(f, path)) = {}
    <3>1. CASE /\ f.files[i].type = FILE /\ Reached(f, path) = NOT_FOUND
               /\ \A k \in Dirs : g.dirs[k].name = f.dirs[k].name /\ g.dirs[k].parent = f.dirs[k].parent
      <4>1. \A k, x : SlotsNamed(g, x, k) = SlotsNamed(f, x, k)
        BY <1>0, <1>3, <3>1, SlotsSame
      <4>2. \A k \in Dirs, x \in Names : SubDir(g, k, x) = SubDir(f, k, x)
        BY <2>2, <3>1, <4>1 DEF SubDir, In
      <4>3. SubDir(g, d, name) = NOT_FOUND
        BY <1>1, <1>2, <3>1, <4>2 DEF Step
      <4> QED
        BY <3>1, <4>2, <4>3 DEF Live
    <3>2. CASE f.files[i].type = DIR /\ \E s \in Dirs : SlotGone(f, g, d, i, s)
      <4>1. PICK s \in Dirs : SlotGone(f, g, d, i, s)
        BY <3>2
      <4>2. /\ SlotsNamed(f, name, d) = {s} /\ f.dirs[s].files = <<>> /\ g.dirs[s].name = NoName
            /\ \A k \in Dirs : (k # s => g.dirs[k].name = f.dirs[k].name) /\ g.dirs[k].parent = f.dirs[k].parent
        BY <1>1, <4>1 DEF SlotGone
      <4>3. f.dirs[s].name = name /\ f.dirs[s].parent = d
        BY <4>2 DEF SlotsNamed
      <4>4. ASSUME NEW k, NEW x \in Names
            PROVE  SlotsNamed(g, x, k) = SlotsNamed(f, x, k) \ {s} /\ (s \in SlotsNamed(f, x, k) => k = d /\ x = name)
        <5>1. \A t \in 0 .. f.dir_count - 1 : t \in Dirs
          BY <1>0, Sizes DEF Shaped, Tables, Dirs
        <5>2. x # NoName
          BY NamesProper
        <5>3. ASSUME NEW t \in 0 .. f.dir_count - 1
              PROVE  (g.dirs[t].name = x /\ g.dirs[t].parent = k) <=> (t # s /\ f.dirs[t].name = x /\ f.dirs[t].parent = k)
          <6>1. CASE t = s
            BY <4>2, <5>2, <6>1
          <6>2. CASE t # s
            BY <4>2, <5>1, <6>2
          <6> QED
            BY <6>1, <6>2
        <5>4. SlotsNamed(g, x, k) = SlotsNamed(f, x, k) \ {s}
          BY <1>3, <5>3 DEF SlotsNamed
        <5>5. s \in SlotsNamed(f, x, k) => k = d /\ x = name
          BY <4>3 DEF SlotsNamed
        <5> QED
          BY <5>4, <5>5
      <4>5. ASSUME NEW k \in Live(f), NEW x \in Names, ~ (k = d /\ x = name) PROVE SubDir(g, k, x) = SubDir(f, k, x)
        <5>1. SlotsNamed(g, x, k) = SlotsNamed(f, x, k)
          <6>1. s \notin SlotsNamed(f, x, k)
            BY <4>4, <4>5
          <6>2. SlotsNamed(g, x, k) = SlotsNamed(f, x, k) \ {s}
            BY <4>4
          <6>3. \A S, t : t \notin S => S \ {t} = S
            OBVIOUS
          <6> QED
            BY <6>1, <6>2, <6>3
        <5>2. k \in Dirs
          BY DEF Live
        <5> QED
          BY <2>2, <4>5, <5>1, <5>2 DEF SubDir, In
      <4>6. SubDir(g, d, name) = NOT_FOUND
        <5>1. SlotsNamed(g, name, d) = {}
          BY <1>1, <4>2, <4>4
        <5> QED
          BY <5>1 DEF SubDir
      <4>7. Reached(f, path) # NOT_FOUND => In(f, Reached(f, path)) = {}
        <5>1. Smallest({s}) \in {s}
          BY Sizes, SmallestIn
        <5>2. Reached(f, path) # NOT_FOUND => Reached(f, path) = Smallest({s})
          BY <1>2, <4>2 DEF Step, SubDir
        <5> QED
          BY <4>2, <5>1, <5>2 DEF In, ToSet
      <4> QED
        BY <4>5, <4>6, <4>7
    <3> QED
      BY <1>4, <3>1, <3>2
  <2>4. \A j \in Entries \ {i} : g.files[j] = f.files[j]
    BY <1>3
  <2> QED
    BY <1>1, <2>1, <2>3, <2>4 DEF Local, d, name
<1>7. OthersKept(f, g, i)
  <2> SUFFICES ASSUME NEW k \in Dirs, NEW j \in In(f, k), j # i, f.files[j].type = FILE, f.files[j].data # NULL
               PROVE  g.mem[f.files[j].data] = f.mem[f.files[j].data]
    BY DEF OthersKept, Kept
  <2> DEFINE b == f.files[j].data
  <2>1. b \in Blocks /\ ~ (f.files[i].type = FILE /\ f.files[i].data = b)
    BY <1>1, ListedBlock
  <2> HIDE DEF b
  <2>2. g.mem[b] = f.mem[b]
    BY <1>3, <2>1 DEF GivesBack
  <2> QED
    BY <2>2 DEF b
<1>8. Elsewhere(f, g, path)
  BY <1>1, <1>6, <1>7, LocalElsewhere
<1>9. Have(f, path) /\ ~ Have(g, path)
  <2>1. i \notin In(g, FindParentDir(f, path))
    BY <1>1, <1>3 DEF d
  <2>2. Find(f, path) = i
    BY DEF i
  <2> QED
    BY <1>0, <1>1, <1>6, <2>1, <2>2, FoundThere DEF Have
<1>10. NoneBelow(f, path)
  <2> SUFFICES ASSUME NEW q \in Seq(Names), q # <<>>, Have(f, q), Front(q) = path PROVE FALSE
    BY DEF NoneBelow
  <2>1. IsAt(f, q, Find(f, q))
    BY <1>0, FindIs DEF Have
  <2> QED
    BY <1>1, <1>6, <2>1 DEF IsAt, Local
<1> QED
  BY <1>1, <1>8, <1>9, <1>10

(* A file's size is that of its content; memory nobody wrote is not empty. *)
Measures(data, size) == (data = Uninit /\ size > 0) \/ (data \in Data /\ size = Len(data))
Measured(f, e) == e.type = FILE /\ e.data # NULL => Measures(f.mem[e.data], e.size)

Sized(f) == \A q \in Seq(Names) : Have(f, q) => Measured(f, At(f, q))
Whole(f) == Sound(f) /\ Sized(f)

See(f, q) == Node(f, At(f, q))

LEMMA HaveTyped ==
  ASSUME NEW f, Sound(f), NEW q \in Seq(Names), Have(f, q)
  PROVE  /\ At(f, q).type \in {FILE, DIR} /\ At(f, q).size \in Size /\ At(f, q).data \in Blocks \cup {NULL}
         /\ At(f, q).type = FILE /\ At(f, q).data # NULL => f.mem[At(f, q).data] \in Content
         /\ q # <<>> /\ Reached(f, Front(q)) # NOT_FOUND
<1>1. Find(f, q) \in Entries /\ Shaped(f) /\ WellListed(f)
  BY SoundParts DEF Have
<1>2. At(f, q) \in Entry
  BY <1>1 DEF At, Shaped, Tables
<1>3. IsAt(f, q, Find(f, q))
  BY <1>1, FindIs
<1>4. ~ (Find(f, q) < 0)
  BY <1>1, Finds
<1>5. At(f, q).type = FILE /\ At(f, q).data # NULL => f.mem[At(f, q).data] \in Content
  BY <1>4, ContentOf DEF At
<1> QED
  BY <1>2, <1>3, <1>5 DEF Entry, Size, IsAt

LEMMA EmptyData ==
  ASSUME NEW d \in Data, Len(d) = 0
  PROVE  d = <<>>
<1>1. d \in Seq(ToSet(d))
  BY FsAssumption
<1> QED
  BY <1>1

(* What the nodes of the tree tell of the entries. *)
LEMMA Nodes ==
  ASSUME NEW f, Whole(f), NEW q \in Seq(Names), Have(f, q)
  PROVE  /\ See(f, q) = Directory <=> At(f, q).type = DIR
         /\ At(f, q).type # DIR <=> At(f, q).type = FILE
         /\ At(f, q).type = FILE =>
               /\ At(f, q).data # NULL => /\ See(f, q) = f.mem[At(f, q).data] /\ See(f, q) # Lost
                                          /\ Measures(See(f, q), At(f, q).size)
               /\ At(f, q).data = NULL => See(f, q) = IF At(f, q).size = 0 THEN <<>> ELSE Lost
               /\ At(f, q).size = 0 => See(f, q) = <<>>
<1> DEFINE e == At(f, q)
<1>1. e.type \in {FILE, DIR} /\ FILE # DIR /\ (e.type = FILE /\ e.data # NULL => f.mem[e.data] \in Content)
  BY HaveTyped, UnusedTyped DEF Whole
<1>2. Measured(f, e)
  BY DEF Whole, Sized
<1> HIDE DEF e
<1>3. See(f, q) = IF e.type = DIR THEN Directory ELSE IF e.data # NULL THEN f.mem[e.data]
                  ELSE IF e.size = 0 THEN <<>> ELSE Lost
  BY DEF See, Node, e
<1>4. Lost \notin Content /\ Lost # <<>> /\ Directory \notin Content \cup {<<>>, Lost}
  BY FsAssumption DEF Content
<1>5. e.type = FILE /\ e.data # NULL => Measures(f.mem[e.data], e.size)
  BY <1>2 DEF Measured
<1>6. e.type = FILE /\ e.size = 0 => See(f, q) = <<>>
  <2>1. e.type = FILE /\ e.data # NULL /\ e.size = 0 => f.mem[e.data] = <<>>
    BY <1>5, EmptyData DEF Measures
  <2> QED
    BY <1>1, <1>3, <2>1
<1> QED
  BY <1>1, <1>3, <1>4, <1>5, <1>6 DEF e

LEMMA SameSeen ==
  ASSUME NEW f, NEW g, Sound(f), NEW q \in Seq(Names), Same(f, g, q), Have(f, q)
  PROVE  /\ Have(g, q) /\ At(g, q) = At(f, q) /\ See(g, q) = See(f, q)
         /\ Measured(f, At(f, q)) => Measured(g, At(g, q))
<1>1. Have(g, q) /\ At(g, q) = At(f, q) /\ Kept(f, g, At(f, q))
  BY DEF Same
<1>2. At(f, q).type \in {FILE, DIR}
  BY HaveTyped
<1>3. See(g, q) = See(f, q)
  BY <1>1, <1>2 DEF See, Node, Kept
<1>4. Measured(f, At(f, q)) => Measured(g, At(g, q))
  BY <1>1 DEF Measured, Kept
<1> QED
  BY <1>1, <1>3, <1>4

LEMMA WholeElsewhere ==
  ASSUME NEW f, NEW g, Whole(f), Sound(g), NEW path, Elsewhere(f, g, path),
         Have(g, path) => Measured(g, At(g, path))
  PROVE  Whole(g)
<1> SUFFICES ASSUME NEW q \in Seq(Names), Have(g, q) PROVE Measured(g, At(g, q))
  BY DEF Whole, Sized
<1>1. CASE q = path
  BY <1>1
<1>2. CASE q # path
  <2>1. Same(f, g, q) /\ Have(f, q)
    BY <1>2 DEF Elsewhere, Same
  <2> QED
    BY <2>1, SameSeen DEF Whole, Sized
<1> QED
  BY <1>1, <1>2

LEMMA SameTwice ==
  ASSUME NEW f, NEW g, NEW h, NEW q, Same(f, g, q), Same(g, h, q)
  PROVE  Same(f, h, q)
<1>1. Have(f, q) <=> Have(h, q)
  BY DEF Same
<1>2. ASSUME Have(f, q) PROVE At(h, q) = At(f, q) /\ Kept(f, h, At(f, q))
  BY <1>2 DEF Same, Kept
<1> QED
  BY <1>1, <1>2 DEF Same

AllSame(f, g) == \A q \in Seq(Names) : Same(f, g, q)

LEMMA Elsewheres ==
  ASSUME NEW f, NEW g, NEW path
  PROVE  /\ AllSame(f, f)
         /\ Elsewhere(f, g, path) /\ ~ Have(f, path) /\ ~ Have(g, path) => AllSame(f, g)
         /\ \A h : Elsewhere(f, g, path) /\ Elsewhere(g, h, path) => Elsewhere(f, h, path)
<1>1. AllSame(f, f)
  BY DEF AllSame, Same, Kept
<1>2. ASSUME Elsewhere(f, g, path), ~ Have(f, path), ~ Have(g, path), NEW q \in Seq(Names) PROVE Same(f, g, q)
  <2>1. CASE q = path
    BY <1>2, <2>1 DEF Same
  <2>2. CASE q # path
    BY <1>2, <2>2 DEF Elsewhere
  <2> QED
    BY <2>1, <2>2
<1>3. ASSUME NEW h, Elsewhere(f, g, path), Elsewhere(g, h, path), NEW q \in Seq(Names), q # path PROVE Same(f, h, q)
  BY <1>3, SameTwice DEF Elsewhere
<1> QED
  BY <1>1, <1>2, <1>3 DEF AllSame, Elsewhere

(* The calls, as changes of one path. *)
LEMMA CreateDoes ==
  ASSUME NEW f, Whole(f), NEW path \in Seq(Names), NEW size \in Size, NEW ok, NEW r, r = Create(f, path, size, ok)
  PROVE  /\ Whole(r.fs)
         /\ \/ r.reply = Refused /\ r.fs = f
            \/ /\ r.reply = Done(<<>>) /\ Elsewhere(f, r.fs, path) /\ Addable(f, path)
               /\ path # <<>> => FileNew(r.fs, path, size)
<1> DEFINE g == r.fs
<1>1. Sound(f) /\ Sound(g) /\ (Refuses(f, r) \/ (Succeeds(g, r) /\ Created(f, g, path, size)))
  BY CreateKeeps DEF Whole
<1> HIDE DEF g
<1>2. CASE Refuses(f, r)
  BY <1>2, Replies
<1>3. CASE Succeeds(g, r) /\ Created(f, g, path, size)
  <2>1. Elsewhere(f, g, path) /\ Addable(f, path) /\ (path # <<>> => FileNew(g, path, size))
    BY <1>1, <1>3, CreatedLocal
  <2>2. Have(g, path) => Measured(g, At(g, path))
    <3>1. Have(g, path) => path # <<>>
      BY <1>1, HaveTyped
    <3> QED
      BY <2>1, <3>1 DEF FileNew, Measured, Measures
  <2>3. Whole(g)
    BY <1>1, <2>1, <2>2, WholeElsewhere
  <2>4. r.reply = Done(<<>>)
    BY <1>3, Replies
  <2> QED
    BY <2>1, <2>3, <2>4 DEF g
<1> QED
  BY <1>1, <1>2, <1>3

LEMMA MkdirDoes ==
  ASSUME NEW f, Whole(f), f.file_count <= FS_MAX_FILES, NEW path \in Seq(Names), NEW r, r = Mkdir(f, path)
  PROVE  /\ Whole(r.fs)
         /\ \/ r.reply = Refused /\ r.fs = f
            \/ /\ r.reply = Done(<<>>) /\ Elsewhere(f, r.fs, path) /\ Addable(f, path)
               /\ path # <<>> => DirNew(r.fs, path)
<1> DEFINE g == r.fs
<1>1. Sound(f) /\ Sound(g) /\ (Refuses(f, r) \/ (Succeeds(g, r) /\ DirMade(f, g, path)))
  BY MkdirKeeps DEF Whole
<1> HIDE DEF g
<1>2. CASE Refuses(f, r)
  BY <1>2, Replies
<1>3. CASE Succeeds(g, r) /\ DirMade(f, g, path)
  <2>1. Elsewhere(f, g, path) /\ Addable(f, path) /\ (path # <<>> => DirNew(g, path))
    BY <1>1, <1>3, DirMadeLocal
  <2>2. Have(g, path) => Measured(g, At(g, path))
    <3>1. Have(g, path) => path # <<>>
      BY <1>1, HaveTyped
    <3> QED
      BY <2>1, <3>1, UnusedTyped DEF DirNew, Measured
  <2>3. Whole(g)
    BY <1>1, <2>1, <2>2, WholeElsewhere
  <2>4. r.reply = Done(<<>>)
    BY <1>3, Replies
  <2> QED
    BY <2>1, <2>3, <2>4 DEF g
<1> QED
  BY <1>1, <1>2, <1>3

LEMMA DeleteDoes ==
  ASSUME NEW f, Whole(f), NEW path \in Seq(Names), NEW r, r = Delete(f, path)
  PROVE  /\ Whole(r.fs)
         /\ \/ r.reply = Refused /\ r.fs = f /\ (Have(f, path) => At(f, path).type # FILE)
            \/ /\ r.reply = Done(<<>>) /\ Elsewhere(f, r.fs, path) /\ path # <<>>
               /\ Have(f, path) /\ ~ Have(r.fs, path) /\ NoneBelow(f, path)
<1> DEFINE g == r.fs
<1>1. /\ Sound(f) /\ Sound(g)
      /\ \/ Refuses(f, r) /\ (Have(f, path) => At(f, path).type # FILE)
         \/ Succeeds(g, r) /\ Gone(f, g, path)
  BY DeleteKeeps DEF Whole, Have, At
<1> HIDE DEF g
<1>2. CASE Refuses(f, r) /\ (Have(f, path) => At(f, path).type # FILE)
  BY <1>2, Replies
<1>3. CASE Succeeds(g, r) /\ Gone(f, g, path)
  <2>1. Elsewhere(f, g, path) /\ path # <<>> /\ Have(f, path) /\ ~ Have(g, path) /\ NoneBelow(f, path)
    BY <1>1, <1>3, GoneLocal
  <2>2. Whole(g)
    BY <1>1, <2>1, WholeElsewhere
  <2>3. r.reply = Done(<<>>)
    BY <1>3, Replies
  <2> QED
    BY <2>1, <2>2, <2>3 DEF g
<1> QED
  BY <1>1, <1>2, <1>3

(* What a write that finds no memory loses. *)
Loses(f, g, path) ==
    /\ Have(f, path) /\ Have(g, path) /\ Elsewhere(f, g, path)
    /\ See(f, path) # Directory /\ See(g, path) = IF At(f, path).size = 0 THEN <<>> ELSE Lost
    /\ At(f, path).size = 0 => See(f, path) = <<>>

Gives(f, g, path, data) ==
    Have(f, path) /\ Have(g, path) /\ Elsewhere(f, g, path) /\ See(f, path) # Directory /\ See(g, path) = data

LEMMA WriteDoes ==
  ASSUME NEW f, Whole(f), NEW path \in Seq(Names), NEW data, NEW size \in Size, Measures(data, size), NEW ok,
         NEW r, r = Write(f, path, data, size, ok)
  PROVE  /\ Whole(r.fs)
         /\ \/ r.reply = Refused /\ r.fs = f /\ (Have(f, path) => At(f, path).type # FILE)
            \/ /\ r.reply = Refused /\ Loses(f, r.fs, path)
               /\ At(f, path).data = NULL \/ At(f, path).size # size
            \/ r.reply = Done(<<>>) /\ Gives(f, r.fs, path, data)
<1> DEFINE g == r.fs
           i == Find(f, path)
<1>0. data \in Content
  BY DEF Measures, Content
<1>1. /\ Sound(f) /\ Sound(g)
      /\ \/ Refuses(f, r) /\ (Have(f, path) => At(f, path).type # FILE)
         \/ Refuses(g, r) /\ Emptied(f, g, path) /\ (At(f, path).data = NULL \/ At(f, path).size # size)
         \/ Succeeds(g, r) /\ Filled(f, g, path, data, size)
  BY <1>0, WriteKeeps DEF Whole, Have, At
<1> HIDE DEF g
<1>2. ASSUME Rewritten(f, g, i), Have(f, path)
      PROVE  /\ Elsewhere(f, g, path) /\ Have(g, path) /\ At(g, path) = g.files[i] /\ At(g, path).type = FILE
             /\ At(f, path).type = FILE /\ See(f, path) # Directory
             /\ At(f, path).size = 0 => See(f, path) = <<>>
  <2>1. Elsewhere(f, g, path) /\ Find(g, path) = i
    BY <1>1, <1>2, RewrittenLocal
  <2>2. At(f, path).type = FILE /\ g.files[i].type = FILE
    BY <1>2 DEF Rewritten, At
  <2>3. See(f, path) # Directory /\ (At(f, path).size = 0 => See(f, path) = <<>>)
    BY <1>2, <2>2, Nodes, UnusedTyped
  <2> QED
    BY <1>2, <2>1, <2>2, <2>3 DEF Have, At
<1>3. CASE Refuses(f, r) /\ (Have(f, path) => At(f, path).type # FILE)
  BY <1>3, Replies
<1>4. CASE Refuses(g, r) /\ Emptied(f, g, path) /\ (At(f, path).data = NULL \/ At(f, path).size # size)
  <2>1. Have(f, path) /\ Rewritten(f, g, i) /\ g.files[i].size = At(f, path).size /\ g.files[i].data = NULL
    BY <1>4 DEF Emptied, Have, At
  <2>2. /\ Elsewhere(f, g, path) /\ Have(g, path) /\ At(g, path).type = FILE /\ At(g, path).data = NULL
        /\ At(g, path).size = At(f, path).size
        /\ See(f, path) # Directory /\ (At(f, path).size = 0 => See(f, path) = <<>>)
    BY <1>2, <2>1
  <2>3. Whole(g)
    BY <1>1, <2>2, WholeElsewhere DEF Measured
  <2>4. See(g, path) = IF At(f, path).size = 0 THEN <<>> ELSE Lost
    BY <2>2, <2>3, Nodes
  <2>5. r.reply = Refused
    BY <1>4, Replies
  <2> QED
    BY <1>4, <2>1, <2>2, <2>3, <2>4, <2>5 DEF Loses, g
<1>5. CASE Succeeds(g, r) /\ Filled(f, g, path, data, size)
  <2>1. /\ Have(f, path) /\ Rewritten(f, g, i) /\ g.files[i].size = size /\ g.files[i].data \in Blocks
        /\ g.mem[g.files[i].data] = data
    BY <1>5 DEF Filled, Have
  <2>2. /\ Elsewhere(f, g, path) /\ Have(g, path) /\ At(g, path).type = FILE /\ At(g, path).data # NULL
        /\ At(g, path).size = size /\ g.mem[At(g, path).data] = data /\ See(f, path) # Directory
    BY <1>2, <2>1, DataTyped
  <2>3. Whole(g)
    BY <1>1, <2>2, WholeElsewhere DEF Measured
  <2>4. See(g, path) = data
    BY <2>2, <2>3, Nodes
  <2>5. r.reply = Done(<<>>)
    BY <1>5, Replies
  <2> QED
    BY <2>1, <2>2, <2>3, <2>4, <2>5 DEF Gives, g
<1> QED
  BY <1>1, <1>3, <1>4, <1>5

(* A copy that succeeds: its destination is new and like the source, or    *)
(* "/", and then something no path names was made. *)
Copied(f, g, src, dest) ==
    /\ Have(f, src) /\ See(f, src) # Directory /\ Elsewhere(f, g, dest) /\ ~ Have(f, dest)
    /\ dest # <<>> => /\ Reached(f, Front(dest)) # NOT_FOUND /\ Have(g, dest)
                      /\ See(g, dest) = IF See(f, src) = Lost THEN Uninit ELSE See(f, src)

LEMMA CopyDoes ==
  ASSUME NEW f, Whole(f), NEW src \in Seq(Names), NEW dest \in Seq(Names), NEW ok, NEW okTemp,
         NEW r, r = Copy(f, src, dest, ok, okTemp)
  PROVE  /\ Whole(r.fs)
         /\ \/ r.reply = Refused /\ AllSame(f, r.fs)
            \/ r.reply = Done(<<>>) /\ Copied(f, r.fs, src, dest)
<1> DEFINE e       == At(f, src)
           size    == e.size
           data    == f.mem[e.data]
           created == Create(f, dest, size, ok)
           g       == created.fs
           written == Write(g, dest, data, size, TRUE)
           undone  == Delete(g, dest).fs
           absent  == Find(f, src) < 0 \/ e.type # FILE
           empty   == e.data = NULL \/ size = 0
<1>1. r = IF absent \/ Find(f, dest) >= 0 THEN Result(f, Refused)
          ELSE IF ~ created.reply.ok THEN created
          ELSE IF empty THEN created
          ELSE IF ~ (okTemp /\ CanMalloc(g)) THEN Result(undone, Refused)
          ELSE IF ~ written.reply.ok THEN Result(undone, Refused)
          ELSE written
  BY DEF Copy, At
<1>2. \A x, y : Result(x, y).fs = x /\ Result(x, y).reply = y
  BY DEF Result
<1>3. Refused.ok = FALSE /\ Done(<<>>).ok = TRUE
  BY DEF Refused, Done
<1>4. (Find(f, src) < 0 <=> ~ Have(f, src)) /\ (Find(f, dest) >= 0 <=> Have(f, dest))
  BY Finds DEF Whole, Sound, Have
<1>5. CASE absent \/ Find(f, dest) >= 0
  <2>1. r = Result(f, Refused)
    <3> HIDE DEF absent, created, written, undone, empty
    <3> QED
      BY <1>1, <1>5
  <2> QED
    BY <1>2, <2>1, Elsewheres
<1>6. CASE ~ (absent \/ Find(f, dest) >= 0)
  <2>1. Have(f, src) /\ e.type = FILE /\ ~ Have(f, dest)
    <3> HIDE DEF e
    <3> QED
      BY <1>4, <1>6
  <2>2. size \in Size /\ size \in Nat /\ See(f, src) # Directory
        /\ (e.data # NULL => See(f, src) = data /\ See(f, src) # Lost /\ Measures(data, size))
        /\ (e.data = NULL => See(f, src) = IF size = 0 THEN <<>> ELSE Lost)
        /\ (size = 0 => See(f, src) = <<>>)
    BY <2>1, HaveTyped, Nodes, DataTyped, UnusedTyped DEF Whole
  <2>3. Lost # <<>>
    BY FsAssumption
  <2> HIDE DEF e, size, data
  <2>4. /\ Whole(g)
        /\ \/ created.reply = Refused /\ g = f
           \/ /\ created.reply = Done(<<>>) /\ Elsewhere(f, g, dest) /\ Addable(f, dest)
              /\ dest # <<>> => FileNew(g, dest, size)
    BY <2>2, CreateDoes
  <2> HIDE DEF created
  <2>5. CASE ~ created.reply.ok
    <3>1. r = created
      BY <1>1, <1>6, <2>5
    <3>2. created.reply = Refused /\ g = f
      BY <1>3, <2>4, <2>5
    <3> QED
      BY <2>4, <3>1, <3>2, Elsewheres
  <2>6. CASE created.reply.ok
    <3>1. created.reply = Done(<<>>) /\ Elsewhere(f, g, dest) /\ Addable(f, dest) /\ (dest # <<>> => FileNew(g, dest, size))
      BY <1>3, <2>4, <2>6
    <3>2. dest # <<>> => /\ Reached(f, Front(dest)) # NOT_FOUND /\ Have(g, dest) /\ At(g, dest).type = FILE
                         /\ At(g, dest).size = size
                         /\ size = 0 => See(g, dest) = <<>>
                         /\ size > 0 => At(g, dest).data # NULL /\ See(g, dest) = Uninit
      <4> SUFFICES ASSUME dest # <<>>
                   PROVE  /\ Reached(f, Front(dest)) # NOT_FOUND /\ Have(g, dest) /\ At(g, dest).type = FILE
                          /\ At(g, dest).size = size
                          /\ size = 0 => See(g, dest) = <<>>
                          /\ size > 0 => At(g, dest).data # NULL /\ See(g, dest) = Uninit
        OBVIOUS
      <4>1. /\ Have(g, dest) /\ At(g, dest).type = FILE /\ At(g, dest).size = size
            /\ size > 0 => At(g, dest).data # NULL /\ g.mem[At(g, dest).data] = Uninit
        BY <3>1 DEF FileNew
      <4>2. (size = 0 => See(g, dest) = <<>>) /\ (size > 0 => See(g, dest) = Uninit)
        BY <2>4, <4>1, Nodes
      <4> QED
        BY <3>1, <4>1, <4>2 DEF Addable
    <3>3. dest = <<>> => ~ Have(g, dest)
      BY <2>4, HaveTyped DEF Whole
    <3>4. CASE empty
      <4>1. r = created
        BY <1>1, <1>6, <2>6, <3>4
      <4>2. Copied(f, g, src, dest)
        BY <2>1, <2>2, <2>3, <3>1, <3>2, <3>4 DEF Copied
      <4> QED
        BY <2>4, <3>1, <4>1, <4>2
    <3>5. CASE ~ empty
      <4>1. e.data # NULL /\ size > 0
        BY <2>2, <3>5
      <4>2. Whole(undone) /\ AllSame(f, undone)
        <5> DEFINE u == Delete(g, dest)
        <5>1. /\ Whole(u.fs)
              /\ \/ u.fs = g /\ (Have(g, dest) => At(g, dest).type # FILE)
                 \/ Elsewhere(g, u.fs, dest) /\ ~ Have(u.fs, dest)
          BY <2>4, DeleteDoes
        <5> HIDE DEF u
        <5>2. Elsewhere(f, u.fs, dest) /\ ~ Have(u.fs, dest)
          BY <3>1, <3>2, <3>3, <5>1, Elsewheres
        <5> QED
          BY <2>1, <5>1, <5>2, Elsewheres DEF u
      <4>3. /\ Whole(written.fs)
            /\ \/ written.reply = Refused
               \/ written.reply = Done(<<>>) /\ Gives(g, written.fs, dest, data)
        BY <2>2, <2>4, <4>1, WriteDoes
      <4> HIDE DEF written, undone
      <4>4. CASE r = Result(undone, Refused)
        BY <1>2, <4>2, <4>4
      <4>5. CASE r = written /\ written.reply.ok
        <5>1. written.reply = Done(<<>>) /\ Gives(g, written.fs, dest, data)
          BY <1>3, <4>3, <4>5
        <5>2. Copied(f, written.fs, src, dest)
          <6>1. Elsewhere(f, written.fs, dest)
            BY <3>1, <5>1, Elsewheres DEF Gives
          <6>2. Have(written.fs, dest) /\ See(written.fs, dest) = data
            BY <5>1 DEF Gives
          <6> QED
            BY <2>1, <2>2, <3>2, <4>1, <6>1, <6>2 DEF Copied
        <5> QED
          BY <4>3, <4>5, <5>1, <5>2
      <4> QED
        BY <1>1, <1>6, <2>6, <3>5, <4>4, <4>5
    <3> QED
      BY <3>4, <3>5
  <2> QED
    BY <2>5, <2>6
<1> QED
  BY <1>5, <1>6

(* A move that succeeds: the source is gone from a state a copy was made in. *)
Moved(f, g, src, dest) ==
    \E c : /\ Whole(c) /\ Copied(f, c, src, dest)
           /\ Elsewhere(c, g, src) /\ Have(c, src) /\ ~ Have(g, src) /\ NoneBelow(c, src)

LEMMA MoveDoes ==
  ASSUME NEW f, Whole(f), NEW src \in Seq(Names), NEW dest \in Seq(Names), NEW ok, NEW okTemp,
         NEW r, r = Move(f, src, dest, ok, okTemp)
  PROVE  /\ Whole(r.fs)
         /\ \/ r.reply = Refused /\ AllSame(f, r.fs)
            \/ r.reply = Done(<<>>) /\ Moved(f, r.fs, src, dest)
<1> DEFINE copied  == Copy(f, src, dest, ok, okTemp)
           deleted == Delete(copied.fs, src)
           undone  == Delete(deleted.fs, dest).fs
<1>1. r = IF ~ copied.reply.ok THEN copied
          ELSE IF ~ deleted.reply.ok THEN Result(undone, Refused)
          ELSE deleted
  BY DEF Move
<1>2. Refused.ok = FALSE /\ Done(<<>>).ok = TRUE
  BY DEF Refused, Done
<1>3. /\ Whole(copied.fs)
      /\ \/ copied.reply = Refused /\ AllSame(f, copied.fs)
         \/ copied.reply = Done(<<>>) /\ Copied(f, copied.fs, src, dest)
  BY CopyDoes
<1> HIDE DEF copied
<1>4. /\ Whole(deleted.fs)
      /\ \/ deleted.reply = Refused /\ (Have(copied.fs, src) => At(copied.fs, src).type # FILE)
         \/ /\ deleted.reply = Done(<<>>) /\ Elsewhere(copied.fs, deleted.fs, src)
            /\ Have(copied.fs, src) /\ ~ Have(deleted.fs, src) /\ NoneBelow(copied.fs, src)
  BY <1>3, DeleteDoes
<1> HIDE DEF deleted, undone
<1>5. CASE copied.reply = Refused /\ AllSame(f, copied.fs)
  BY <1>1, <1>2, <1>3, <1>5
<1>6. CASE copied.reply = Done(<<>>) /\ Copied(f, copied.fs, src, dest)
  <2>1. Have(f, src) /\ See(f, src) # Directory /\ Same(f, copied.fs, src)
    BY <1>6 DEF Copied, Elsewhere
  <2>2. Have(copied.fs, src) /\ At(copied.fs, src) = At(f, src) /\ At(f, src).type = FILE
    BY <2>1, SameSeen, Nodes DEF Whole
  <2>3. r = deleted /\ deleted.reply = Done(<<>>)
    BY <1>1, <1>2, <1>4, <1>6, <2>2
  <2>4. Moved(f, deleted.fs, src, dest)
    BY <1>2, <1>3, <1>4, <1>6, <2>3 DEF Moved
  <2> QED
    BY <1>4, <2>3, <2>4
<1> QED
  BY <1>3, <1>5, <1>6

(* The tree, path by path. *)
LEMMA TreeIs ==
  ASSUME NEW f, Sound(f)
  PROVE  TreeOf(f) = [q \in {q \in Paths : Have(f, q)} |-> See(f, q)]
<1>1. \A q \in Paths : q \in Seq(Names)
  BY PathsOfNames DEF Named
<1>2. \A q \in Paths : Find(f, q) >= 0 <=> Have(f, q)
  BY <1>1, SoundParts, FindIs DEF Have
<1> DEFINE found == [p \in Paths |-> Find(f, p)]
<1>3. {q \in Paths : found[q] >= 0} = {q \in Paths : Have(f, q)}
  BY <1>2
<1>4. TreeOf(f) = [p \in {q \in Paths : found[q] >= 0} |-> Node(f, f.files[found[p]])]
  BY DEF TreeOf
<1>5. \A p \in {q \in Paths : Have(f, q)} : Node(f, f.files[found[p]]) = See(f, p)
  BY DEF See, At
<1> QED
  BY <1>3, <1>4, <1>5

LEMMA TreeAt ==
  ASSUME NEW f, Sound(f)
  PROVE  /\ TreeOf(f) = [q \in DOMAIN TreeOf(f) |-> TreeOf(f)[q]]
         /\ DOMAIN TreeOf(f) \subseteq Paths
         /\ \A q \in Paths : q \in DOMAIN TreeOf(f) <=> Have(f, q)
         /\ \A q \in DOMAIN TreeOf(f) : TreeOf(f)[q] = See(f, q)
<1>1. TreeOf(f) = [q \in {q \in Paths : Have(f, q)} |-> See(f, q)]
  BY TreeIs
<1>2. DOMAIN TreeOf(f) = {q \in Paths : Have(f, q)}
  BY <1>1
<1> QED
  BY <1>1, <1>2

LEMMA TreeSame ==
  ASSUME NEW f, NEW g, Sound(f), Sound(g), AllSame(f, g)
  PROVE  TreeOf(g) = TreeOf(f)
<1>1. \A q \in Paths : /\ Have(f, q) <=> Have(g, q)
                       /\ Have(f, q) => See(g, q) = See(f, q)
  BY PathsOfNames, SameSeen DEF Named, AllSame, Same
<1>2. {q \in Paths : Have(f, q)} = {q \in Paths : Have(g, q)}
  BY <1>1
<1> QED
  BY <1>1, <1>2, TreeIs

LEMMA TreeSet ==
  ASSUME NEW f, NEW g, Sound(f), Sound(g), NEW p \in Paths, Elsewhere(f, g, p), Have(g, p)
  PROVE  TreeOf(g) = Tree!With(TreeOf(f), p, See(g, p))
<1> DEFINE t == TreeOf(f)
           u == TreeOf(g)
<1>1. \A q \in Paths : q # p => /\ Have(f, q) <=> Have(g, q)
                                /\ Have(f, q) => See(g, q) = See(f, q)
  BY PathsOfNames, SameSeen DEF Named, Elsewhere, Same
<1>2. /\ DOMAIN t \subseteq Paths /\ \A q \in Paths : q \in DOMAIN t <=> Have(f, q)
      /\ \A q \in DOMAIN t : t[q] = See(f, q)
  BY TreeAt
<1>3. /\ u = [q \in DOMAIN u |-> u[q]]
      /\ DOMAIN u \subseteq Paths /\ \A q \in Paths : q \in DOMAIN u <=> Have(g, q)
      /\ \A q \in DOMAIN u : u[q] = See(g, q)
  BY TreeAt
<1> HIDE DEF t, u
<1>4. DOMAIN u = DOMAIN t \cup {p}
  BY <1>1, <1>2, <1>3
<1>5. \A q \in DOMAIN u : u[q] = IF q = p THEN See(g, p) ELSE t[q]
  BY <1>1, <1>2, <1>3
<1>6. u = Tree!With(t, p, See(g, p))
  BY <1>3, <1>4, <1>5 DEF Tree!With
<1> QED
  BY <1>6 DEF t, u

LEMMA TreeDrop ==
  ASSUME NEW f, NEW g, Sound(f), Sound(g), NEW p \in Paths, Elsewhere(f, g, p), ~ Have(g, p)
  PROVE  TreeOf(g) = Tree!Without(TreeOf(f), p)
<1> DEFINE t == TreeOf(f)
           u == TreeOf(g)
<1>1. \A q \in Paths : q # p => /\ Have(f, q) <=> Have(g, q)
                                /\ Have(f, q) => See(g, q) = See(f, q)
  BY PathsOfNames, SameSeen DEF Named, Elsewhere, Same
<1>2. /\ DOMAIN t \subseteq Paths /\ \A q \in Paths : q \in DOMAIN t <=> Have(f, q)
      /\ \A q \in DOMAIN t : t[q] = See(f, q)
  BY TreeAt
<1>3. /\ u = [q \in DOMAIN u |-> u[q]]
      /\ DOMAIN u \subseteq Paths /\ \A q \in Paths : q \in DOMAIN u <=> Have(g, q)
      /\ \A q \in DOMAIN u : u[q] = See(g, q)
  BY TreeAt
<1> HIDE DEF t, u
<1>4. DOMAIN u = DOMAIN t \ {p}
  BY <1>1, <1>2, <1>3
<1>5. \A q \in DOMAIN u : u[q] = t[q]
  BY <1>1, <1>2, <1>3
<1>6. u = Tree!Without(t, p)
  BY <1>3, <1>4, <1>5 DEF Tree!Without, Tree!Restrict
<1> QED
  BY <1>6 DEF t, u

(* The calls as operations on the tree: r is what a call gives.            *)
Answers(r) == fs' = r.fs /\ reply' = r.reply

LEMMA TreeSteps ==
  ASSUME Whole(fs), NEW r, Whole(r.fs), Answers(r)
  PROVE  Whole(fs)' /\ TreeOf(fs)' = TreeOf(r.fs) /\ reply' = r.reply /\ Sound(fs) /\ Sound(r.fs)
  BY DEF Answers, Whole

LEMMA TreeTerms ==
  /\ Tree!Refused = Refused /\ \A d : Tree!Done(d) = Done(d)
  /\ \A p : Tree!Front(p) = Front(p)
  BY DEF Refused, Done, Front, Tree!Refused, Tree!Done, Tree!Front

LEMMA NamesOf ==
  ASSUME NEW p \in Named
  PROVE  p \in Seq(Names) /\ (p = <<>> \/ (p \in Paths /\ p # <<>>))
<1>1. p \in Seq(Names)
  BY PathsOfNames
<1>2. \A q \in Paths : q # <<>>
  BY FsAssumption
<1> QED
  BY <1>1, <1>2 DEF Named

(* Refused, or done to "/". *)
LEMMA NothingSeen ==
  ASSUME Whole(fs), NEW r, Whole(r.fs), Answers(r), AllSame(fs, r.fs), r.reply \in {Refused, Done(<<>>)}
  PROVE  Tree!Next
<1>1. TreeOf(fs)' = TreeOf(r.fs) /\ reply' = r.reply /\ Sound(fs) /\ Sound(r.fs)
  BY TreeSteps
<1>2. TreeOf(fs)' = TreeOf(fs)
  BY <1>1, TreeSame
<1>3. Tree!NoEffect
  BY <1>1, <1>2, TreeTerms DEF Tree!NoEffect
<1> QED
  BY <1>3 DEF Tree!Next

LEMMA RootSeen ==
  ASSUME Whole(fs), NEW r, Whole(r.fs), Answers(r), Elsewhere(fs, r.fs, <<>>), r.reply \in {Refused, Done(<<>>)}
  PROVE  Tree!Next
<1>1. <<>> \in Seq(Names)
  OBVIOUS
<1>2. ~ Have(fs, <<>>) /\ ~ Have(r.fs, <<>>)
  BY <1>1, HaveTyped DEF Whole
<1>3. AllSame(fs, r.fs)
  BY <1>2, Elsewheres
<1> QED
  BY <1>3, NothingSeen

LEMMA ParentSeen ==
  ASSUME Whole(fs), NEW p \in Paths, Reached(fs, Front(p)) # NOT_FOUND
  PROVE  Tree!IsDir(Front(p))
<1> DEFINE q == Front(p)
<1>1. q \in Paths \cup {<<>>} /\ q \in Seq(Names)
  BY FsAssumption, PathsOfNames DEF Named
<1> HIDE DEF q
<1>2. CASE q = <<>>
  BY <1>2 DEF Tree!IsDir, q
<1>3. CASE q # <<>>
  <2>1. Have(fs, q) /\ At(fs, q).type = DIR
    BY <1>1, <1>3, DirReached DEF q, Whole, Have, At
  <2>2. See(fs, q) = Directory
    BY <1>1, <2>1, Nodes
  <2>3. q \in DOMAIN TreeOf(fs) /\ TreeOf(fs)[q] = Directory
    BY <1>1, <1>3, <2>1, <2>2, TreeAt DEF Whole
  <2> QED
    BY <2>3 DEF Tree!IsDir, Tree!Existing, q
<1> QED
  BY <1>2, <1>3

LEMMA FileSeen ==
  ASSUME Whole(fs), NEW p \in Named, Have(fs, p), See(fs, p) # Directory
  PROVE  p \in Tree!Files /\ p \in Paths /\ TreeOf(fs)[p] = See(fs, p)
<1>1. p \in Seq(Names) /\ (p = <<>> \/ (p \in Paths /\ p # <<>>))
  BY NamesOf
<1>2. p # <<>>
  BY <1>1, HaveTyped DEF Whole
<1>3. p \in DOMAIN TreeOf(fs) /\ TreeOf(fs)[p] = See(fs, p)
  BY <1>1, <1>2, TreeAt DEF Whole
<1> QED
  BY <1>1, <1>2, <1>3 DEF Tree!Files, Tree!Existing

LEMMA AdditionSeen ==
  ASSUME Whole(fs), NEW r, Whole(r.fs), Answers(r), NEW p \in Named, Elsewhere(fs, r.fs, p), Addable(fs, p),
         r.reply = Done(<<>>), p # <<>> => Have(r.fs, p) /\ See(r.fs, p) \in {Directory, <<>>}
  PROVE  Tree!Next
<1>1. CASE p = <<>>
  BY <1>1, RootSeen
<1>2. CASE p # <<>>
  <2>1. p \in Paths /\ ~ Have(fs, p) /\ Reached(fs, Front(p)) # NOT_FOUND
    BY <1>2, NamesOf DEF Addable
  <2>2. TreeOf(fs)' = TreeOf(r.fs) /\ reply' = r.reply /\ Sound(fs) /\ Sound(r.fs)
    BY TreeSteps
  <2>3. TreeOf(fs)' = Tree!With(TreeOf(fs), p, See(r.fs, p))
    BY <1>2, <2>1, <2>2, TreeSet
  <2>4. p \notin DOMAIN TreeOf(fs)
    BY <2>1, <2>2, TreeAt
  <2>5. Tree!IsDir(Front(p))
    BY <2>1, ParentSeen
  <2>6. Tree!Make
    BY <1>2, <2>1, <2>2, <2>3, <2>4, <2>5, TreeTerms DEF Tree!Make, Tree!Existing
  <2> QED
    BY <2>6 DEF Tree!Next
<1> QED
  BY <1>1, <1>2

LEMMA MkdirSeen ==
  ASSUME Whole(fs), fs.file_count <= FS_MAX_FILES, NEW p \in Named, Answers(Mkdir(fs, p))
  PROVE  Whole(fs)' /\ Tree!Next
<1> DEFINE r == Mkdir(fs, p)
<1>1. /\ Whole(r.fs)
      /\ \/ r.reply = Refused /\ r.fs = fs
         \/ /\ r.reply = Done(<<>>) /\ Elsewhere(fs, r.fs, p) /\ Addable(fs, p)
            /\ p # <<>> => DirNew(r.fs, p)
  BY NamesOf, MkdirDoes
<1>2. Answers(r)
  OBVIOUS
<1> HIDE DEF r
<1>3. CASE r.reply = Refused /\ r.fs = fs
  BY <1>1, <1>2, <1>3, Elsewheres, NothingSeen, TreeSteps
<1>4. CASE r.reply = Done(<<>>) /\ Elsewhere(fs, r.fs, p) /\ Addable(fs, p) /\ (p # <<>> => DirNew(r.fs, p))
  <2>1. p # <<>> => Have(r.fs, p) /\ See(r.fs, p) = Directory
    BY <1>1, <1>4, NamesOf, Nodes DEF DirNew
  <2> QED
    BY <1>1, <1>2, <1>4, <2>1, AdditionSeen, TreeSteps
<1> QED
  BY <1>1, <1>3, <1>4

LEMMA CreateSeen ==
  ASSUME Whole(fs), NEW p \in Named, Answers(Create(fs, p, 0, TRUE))
  PROVE  Whole(fs)' /\ Tree!Next
<1> DEFINE r == Create(fs, p, 0, TRUE)
<1>0. 0 \in Size
  BY DEF Size
<1>1. /\ Whole(r.fs)
      /\ \/ r.reply = Refused /\ r.fs = fs
         \/ /\ r.reply = Done(<<>>) /\ Elsewhere(fs, r.fs, p) /\ Addable(fs, p)
            /\ p # <<>> => FileNew(r.fs, p, 0)
  BY <1>0, NamesOf, CreateDoes
<1>2. Answers(r)
  OBVIOUS
<1> HIDE DEF r
<1>3. CASE r.reply = Refused /\ r.fs = fs
  BY <1>1, <1>2, <1>3, Elsewheres, NothingSeen, TreeSteps
<1>4. CASE r.reply = Done(<<>>) /\ Elsewhere(fs, r.fs, p) /\ Addable(fs, p) /\ (p # <<>> => FileNew(r.fs, p, 0))
  <2>1. p # <<>> => Have(r.fs, p) /\ See(r.fs, p) = <<>>
    BY <1>1, <1>4, NamesOf, Nodes DEF FileNew
  <2> QED
    BY <1>1, <1>2, <1>4, <2>1, AdditionSeen, TreeSteps
<1> QED
  BY <1>1, <1>3, <1>4

(* A path taken away, with nothing below it. *)
LEMMA RemovalSeen ==
  ASSUME Whole(fs), NEW r, Whole(r.fs), Answers(r), NEW p \in Named, Elsewhere(fs, r.fs, p), r.reply = Done(<<>>),
         Have(fs, p), ~ Have(r.fs, p), NoneBelow(fs, p)
  PROVE  Tree!Next
<1>1. p \in Paths
  BY NamesOf, HaveTyped DEF Whole
<1>2. TreeOf(fs)' = TreeOf(r.fs) /\ reply' = r.reply /\ Sound(fs) /\ Sound(r.fs)
  BY TreeSteps
<1>3. TreeOf(fs)' = Tree!Without(TreeOf(fs), p)
  BY <1>1, <1>2, TreeDrop
<1>4. p \in DOMAIN TreeOf(fs)
  BY <1>1, <1>2, TreeAt
<1>5. ASSUME NEW q \in DOMAIN TreeOf(fs) PROVE Front(q) # p
  <2>1. q \in Paths /\ Have(fs, q)
    BY <1>2, <1>5, TreeAt
  <2>2. q \in Seq(Names) /\ q # <<>>
    BY <2>1, FsAssumption, PathsOfNames DEF Named
  <2> QED
    BY <2>1, <2>2 DEF NoneBelow
<1>6. Tree!Unlink
  BY <1>2, <1>3, <1>4, <1>5, TreeTerms DEF Tree!Unlink, Tree!Existing
<1> QED
  BY <1>6 DEF Tree!Next

LEMMA DeleteSeen ==
  ASSUME Whole(fs), NEW p \in Named, Answers(Delete(fs, p))
  PROVE  Whole(fs)' /\ Tree!Next
<1> DEFINE r == Delete(fs, p)
<1>1. /\ Whole(r.fs)
      /\ \/ r.reply = Refused /\ r.fs = fs
         \/ /\ r.reply = Done(<<>>) /\ Elsewhere(fs, r.fs, p) /\ p # <<>>
            /\ Have(fs, p) /\ ~ Have(r.fs, p) /\ NoneBelow(fs, p)
  BY NamesOf, DeleteDoes
<1>2. Answers(r)
  OBVIOUS
<1> HIDE DEF r
<1>3. CASE r.reply = Refused /\ r.fs = fs
  BY <1>1, <1>2, <1>3, Elsewheres, NothingSeen, TreeSteps
<1> QED
  BY <1>1, <1>2, <1>3, RemovalSeen, TreeSteps

LEMMA WriteSeen ==
  ASSUME Whole(fs), NEW p \in Named, NEW d \in Data, NEW ok, Answers(Write(fs, p, d, Len(d), ok))
  PROVE  Whole(fs)' /\ Tree!Next
<1> DEFINE r == Write(fs, p, d, Len(d), ok)
<1>0. Len(d) \in Size /\ Measures(d, Len(d)) /\ p \in Seq(Names)
  BY NamesOf DEF Size, Measures
<1>1. /\ Whole(r.fs)
      /\ \/ r.reply = Refused /\ r.fs = fs
         \/ r.reply = Refused /\ Loses(fs, r.fs, p)
         \/ r.reply = Done(<<>>) /\ Gives(fs, r.fs, p, d)
  BY <1>0, WriteDoes
<1>2. Answers(r)
  OBVIOUS
<1> HIDE DEF r
<1>3. Whole(fs)' /\ TreeOf(fs)' = TreeOf(r.fs) /\ reply' = r.reply /\ Sound(fs) /\ Sound(r.fs)
  BY <1>1, <1>2, TreeSteps
<1>4. ASSUME Have(fs, p), Have(r.fs, p), Elsewhere(fs, r.fs, p), See(fs, p) # Directory
      PROVE  /\ p \in Tree!Files /\ TreeOf(fs)[p] = See(fs, p)
             /\ TreeOf(fs)' = Tree!With(TreeOf(fs), p, See(r.fs, p))
  <2>1. p \in Tree!Files /\ p \in Paths /\ TreeOf(fs)[p] = See(fs, p)
    BY <1>4, FileSeen
  <2>2. TreeOf(r.fs) = Tree!With(TreeOf(fs), p, See(r.fs, p))
    BY <1>3, <1>4, <2>1, TreeSet
  <2> QED
    BY <1>3, <2>1, <2>2
<1>5. CASE r.reply = Refused /\ r.fs = fs
  BY <1>1, <1>2, <1>3, <1>5, Elsewheres, NothingSeen
<1>6. CASE r.reply = Refused /\ Loses(fs, r.fs, p)
  <2>1. /\ p \in Tree!Files /\ TreeOf(fs)[p] = See(fs, p)
        /\ TreeOf(fs)' = Tree!With(TreeOf(fs), p, See(r.fs, p))
    BY <1>4, <1>6 DEF Loses
  <2>2. CASE At(fs, p).size = 0
    <3>1. See(fs, p) = <<>> /\ See(r.fs, p) = <<>>
      BY <1>6, <2>2 DEF Loses
    <3>2. p \in DOMAIN TreeOf(fs) /\ TreeOf(fs)[p] = <<>>
      BY <2>1, <3>1 DEF Tree!Files, Tree!Existing
    <3>3. TreeOf(fs) = [q \in DOMAIN TreeOf(fs) |-> TreeOf(fs)[q]]
      BY <1>3, TreeAt
    <3>4. Tree!With(TreeOf(fs), p, <<>>) = TreeOf(fs)
      BY <3>2, <3>3 DEF Tree!With
    <3>5. Tree!NoEffect
      BY <1>3, <1>6, <2>1, <3>1, <3>4, TreeTerms DEF Tree!NoEffect
    <3> QED
      BY <1>3, <3>5 DEF Tree!Next
  <2>3. CASE At(fs, p).size # 0
    <3>1. See(r.fs, p) = Lost
      BY <1>6, <2>3 DEF Loses
    <3>2. Tree!Lose
      BY <1>3, <1>6, <2>1, <3>1, TreeTerms DEF Tree!Lose
    <3> QED
      BY <1>3, <3>2 DEF Tree!Next
  <2> QED
    BY <2>2, <2>3
<1>7. CASE r.reply = Done(<<>>) /\ Gives(fs, r.fs, p, d)
  <2>1. p \in Tree!Files /\ TreeOf(fs)' = Tree!With(TreeOf(fs), p, d)
    BY <1>4, <1>7 DEF Gives
  <2>2. Tree!Write
    BY <1>3, <1>7, <2>1, TreeTerms DEF Tree!Write
  <2> QED
    BY <1>3, <2>2 DEF Tree!Next
<1> QED
  BY <1>1, <1>3, <1>5, <1>6, <1>7

LEMMA ReadSeen ==
  ASSUME Whole(fs), NEW p \in Named, Answers(Result(fs, Read(fs, p)))
  PROVE  Whole(fs)' /\ Tree!Next
<1> DEFINE r == Result(fs, Read(fs, p))
<1>1. Answers(r) /\ r.fs = fs /\ r.reply = Read(fs, p)
  BY DEF Result
<1> HIDE DEF r
<1>2. Whole(fs)' /\ TreeOf(fs)' = TreeOf(fs) /\ reply' = Read(fs, p)
  BY <1>1, TreeSteps
<1>3. p \in Seq(Names)
  BY NamesOf
<1>4. Find(fs, p) < 0 <=> ~ Have(fs, p)
  BY <1>3, Finds DEF Whole, Sound, Have
<1>5. Read(fs, p) = IF ~ Have(fs, p) \/ At(fs, p).type # FILE THEN Refused
                    ELSE IF At(fs, p).data = NULL THEN Done(<<>>)
                    ELSE Done(fs.mem[At(fs, p).data])
  BY <1>4 DEF Read, At
<1>6. CASE ~ Have(fs, p) \/ At(fs, p).type # FILE
  <2>1. r.reply = Refused
    BY <1>1, <1>5, <1>6
  <2>2. AllSame(fs, r.fs)
    BY <1>1, Elsewheres
  <2>3. Tree!Next
    BY <1>1, <2>1, <2>2, NothingSeen
  <2> QED
    BY <1>2, <2>3
<1>7. CASE Have(fs, p) /\ At(fs, p).type = FILE
  <2>1. /\ See(fs, p) # Directory
        /\ At(fs, p).data # NULL => See(fs, p) = fs.mem[At(fs, p).data] /\ See(fs, p) # Lost
        /\ At(fs, p).data = NULL => See(fs, p) \in {<<>>, Lost}
    BY <1>3, <1>7, Nodes, UnusedTyped
  <2>2. Read(fs, p) = Done(IF See(fs, p) = Lost THEN <<>> ELSE See(fs, p))
    BY <1>5, <1>7, <2>1
  <2>3. p \in Tree!Files /\ TreeOf(fs)[p] = See(fs, p)
    BY <1>7, <2>1, FileSeen
  <2>4. Tree!Read
    BY <1>2, <2>2, <2>3, TreeTerms DEF Tree!Read
  <2> QED
    BY <1>2, <2>4 DEF Tree!Next
<1> QED
  BY <1>6, <1>7

(* The state a copy leaves, also when a move goes on from it. *)
LEMMA CopySet ==
  ASSUME Whole(fs), NEW c, Whole(c), NEW p \in Named, NEW q \in Named, q # <<>>, Copied(fs, c, p, q)
  PROVE  /\ p \in Tree!Files /\ p \in Paths /\ q \in Paths \ Tree!Existing /\ Tree!IsDir(Front(q))
         /\ TreeOf(c) = Tree!With(TreeOf(fs), q, Tree!CopyOf(TreeOf(fs)[p]))
<1>1. p \in Tree!Files /\ p \in Paths /\ TreeOf(fs)[p] = See(fs, p)
  BY FileSeen DEF Copied
<1>2. /\ q \in Paths /\ ~ Have(fs, q) /\ Have(c, q) /\ Elsewhere(fs, c, q) /\ Reached(fs, Front(q)) # NOT_FOUND
      /\ See(c, q) = Tree!CopyOf(TreeOf(fs)[p])
  BY <1>1, NamesOf DEF Copied, Tree!CopyOf
<1>3. Tree!IsDir(Front(q))
  BY <1>2, ParentSeen
<1>4. q \notin Tree!Existing
  BY <1>2, TreeAt DEF Whole, Tree!Existing
<1>5. TreeOf(c) = Tree!With(TreeOf(fs), q, See(c, q))
  BY <1>2, TreeSet DEF Whole
<1> QED
  BY <1>1, <1>2, <1>3, <1>4, <1>5

LEMMA CopySeen ==
  ASSUME Whole(fs), NEW p \in Named, NEW q \in Named, NEW ok, NEW okTemp, Answers(Copy(fs, p, q, ok, okTemp))
  PROVE  Whole(fs)' /\ Tree!Next
<1> DEFINE r == Copy(fs, p, q, ok, okTemp)
<1>1. /\ Whole(r.fs)
      /\ \/ r.reply = Refused /\ AllSame(fs, r.fs)
         \/ r.reply = Done(<<>>) /\ Copied(fs, r.fs, p, q)
  BY NamesOf, CopyDoes
<1>2. Answers(r)
  OBVIOUS
<1> HIDE DEF r
<1>3. Whole(fs)' /\ TreeOf(fs)' = TreeOf(r.fs) /\ reply' = r.reply
  BY <1>1, <1>2, TreeSteps
<1>4. CASE r.reply = Refused /\ AllSame(fs, r.fs)
  BY <1>1, <1>2, <1>3, <1>4, NothingSeen
<1>5. CASE r.reply = Done(<<>>) /\ Copied(fs, r.fs, p, q) /\ q = <<>>
  BY <1>1, <1>2, <1>3, <1>5, RootSeen DEF Copied
<1>6. CASE r.reply = Done(<<>>) /\ Copied(fs, r.fs, p, q) /\ q # <<>>
  <2>1. /\ p \in Tree!Files /\ q \in Paths \ Tree!Existing /\ Tree!IsDir(Front(q))
        /\ TreeOf(r.fs) = Tree!With(TreeOf(fs), q, Tree!CopyOf(TreeOf(fs)[p]))
    BY <1>1, <1>6, CopySet
  <2>2. Tree!Copy
    BY <1>3, <1>6, <2>1, TreeTerms DEF Tree!Copy
  <2> QED
    BY <1>3, <2>2 DEF Tree!Next
<1> QED
  BY <1>1, <1>4, <1>5, <1>6

LEMMA MoveSeen ==
  ASSUME Whole(fs), NEW p \in Named, NEW q \in Named, NEW ok, NEW okTemp, Answers(Move(fs, p, q, ok, okTemp))
  PROVE  Whole(fs)' /\ Tree!Next
<1> DEFINE r == Move(fs, p, q, ok, okTemp)
<1>1. /\ Whole(r.fs)
      /\ \/ r.reply = Refused /\ AllSame(fs, r.fs)
         \/ r.reply = Done(<<>>) /\ Moved(fs, r.fs, p, q)
  BY NamesOf, MoveDoes
<1>2. Answers(r)
  OBVIOUS
<1> HIDE DEF r
<1>3. Whole(fs)' /\ TreeOf(fs)' = TreeOf(r.fs) /\ reply' = r.reply /\ Sound(fs) /\ Sound(r.fs)
  BY <1>1, <1>2, TreeSteps
<1>4. CASE r.reply = Refused /\ AllSame(fs, r.fs)
  BY <1>1, <1>2, <1>3, <1>4, NothingSeen
<1>5. CASE r.reply = Done(<<>>) /\ Moved(fs, r.fs, p, q)
  <2>1. PICK c : /\ Whole(c) /\ Copied(fs, c, p, q)
                 /\ Elsewhere(c, r.fs, p) /\ Have(c, p) /\ ~ Have(r.fs, p) /\ NoneBelow(c, p)
    BY <1>5 DEF Moved
  <2>2. CASE q = <<>>
    <3>1. AllSame(fs, c)
      <4>1. ~ Have(c, q)
        BY <2>1, <2>2, NamesOf, HaveTyped DEF Whole
      <4> QED
        BY <2>1, <4>1, Elsewheres DEF Copied
    <3>2. Elsewhere(fs, r.fs, p)
      BY <2>1, <3>1, SameTwice DEF AllSame, Elsewhere
    <3>3. NoneBelow(fs, p)
      BY <2>1, <3>1 DEF NoneBelow, AllSame, Same
    <3>4. Have(fs, p)
      BY <2>1 DEF Copied
    <3> QED
      BY <1>1, <1>2, <1>3, <1>5, <2>1, <3>2, <3>3, <3>4, RemovalSeen
  <2>3. CASE q # <<>>
    <3>1. /\ p \in Tree!Files /\ p \in Paths /\ q \in Paths \ Tree!Existing /\ Tree!IsDir(Front(q))
          /\ TreeOf(c) = Tree!With(TreeOf(fs), q, Tree!CopyOf(TreeOf(fs)[p]))
      BY <2>1, <2>3, CopySet
    <3>2. TreeOf(r.fs) = Tree!Without(TreeOf(c), p)
      BY <1>3, <2>1, <3>1, TreeDrop DEF Whole
    <3>3. Tree!Copy
      BY <1>3, <1>5, <3>1, <3>2, TreeTerms DEF Tree!Copy
    <3> QED
      BY <1>3, <3>3 DEF Tree!Next
  <2> QED
    BY <2>2, <2>3
<1> QED
  BY <1>1, <1>4, <1>5

LEMMA WholeInit ==
  Init => Whole(fs) /\ Tree!Init
<1> SUFFICES ASSUME Init PROVE Whole(fs) /\ Tree!Init
  OBVIOUS
<1>1. Sound(fs)
  BY FsInit DEF FsIInv
<1>2. ASSUME NEW q \in Seq(Names) PROVE ~ Have(fs, q)
  <2>1. \A i \in Entries : fs.files[i].name = NoName
    BY UnusedTyped DEF Init
  <2>2. Have(fs, q) => IsAt(fs, q, Find(fs, q)) /\ Find(fs, q) \in Entries
    BY <1>1, SoundParts, FindIs DEF Have
  <2>3. Have(fs, q) => Last(q) \in Names /\ Last(q) # NoName
    BY <2>2, Parts, NamesProper DEF IsAt
  <2> QED
    BY <2>1, <2>2, <2>3 DEF IsAt
<1>3. Whole(fs)
  BY <1>1, <1>2 DEF Whole, Sized
<1>4. TreeOf(fs) = <<>>
  <2>1. DOMAIN TreeOf(fs) = {}
    BY <1>1, <1>2, TreeAt, PathsOfNames DEF Named
  <2>2. TreeOf(fs) = [q \in DOMAIN TreeOf(fs) |-> TreeOf(fs)[q]]
    BY <1>1, TreeAt
  <2>3. <<>> = [q \in {} |-> TreeOf(fs)[q]]
    OBVIOUS
  <2> QED
    BY <2>1, <2>2, <2>3
<1>5. reply = Refused
  BY DEF Init
<1> QED
  BY <1>3, <1>4, <1>5, TreeTerms DEF Tree!Init

LEMMA TreeStep ==
  Whole(fs) /\ [Next]_vars => Whole(fs)' /\ [Tree!Next]_<<TreeOf(fs), reply>>
<1> SUFFICES ASSUME Whole(fs), [Next]_vars
             PROVE  Whole(fs)' /\ [Tree!Next]_<<TreeOf(fs), reply>>
  OBVIOUS
<1>0. \A results : Returns(results) => \E r \in results : Answers(r)
  BY DEF Returns, Answers
<1>1. CASE fs_mkdir /\ fs.file_count <= FS_MAX_FILES
  <2>1. PICK p \in Named : Answers(Mkdir(fs, p))
    BY <1>0, <1>1 DEF fs_mkdir
  <2> QED
    BY <1>1, <2>1, MkdirSeen
<1>2. CASE fs_create
  <2>1. PICK r \in {Create(fs, p, 0, TRUE) : p \in Named} : Answers(r)
    BY <1>0, <1>2 DEF fs_create
  <2>2. PICK p \in Named : r = Create(fs, p, 0, TRUE)
    OBVIOUS
  <2> QED
    BY <2>1, <2>2, CreateSeen
<1>3. CASE fs_delete
  <2>1. PICK p \in Named : Answers(Delete(fs, p))
    BY <1>0, <1>3 DEF fs_delete
  <2> QED
    BY <2>1, DeleteSeen
<1>4. CASE fs_write
  <2>1. PICK p \in Named, d \in Data, ok \in BOOLEAN : Answers(Write(fs, p, d, Len(d), ok))
    BY <1>0, <1>4 DEF fs_write
  <2> QED
    BY <2>1, WriteSeen
<1>5. CASE fs_read
  <2>1. PICK p \in Named : Answers(Result(fs, Read(fs, p)))
    BY <1>0, <1>5 DEF fs_read
  <2> QED
    BY <2>1, ReadSeen
<1>6. CASE fs_copy
  <2>1. PICK p \in Named, q \in Named, m \in Mallocs : Answers(Copy(fs, p, q, m[1], m[2]))
    BY <1>0, <1>6 DEF fs_copy
  <2> QED
    BY <2>1, CopySeen
<1>7. CASE fs_move
  <2>1. PICK p \in Named, q \in Named, m \in Mallocs : Answers(Move(fs, p, q, m[1], m[2]))
    BY <1>0, <1>7 DEF fs_move
  <2> QED
    BY <2>1, MoveSeen
<1>8. CASE UNCHANGED vars
  BY <1>8 DEF vars
<1> QED
  BY <1>1, <1>2, <1>3, <1>4, <1>5, <1>6, <1>7, <1>8 DEF Next

(* Whatever is made, written, deleted, copied and moved, and whichever     *)
(* mallocs fail on the way, the calls of fs.c are operations on a tree of  *)
(* paths: lookup by name in two tables finds what the path was given, a    *)
(* call touches no other path, and a refusal changes nothing but the       *)
(* content a write may lose.                                               *)
THEOREM FilesAreATree ==
  Spec => ImplementsFileTree
<1>1. Init => Whole(fs) /\ Tree!Init
  BY WholeInit
<1>2. Whole(fs) /\ [Next]_vars => Whole(fs)' /\ [Tree!Next]_<<TreeOf(fs), reply>>
  BY TreeStep
<1> QED
  BY <1>1, <1>2, PTL DEF Spec, ImplementsFileTree, Tree!Spec
=============================================================================
