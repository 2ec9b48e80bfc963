--------------------------- MODULE ProgramProofs ---------------------------
(***************************************************************************)
(* What a program relies on.  The C library's heap, for every size of the  *)
(* array and every request: the list tiles the array, and nobody is given  *)
(* memory somebody holds.  The timer under system calls, for every width   *)
(* of its counter, length of its seconds and size of its table: what a     *)
(* tick finds in the table between two stores of the thread, what the      *)
(* clock shows, and how long a sleep lasts.                                *)
(***************************************************************************)
EXTENDS Stdlib, Syscall, WellFoundedInduction, TLAPS

(* What BlocksTile says of the list, and that the blocks are in the array  *)
(* and apart, which takes no walk along the list to see.                   *)
Typed(b) == b \in [DOMAIN b -> [size : Nat, free : BOOLEAN, next : Nat]]

Linked(b) ==
    \A a \in DOMAIN b : \/ b[a].next = NULL /\ EndOf(b, a) = HeapEnd
                        \/ b[a].next = EndOf(b, a) /\ b[a].next \in DOMAIN b

Reached(b) == \A a \in DOMAIN b \ {HeapStart} : \E c \in DOMAIN b : b[c].next = a

Apart(b) == \A a, c \in DOMAIN b : a < c => EndOf(b, a) <= c

Tiled(b) == /\ Typed(b) /\ Linked(b) /\ Reached(b) /\ Apart(b)
            /\ HeapStart \in DOMAIN b
            /\ DOMAIN b \subseteq HeapStart .. HeapEnd - Header

Used(b) == {a \in DOMAIN b : ~ b[a].free}

-----------------------------------------------------------------------------
LEMMA Numbers == /\ HeapStart \in Nat /\ HeapStart > 0 /\ HeapEnd \in Nat
                 /\ Header = 12 /\ NULL = 0 /\ HeapStart <= HeapEnd - Header
  BY StdlibAssumption DEF HeapEnd, Header, NULL

LEMMA BlockFacts ==
  ASSUME NEW b, Tiled(b), NEW a \in DOMAIN b
  PROVE  /\ a \in Nat /\ a > 0 /\ a >= HeapStart /\ a <= HeapEnd - Header
         /\ b[a].size \in Nat /\ b[a].free \in BOOLEAN /\ b[a].next \in Nat
         /\ b[a] = [size |-> b[a].size, free |-> b[a].free, next |-> b[a].next]
         /\ EndOf(b, a) = a + 12 + b[a].size /\ EndOf(b, a) \in Nat
         /\ EndOf(b, a) > a /\ EndOf(b, a) <= HeapEnd
<1>1. a \in Nat /\ a > 0 /\ a >= HeapStart /\ a <= HeapEnd - Header
  BY Numbers DEF Tiled
<1>2. b[a] \in [size : Nat, free : BOOLEAN, next : Nat]
  BY DEF Tiled, Typed
<1>3. /\ EndOf(b, a) = a + 12 + b[a].size /\ EndOf(b, a) \in Nat /\ EndOf(b, a) > a
  BY <1>1, <1>2, Numbers DEF EndOf
<1>4. EndOf(b, a) <= HeapEnd
  <2>1. CASE b[a].next = NULL /\ EndOf(b, a) = HeapEnd
    BY <2>1, Numbers
  <2>2. CASE b[a].next = EndOf(b, a) /\ b[a].next \in DOMAIN b
    BY <2>2, <1>3, Numbers DEF Tiled
  <2> QED
    BY <2>1, <2>2 DEF Tiled, Linked
<1> QED
  BY <1>1, <1>2, <1>3, <1>4

(* Two blocks with one end are one. *)
LEMMA EndUnique ==
  ASSUME NEW b, Tiled(b), NEW a \in DOMAIN b, NEW c \in DOMAIN b, EndOf(b, a) = EndOf(b, c)
  PROVE  a = c
<1>1. /\ a \in Nat /\ c \in Nat /\ EndOf(b, a) \in Nat
      /\ EndOf(b, a) > a /\ EndOf(b, c) > c
  BY BlockFacts
<1>2. ~ (a < c) /\ ~ (c < a)
  BY <1>1 DEF Tiled, Apart
<1> QED
  BY <1>1, <1>2

(* A block that ends where another begins is linked to it. *)
LEMMA EndLinked ==
  ASSUME NEW b, Tiled(b), NEW a \in DOMAIN b, NEW c \in DOMAIN b
  PROVE  b[a].next = c <=> EndOf(b, a) = c
<1>1. c # NULL /\ c # HeapEnd /\ c \in Nat
  BY BlockFacts, Numbers
<1> QED
  BY <1>1, BlockFacts DEF Tiled, Linked

(* Setting a block's flag. *)
LEMMA FlagTiled ==
  ASSUME NEW b, Tiled(b), NEW a \in DOMAIN b, NEW v \in BOOLEAN
  PROVE  LET f == [b EXCEPT ![a].free = v] IN
         /\ Tiled(f) /\ DOMAIN f = DOMAIN b /\ f[a].free = v
         /\ \A x \in DOMAIN b : /\ f[x].size = b[x].size /\ f[x].next = b[x].next
                                /\ EndOf(f, x) = EndOf(b, x)
                                /\ x # a => f[x] = b[x]
<1> DEFINE f == [b EXCEPT ![a].free = v]
<1>1. /\ DOMAIN f = DOMAIN b
      /\ f[a] = [size |-> b[a].size, free |-> v, next |-> b[a].next]
      /\ \A x \in DOMAIN b : x # a => f[x] = b[x]
  BY BlockFacts
<1>2. f = [x \in DOMAIN b |-> f[x]]
  OBVIOUS
<1> HIDE DEF f
<1>3. \A x \in DOMAIN b : f[x].size = b[x].size /\ f[x].next = b[x].next
  BY <1>1
<1>4. \A x \in DOMAIN b : EndOf(f, x) = EndOf(b, x)
  BY <1>3 DEF EndOf
<1>5. Typed(f)
  BY <1>1, <1>2, BlockFacts DEF Typed, Tiled
<1>6. Tiled(f)
  BY <1>1, <1>3, <1>4, <1>5 DEF Tiled, Linked, Reached, Apart
<1> QED
  BY <1>1, <1>3, <1>4, <1>6 DEF f

(* The split: the block keeps what was asked, the rest is a new free one.  *)
LEMMA SplitTiled ==
  ASSUME Tiled(block), NEW a \in Blocks, block[a].free, NEW size \in Nat, size <= block[a].size
  PROVE  LET s == Split(a, size) IN
         /\ Tiled(s) /\ Blocks \subseteq DOMAIN s
         /\ \A x \in DOMAIN s \ Blocks : s[x].free
         /\ \A x \in Blocks \ {a} : s[x] = block[x]
         /\ s[a].size >= size /\ EndOf(s, a) <= EndOf(block, a)
<1> DEFINE b   == block
           new == a + Header + size
           s   == Split(a, size)
<1>0. /\ a \in DOMAIN b /\ Tiled(b) /\ Blocks = DOMAIN b
      /\ a \in Nat /\ a > 0 /\ b[a].size \in Nat /\ b[a].next \in Nat
      /\ EndOf(b, a) = a + 12 + b[a].size /\ EndOf(b, a) <= HeapEnd
      /\ HeapEnd \in Nat /\ a >= HeapStart /\ b[a].free = TRUE
      /\ b[a] = [size |-> b[a].size, free |-> TRUE, next |-> b[a].next]
  BY BlockFacts, Numbers DEF Blocks
<1>1. CASE b[a].size < size + Header + MinPayload
  <2>1. s = b
    BY <1>1 DEF Split
  <2> QED
    BY <2>1, <1>0
<1>2. CASE ~ (b[a].size < size + Header + MinPayload)
  <2>1. /\ new = a + 12 + size /\ new \in Nat /\ new > a /\ new + 28 <= EndOf(b, a)
        /\ b[a].size >= size + 28 /\ new > HeapStart /\ new <= HeapEnd - 12
    BY <1>0, <1>2, Numbers DEF MinPayload
  <2>2. new \notin DOMAIN b
    BY <1>0, <2>1 DEF Tiled, Apart
  <2>3. /\ DOMAIN s = DOMAIN b \cup {new} /\ s = [x \in DOMAIN s |-> s[x]]
        /\ s[new] = [size |-> b[a].size - size - 12, free |-> TRUE, next |-> b[a].next]
        /\ s[a] = [size |-> size, free |-> TRUE, next |-> new]
        /\ \A x \in DOMAIN b \ {a} : s[x] = b[x]
    <3>1. s = [x \in Blocks \cup {new} |->
                 IF x = new THEN [size |-> b[a].size - size - Header, free |-> TRUE,
                                  next |-> b[a].next]
                 ELSE IF x = a THEN [size |-> size, free |-> b[a].free, next |-> new]
                 ELSE b[x]]
      BY <1>2, Zenon DEF Split
    <3> HIDE DEF s, new, b
    <3> QED
      BY <1>0, <2>1, <2>2, <3>1, Numbers
  <2> HIDE DEF s, b, new
  <2>4. b[a].size - size - 12 \in Nat
    BY <1>0, <2>1
  <2>5. /\ EndOf(s, new) = EndOf(b, a) /\ EndOf(s, a) = new
        /\ \A x \in DOMAIN b \ {a} : EndOf(s, x) = EndOf(b, x)
    BY <1>0, <2>1, <2>3, Numbers DEF EndOf
  <2>6. Typed(s)
    <3>1. \A x \in DOMAIN s : s[x] \in [size : Nat, free : BOOLEAN, next : Nat]
      <4>1. s[new] \in [size : Nat, free : BOOLEAN, next : Nat]
        BY <1>0, <2>3, <2>4
      <4>2. s[a] \in [size : Nat, free : BOOLEAN, next : Nat]
        BY <2>1, <2>3
      <4>3. \A x \in DOMAIN b \ {a} : s[x] \in [size : Nat, free : BOOLEAN, next : Nat]
        BY <1>0, <2>3 DEF Tiled, Typed
      <4> QED
        BY <2>3, <4>1, <4>2, <4>3
    <3> QED
      BY <2>3, <3>1 DEF Typed
  <2>7. Linked(s)
    <3> SUFFICES ASSUME NEW x \in DOMAIN s
                 PROVE  \/ s[x].next = NULL /\ EndOf(s, x) = HeapEnd
                        \/ s[x].next = EndOf(s, x) /\ s[x].next \in DOMAIN s
      BY DEF Linked
    <3>2. CASE x = a
      BY <3>2, <2>3, <2>5
    <3>3. CASE x = new
      BY <3>3, <1>0, <2>3, <2>5 DEF Tiled, Linked
    <3>4. CASE x \in DOMAIN b \ {a}
      BY <3>4, <1>0, <2>3, <2>5 DEF Tiled, Linked
    <3> QED
      BY <2>3, <3>2, <3>3, <3>4
  <2>8. Reached(s)
    <3> SUFFICES ASSUME NEW x \in DOMAIN s \ {HeapStart} PROVE \E c \in DOMAIN s : s[c].next = x
      BY DEF Reached
    <3>1. CASE x = new
      BY <3>1, <1>0, <2>3
    <3>2. CASE x \in DOMAIN b
      <4>1. PICK c \in DOMAIN b : b[c].next = x
        BY <1>0, <3>2 DEF Tiled, Reached
      <4>2. CASE c = a
        BY <4>1, <4>2, <2>3
      <4>3. CASE c # a
        BY <4>1, <4>3, <2>3
      <4> QED
        BY <4>2, <4>3
    <3> QED
      BY <2>3, <3>1, <3>2
  <2>9. Apart(s)
    <3> SUFFICES ASSUME NEW x \in DOMAIN s, NEW y \in DOMAIN s, x < y PROVE EndOf(s, x) <= y
      BY DEF Apart
    <3>0. /\ \A z \in DOMAIN b : z \in Nat /\ EndOf(b, z) \in Nat
          /\ \A z, v \in DOMAIN b : z < v => EndOf(b, z) <= v
      BY <1>0, BlockFacts DEF Tiled, Apart
    <3>1. CASE x = new /\ y = new
      BY <3>1, <2>1
    <3>2. CASE x = new /\ y \in DOMAIN b
      BY <3>2, <3>0, <1>0, <2>1, <2>5
    <3>3. CASE x \in DOMAIN b /\ y = new
      <4>1. CASE x = a
        BY <4>1, <3>3, <2>5, <2>1
      <4>2. CASE x # a
        <5>1. ~ (a < x)
          BY <3>3, <3>0, <1>0, <2>1
        <5> QED
          BY <5>1, <4>2, <3>3, <3>0, <1>0, <2>1, <2>5
      <4> QED
        BY <4>1, <4>2
    <3>4. CASE x \in DOMAIN b /\ y \in DOMAIN b
      BY <3>4, <3>0, <1>0, <2>1, <2>5
    <3> QED
      BY <2>3, <3>1, <3>2, <3>3, <3>4
  <2>10. DOMAIN s \subseteq HeapStart .. HeapEnd - Header /\ HeapStart \in DOMAIN s
    BY <1>0, <2>1, <2>3, Numbers DEF Tiled
  <2>11. Tiled(s)
    BY <2>6, <2>7, <2>8, <2>9, <2>10 DEF Tiled
  <2> QED
    <3>1. /\ s[a].size >= size /\ EndOf(s, a) <= EndOf(b, a)
          /\ \A x \in DOMAIN s \ DOMAIN b : s[x].free
      BY <1>0, <2>1, <2>3, <2>5
    <3> QED
      BY <1>0, <2>3, <2>11, <3>1 DEF s, b
<1> QED
  BY <1>1, <1>2

(* malloc's block, taken from a free one that is large enough.             *)
LEMMA TakenTiled ==
  ASSUME Tiled(block), NEW a \in Blocks, block[a].free, NEW size \in Nat, size <= block[a].size
  PROVE  LET t == Taken(a, size) IN
         /\ Tiled(t) /\ Used(t) = Used(block) \cup {a} /\ a \notin Used(block)
         /\ \A x \in Used(block) : t[x] = block[x]
         /\ t[a].size >= size /\ EndOf(t, a) <= EndOf(block, a)
<1> DEFINE s == Split(a, size)
           t == Taken(a, size)
<1>1. /\ Tiled(s) /\ Blocks \subseteq DOMAIN s /\ a \in DOMAIN s
      /\ \A x \in DOMAIN s \ Blocks : s[x].free
      /\ \A x \in Blocks \ {a} : s[x] = block[x]
      /\ s[a].size >= size /\ EndOf(s, a) <= EndOf(block, a)
  BY SplitTiled
<1>2. t = [s EXCEPT ![a].free = FALSE]
  BY DEF Taken
<1> HIDE DEF s, t
<1>3. /\ Tiled(t) /\ DOMAIN t = DOMAIN s /\ t[a].free = FALSE
      /\ \A x \in DOMAIN s : /\ t[x].size = s[x].size /\ EndOf(t, x) = EndOf(s, x)
                             /\ x # a => t[x] = s[x]
  BY <1>1, <1>2, FlagTiled
<1>4. Used(t) = Used(block) \cup {a} /\ a \notin Used(block)
  BY <1>1, <1>3 DEF Used, Blocks
<1>5. \A x \in Used(block) : t[x] = block[x]
  BY <1>1, <1>3, <1>4 DEF Used, Blocks
<1> QED
  BY <1>1, <1>3, <1>4, <1>5 DEF t

(* Two blocks, one after the other, become one. *)
LEMMA MergedTiled ==
  ASSUME NEW b, Tiled(b), NEW a \in DOMAIN b, NEW n \in DOMAIN b, b[a].next = n
  PROVE  LET m == Merged(b, a, n) IN
         /\ Tiled(m) /\ DOMAIN m = DOMAIN b \ {n} /\ a # n
         /\ m[a].free = b[a].free /\ \A x \in DOMAIN b \ {a, n} : m[x] = b[x]
<1> DEFINE m == Merged(b, a, n)
<1>0. /\ \A x \in DOMAIN b : /\ x \in Nat /\ x > 0 /\ x >= HeapStart /\ EndOf(b, x) \in Nat
                            /\ b[x].size \in Nat /\ EndOf(b, x) = x + 12 + b[x].size
                            /\ EndOf(b, x) > x
                            /\ b[x] \in [size : Nat, free : BOOLEAN, next : Nat]
      /\ \A x, y \in DOMAIN b : x < y => EndOf(b, x) <= y
      /\ \A x, y \in DOMAIN b : EndOf(b, x) = EndOf(b, y) => x = y
      /\ HeapStart \in Nat
  BY BlockFacts, EndUnique, Numbers DEF Tiled, Apart, Typed
<1>1. EndOf(b, a) = n /\ n > a /\ a # n /\ n # HeapStart
  BY <1>0, EndLinked
<1>2. /\ DOMAIN m = DOMAIN b \ {n} /\ m = [x \in DOMAIN m |-> m[x]]
      /\ m[a] = [size |-> b[a].size + 12 + b[n].size, free |-> b[a].free, next |-> b[n].next]
      /\ \A x \in DOMAIN b \ {a, n} : m[x] = b[x]
  BY <1>1, Numbers DEF Merged
<1> HIDE DEF m
<1>3. /\ EndOf(m, a) = EndOf(b, n)
      /\ \A x \in DOMAIN b \ {a, n} : EndOf(m, x) = EndOf(b, x)
  BY <1>0, <1>1, <1>2, Numbers DEF EndOf
<1>4. Typed(m)
  <2>1. m[a] \in [size : Nat, free : BOOLEAN, next : Nat]
    BY <1>0, <1>2
  <2>2. \A x \in DOMAIN m : m[x] \in [size : Nat, free : BOOLEAN, next : Nat]
    BY <1>0, <1>2, <2>1
  <2> QED
    BY <1>2, <2>2 DEF Typed
<1>5. Linked(m)
  <2> SUFFICES ASSUME NEW x \in DOMAIN m
               PROVE  \/ m[x].next = NULL /\ EndOf(m, x) = HeapEnd
                      \/ m[x].next = EndOf(m, x) /\ m[x].next \in DOMAIN m
    BY DEF Linked
  <2>1. CASE x = a
    <3>1. m[a].next = b[n].next /\ b[n].next # n
      BY <1>0, <1>2, EndLinked
    <3> QED
      BY <2>1, <3>1, <1>2, <1>3 DEF Tiled, Linked
  <2>2. CASE x # a
    <3>1. x \in DOMAIN b \ {a, n} /\ m[x].next = b[x].next /\ EndOf(m, x) = EndOf(b, x)
      BY <2>2, <1>2, <1>3
    <3>2. b[x].next # n
      BY <3>1, <1>0, <1>1, EndLinked
    <3> QED
      BY <3>1, <3>2, <1>2 DEF Tiled, Linked
  <2> QED
    BY <2>1, <2>2
<1>6. Reached(m)
  <2> SUFFICES ASSUME NEW x \in DOMAIN m \ {HeapStart} PROVE \E c \in DOMAIN m : m[c].next = x
    BY DEF Reached
  <2>1. PICK c \in DOMAIN b : b[c].next = x
    BY <1>2 DEF Tiled, Reached
  <2>2. CASE c = n
    BY <2>1, <2>2, <1>1, <1>2
  <2>3. CASE c # n
    <3>1. c # a
      BY <2>1, <1>2
    <3> QED
      BY <2>1, <2>3, <3>1, <1>2
  <2> QED
    BY <2>2, <2>3
<1>7. Apart(m)
  <2> SUFFICES ASSUME NEW x \in DOMAIN m, NEW y \in DOMAIN m, x < y PROVE EndOf(m, x) <= y
    BY DEF Apart
  <2>1. CASE x = a
    <3>1. y > n
      <4>1. y \in DOMAIN b /\ y # n /\ y > a
        BY <2>1, <1>2
      <4> QED
        BY <4>1, <1>0, <1>1
    <3> QED
      BY <2>1, <3>1, <1>0, <1>2, <1>3
  <2>2. CASE x # a
    BY <2>2, <1>0, <1>2, <1>3
  <2> QED
    BY <2>1, <2>2
<1>8. HeapStart \in DOMAIN m /\ DOMAIN m \subseteq HeapStart .. HeapEnd - Header
  BY <1>1, <1>2 DEF Tiled
<1>9. Tiled(m)
  BY <1>4, <1>5, <1>6, <1>7, <1>8 DEF Tiled
<1> QED
  BY <1>1, <1>2, <1>9 DEF m

(* free: the block goes, alone or into a free neighbour.                   *)
LEMMA FreedTiled ==
  ASSUME NEW b, Tiled(b), NEW a \in Used(b)
  PROVE  LET g == Freed(b, a) IN
         /\ Tiled(g) /\ Used(g) = Used(b) \ {a} /\ DOMAIN g \subseteq DOMAIN b
         /\ \A x \in Used(b) \ {a} : g[x] = b[x]
         /\ a \in DOMAIN g => ~ FreeBefore(g, a)
<1> DEFINE f      == [b EXCEPT ![a].free = TRUE]
           before == {x \in DOMAIN f : f[x].free /\ EndOf(f, x) = a}
           after  == {x \in DOMAIN f : f[x].free /\ x = f[a].next}
           g      == Freed(b, a)
<1>0. a \in DOMAIN b
  BY DEF Used
<1>1. /\ Tiled(f) /\ DOMAIN f = DOMAIN b /\ f[a].free = TRUE
      /\ \A x \in DOMAIN b : x # a => f[x] = b[x]
  BY <1>0, FlagTiled
<1>2. g = IF before # {} THEN Merged(f, Max(before), a)
          ELSE IF after # {} THEN Merged(f, a, Max(after)) ELSE f
  BY DEF Freed
<1>3. Used(f) = Used(b) \ {a}
  BY <1>0, <1>1 DEF Used
<1>4. \A x : Max({x}) = x \/ x \notin Nat
  BY DEF Max
<1>5. \A x \in DOMAIN f : x \in Nat /\ EndOf(f, x) > x /\ (f[x].next = a <=> EndOf(f, x) = a)
  BY <1>0, <1>1, BlockFacts, EndLinked
<1> HIDE DEF f, g
<1>6. CASE before # {}
  <2>1. PICK x \in before : TRUE
    BY <1>6
  <2>2. before = {x}
    BY <2>1, <1>1, EndUnique
  <2>3. g = Merged(f, x, a) /\ x \in DOMAIN f /\ f[x].next = a /\ f[x].free
    BY <2>1, <2>2, <1>2, <1>4, <1>5, <1>6
  <2>4. /\ Tiled(g) /\ DOMAIN g = DOMAIN f \ {a} /\ x # a /\ g[x].free = f[x].free
        /\ \A y \in DOMAIN f \ {x, a} : g[y] = f[y]
    <3> HIDE DEF before
    <3>1. Tiled(f) /\ x \in DOMAIN f /\ a \in DOMAIN f /\ f[x].next = a
      BY <2>3, <1>0, <1>1
    <3>2. /\ Tiled(Merged(f, x, a)) /\ DOMAIN Merged(f, x, a) = DOMAIN f \ {a} /\ x # a
          /\ Merged(f, x, a)[x].free = f[x].free
          /\ \A y \in DOMAIN f \ {x, a} : Merged(f, x, a)[y] = f[y]
      BY <3>1, MergedTiled
    <3> QED
      BY <2>3, <3>2
  <2>5. Used(g) = Used(f)
    BY <2>3, <2>4, <1>1 DEF Used
  <2>6. \A y \in Used(b) \ {a} : g[y] = b[y]
    BY <2>3, <2>4, <1>1, <1>3 DEF Used
  <2> QED
    BY <2>4, <2>5, <2>6, <1>1, <1>3 DEF g
<1>7. CASE before = {} /\ after # {}
  <2> DEFINE n == f[a].next
  <2>1. after = {n} /\ n \in DOMAIN f /\ f[n].free
    BY <1>7
  <2>2. g = Merged(f, a, n)
    BY <2>1, <1>2, <1>4, <1>5, <1>7
  <2>3. /\ Tiled(g) /\ DOMAIN g = DOMAIN f \ {n} /\ a # n /\ g[a].free = f[a].free
        /\ \A y \in DOMAIN f \ {a, n} : g[y] = f[y]
    BY <2>1, <2>2, <1>0, <1>1, MergedTiled
  <2>4. Used(g) = Used(f)
    BY <2>1, <2>3, <1>0, <1>1 DEF Used
  <2>5. \A y \in Used(b) \ {a} : g[y] = b[y]
    BY <2>1, <2>3, <1>1, <1>3 DEF Used
  <2>6. ~ FreeBefore(g, a)
    <3> SUFFICES ASSUME NEW x \in DOMAIN g, g[x].free, g[x].next = a PROVE FALSE
      BY DEF FreeBefore
    <3>1. EndOf(g, x) = a /\ EndOf(g, x) > x /\ x # a
      BY <2>3, <1>0, <1>1, BlockFacts, EndLinked
    <3>2. g[x] = f[x] /\ x \in DOMAIN f
      BY <3>1, <2>3
    <3> QED
      BY <3>2, <1>5, <1>7
  <2> QED
    BY <2>3, <2>4, <2>5, <2>6, <1>1, <1>3 DEF g
<1>8. CASE before = {} /\ after = {}
  <2>1. g = f
    BY <1>2, <1>8
  <2>2. ~ FreeBefore(g, a)
    BY <2>1, <1>5, <1>8 DEF FreeBefore
  <2> QED
    BY <2>1, <2>2, <1>1, <1>3 DEF g, Used
<1> QED
  BY <1>6, <1>7, <1>8

-----------------------------------------------------------------------------
(* The size malloc looks for holds the size asked for.                     *)
LEMMA RoundedHolds ==
  ASSUME NEW size \in Nat
  PROVE  Rounded(size) \in Nat /\ Rounded(size) >= size
<1> DEFINE r == ((size + 7) \div 8) * 8
<1>1. r \in Nat /\ r >= size
  <2>1. (size + 7) \div 8 \in Nat /\ size + 7 < 8 * ((size + 7) \div 8) + 8
    BY SMTT(30)
  <2> QED
    BY <2>1
<1> HIDE DEF r
<1>2. PICK m \in {r, 16} : \A y \in {r, 16} : m >= y
  BY <1>1
<1>3. Max({r, 16}) \in {r, 16} /\ \A y \in {r, 16} : Max({r, 16}) >= y
  BY <1>2 DEF Max
<1>4. Rounded(size) = Max({r, 16})
  BY DEF Rounded, MinPayload, r
<1> QED
  BY <1>1, <1>3, <1>4

(* The search of malloc ends at a block that fits, when there is one.      *)
LEMMA FirstFits ==
  ASSUME Tiled(block), NEW size \in Nat, Fitting(size) # {}
  PROVE  FirstFit(size) \in Blocks /\ block[FirstFit(size)].free /\ size <= block[FirstFit(size)].size
<1> DEFINE R == {ss \in Nat \X Nat : ss[1] < ss[2]}
           S == Fitting(size)
<1>1. IsWellFoundedOn(R, Nat)
  <2>1. R = OpToRel(<, Nat)
    BY DEF OpToRel
  <2> QED
    BY <2>1, NatLessThanWellFounded
<1>2. S \subseteq Nat
  BY BlockFacts DEF Fitting, Blocks
<1>3. PICK m \in S : \A k \in S : ~ (<<k, m>> \in R)
  <2> HIDE DEF R, S
  <2>1. S # {}
    BY DEF S
  <2> QED
    BY <1>1, <1>2, <2>1, WFMin
<1>4. ASSUME NEW k \in S PROVE m <= k
  <2> HIDE DEF S
  <2>1. k \in Nat /\ m \in Nat
    BY <1>2
  <2>2. <<k, m>> \in Nat \X Nat /\ <<k, m>>[1] = k /\ <<k, m>>[2] = m
    BY <2>1
  <2>3. ~ (k < m)
    BY <1>3, <2>2
  <2> QED
    BY <2>1, <2>3
<1>5. FirstFit(size) \in S
  BY <1>3, <1>4 DEF FirstFit, Min
<1>6. \A k \in S : block[k].size \in Nat
  BY BlockFacts DEF Fitting, Blocks
<1> QED
  BY <1>5, <1>6 DEF Fitting

-----------------------------------------------------------------------------
(* The invariant: the pointers held are those to the blocks in use, each   *)
(* asked for with a size its block has.                                    *)
HoldersAgree(b, sizes, bytes) ==
    /\ Tiled(b)
    /\ sizes \in [{a + Header : a \in Used(b)} -> Sizes]
    /\ \A a \in Used(b) : sizes[a + Header] <= b[a].size
    /\ bytes \in [DOMAIN sizes -> Contents]

HeapInv == HoldersAgree(block, asked, content)

LEMMA SizesNat == Sizes \subseteq Nat
  BY StdlibAssumption

(* The header of a pointer held. *)
LEMMA HeaderOf ==
  ASSUME NEW b, NEW sizes, NEW bytes, HoldersAgree(b, sizes, bytes), NEW p \in DOMAIN sizes
  PROVE  /\ p - Header \in Used(b) /\ p - Header \in DOMAIN b /\ p = (p - Header) + Header
         /\ p \in Nat /\ sizes[p] \in Sizes /\ sizes[p] \in Nat
         /\ sizes[p] <= b[p - Header].size /\ bytes[p] \in Contents
<1>1. PICK a \in Used(b) : p = a + Header
  BY DEF HoldersAgree
<1>2. a \in Nat /\ a \in DOMAIN b
  BY BlockFacts DEF HoldersAgree, Used
<1>3. p - Header = a /\ p \in Nat
  BY <1>1, <1>2, Numbers
<1> QED
  BY <1>1, <1>2, <1>3, SizesNat DEF HoldersAgree

(* Two pointers to blocks are apart as their blocks are.                   *)
LEMMA ExtentsApart ==
  ASSUME NEW b, Tiled(b), NEW a \in DOMAIN b, NEW c \in DOMAIN b, a # c,
         NEW m \in Nat, m <= b[a].size, NEW n \in Nat, n <= b[c].size
  PROVE  Abs!Extent(a + Header, m) \cap Abs!Extent(c + Header, n) = {}
<1>1. /\ a \in Nat /\ c \in Nat /\ b[a].size \in Nat /\ b[c].size \in Nat
      /\ EndOf(b, a) = a + 12 + b[a].size /\ EndOf(b, c) = c + 12 + b[c].size
  BY BlockFacts
<1>2. EndOf(b, a) <= c \/ EndOf(b, c) <= a
  BY <1>1 DEF Tiled, Apart
<1> QED
  BY <1>1, <1>2, Numbers DEF Abs!Extent

LEMMA ExtentInArena ==
  ASSUME NEW b, Tiled(b), NEW a \in DOMAIN b, NEW m \in Nat, m <= b[a].size
  PROVE  Abs!Extent(a + Header, m) \subseteq HeapStart .. HeapEnd - 1
<1>1. /\ a \in Nat /\ b[a].size \in Nat /\ a >= HeapStart
      /\ EndOf(b, a) = a + 12 + b[a].size /\ EndOf(b, a) <= HeapEnd
  BY BlockFacts
<1> QED
  BY <1>1, Numbers DEF Abs!Extent

(* Taking a block keeps the invariant. *)
LEMMA TakeKeeps ==
  ASSUME HeapInv, NEW size \in Sizes, NEW bytes \in Contents, Fitting(Rounded(size)) # {}
  PROVE  LET a == FirstFit(Rounded(size)) IN
         /\ HoldersAgree(Taken(a, Rounded(size)), With(asked, a + Header, size),
                         With(content, a + Header, bytes))
         /\ a \in Blocks /\ a \notin Used(block) /\ a + Header \notin DOMAIN asked
         /\ size <= block[a].size
<1> DEFINE r == Rounded(size)
           a == FirstFit(r)
           t == Taken(a, r)
<1>1. size \in Nat /\ r \in Nat /\ r >= size
  BY SizesNat, RoundedHolds
<1>2. Tiled(block)
  BY DEF HeapInv, HoldersAgree
<1>3. a \in Blocks /\ block[a].free /\ r <= block[a].size
  BY <1>1, <1>2, FirstFits
<1> HIDE DEF r, a
<1>4. /\ Tiled(t) /\ Used(t) = Used(block) \cup {a} /\ a \notin Used(block)
      /\ \A x \in Used(block) : t[x] = block[x]
      /\ t[a].size >= r
  BY <1>1, <1>2, <1>3, TakenTiled
<1> HIDE DEF t
<1>5. \A x \in DOMAIN t : x \in Nat /\ t[x].size \in Nat
  BY <1>4, BlockFacts
<1>6. a \in Used(t) /\ \A x \in Used(t) : x \in DOMAIN t /\ x \in Nat
  BY <1>4, <1>5 DEF Used
<1>7. a + Header \notin DOMAIN asked
  <2> SUFFICES ASSUME NEW x \in Used(block), a + Header = x + Header PROVE FALSE
    BY DEF HeapInv, HoldersAgree
  <2>1. x \in Nat /\ a \in Nat
    BY <1>4, <1>6
  <2> QED
    BY <2>1, <1>4, Numbers
<1>8. {x + Header : x \in Used(t)} = DOMAIN asked \cup {a + Header}
  BY <1>4 DEF HeapInv, HoldersAgree
<1>9. With(asked, a + Header, size) \in [{x + Header : x \in Used(t)} -> Sizes]
  BY <1>8 DEF With, HeapInv, HoldersAgree
<1>10. ASSUME NEW x \in Used(t) PROVE With(asked, a + Header, size)[x + Header] <= t[x].size
  <2>1. CASE x = a
    <3>1. With(asked, a + Header, size)[a + Header] = size
      BY DEF With
    <3> QED
      BY <2>1, <3>1, <1>1, <1>4, <1>5, <1>6
  <2>2. CASE x # a
    <3>1. x \in Used(block) /\ x + Header \in DOMAIN asked
      BY <2>2, <1>4 DEF HeapInv, HoldersAgree
    <3>2. x + Header # a + Header
      BY <3>1, <1>7
    <3>3. With(asked, a + Header, size)[x + Header] = asked[x + Header]
      BY <3>1, <3>2 DEF With
    <3> QED
      BY <3>1, <3>3, <1>4 DEF HeapInv, HoldersAgree
  <2> QED
    BY <2>1, <2>2
<1>11. With(content, a + Header, bytes) \in [DOMAIN With(asked, a + Header, size) -> Contents]
  BY DEF With, HeapInv, HoldersAgree
<1>12. HoldersAgree(t, With(asked, a + Header, size), With(content, a + Header, bytes))
  BY <1>4, <1>9, <1>10, <1>11 DEF HoldersAgree
<1>13. size <= block[a].size
  BY <1>1, <1>2, <1>3, BlockFacts DEF Blocks
<1> QED
  BY <1>3, <1>4, <1>7, <1>12, <1>13 DEF r, a, t

(* Freeing one does. *)
LEMMA FreeKeeps ==
  ASSUME NEW b, NEW sizes, NEW bytes, HoldersAgree(b, sizes, bytes), NEW p \in DOMAIN sizes
  PROVE  HoldersAgree(Freed(b, p - Header), Without(sizes, p), Without(bytes, p))
<1> DEFINE a == p - Header
           g == Freed(b, a)
<1>1. a \in Used(b) /\ p = a + Header /\ Tiled(b)
  BY HeaderOf DEF HoldersAgree
<1> HIDE DEF a
<1>2. /\ Tiled(g) /\ Used(g) = Used(b) \ {a}
      /\ \A x \in Used(b) \ {a} : g[x] = b[x]
  BY <1>1, FreedTiled
<1> HIDE DEF g
<1>3. \A x \in Used(b) : x \in Nat
  BY <1>1, BlockFacts DEF Used
<1>4. \A x \in Used(b) : x + Header = p => x = a
  BY <1>1, <1>3, Numbers
<1>5. {x + Header : x \in Used(g)} = DOMAIN sizes \ {p}
  BY <1>1, <1>2, <1>4 DEF HoldersAgree
<1>6. Without(sizes, p) \in [{x + Header : x \in Used(g)} -> Sizes]
  BY <1>5 DEF Without, HoldersAgree
<1>7. ASSUME NEW x \in Used(g) PROVE Without(sizes, p)[x + Header] <= g[x].size
  <2>1. x \in Used(b) /\ g[x] = b[x] /\ x + Header \in DOMAIN sizes \ {p}
    BY <1>2, <1>5
  <2>2. Without(sizes, p)[x + Header] = sizes[x + Header]
    BY <2>1 DEF Without
  <2> QED
    BY <2>1, <2>2 DEF HoldersAgree
<1>8. Without(bytes, p) \in [DOMAIN Without(sizes, p) -> Contents]
  BY DEF Without, HoldersAgree
<1> QED
  BY <1>2, <1>6, <1>7, <1>8 DEF HoldersAgree, g, a

-----------------------------------------------------------------------------
(* The four calls, each from a state of the invariant.                     *)
LEMMA AllocatedKeeps ==
  ASSUME HeapInv, NEW size \in Sizes, NEW bytes \in Contents, Allocated(size, bytes)
  PROVE  HeapInv'
<1>1. CASE Fitting(Rounded(size)) = {}
  BY <1>1 DEF Allocated, HeapInv, vars
<1>2. CASE Fitting(Rounded(size)) # {}
  <2> DEFINE a == FirstFit(Rounded(size))
  <2>1. /\ block' = Taken(a, Rounded(size))
        /\ asked' = With(asked, a + Header, size)
        /\ content' = With(content, a + Header, bytes)
    BY <1>2 DEF Allocated
  <2> HIDE DEF a
  <2>2. HoldersAgree(Taken(a, Rounded(size)), With(asked, a + Header, size),
                     With(content, a + Header, bytes))
    BY <1>2, TakeKeeps DEF a
  <2> QED
    BY <2>1, <2>2 DEF HeapInv
<1> QED
  BY <1>1, <1>2

LEMMA FreeStep ==
  ASSUME HeapInv, NEW p \in DOMAIN asked, free(p)
  PROVE  HeapInv'
BY FreeKeeps DEF free, HeapInv

LEMMA StoreStep ==
  ASSUME HeapInv, NEW p \in DOMAIN asked, Store(p)
  PROVE  HeapInv'
<1>1. "written" \in Contents
  BY DEF Contents
<1> QED
  BY <1>1 DEF Store, HeapInv, HoldersAgree

LEMMA ReallocStep ==
  ASSUME HeapInv, NEW p \in DOMAIN asked, NEW size \in Sizes, realloc(p, size)
  PROVE  HeapInv'
<1>1. CASE size = 0
  BY <1>1, FreeStep DEF realloc
<1>2. CASE size # 0 /\ block[p - Header].size >= size
  <2>1. asked' = With(asked, p, size) /\ block' = block /\ content' = content
    BY <1>2 DEF realloc
  <2>2. /\ p - Header \in Used(block) /\ p = (p - Header) + Header
        /\ \A x \in Used(block) : x \in Nat /\ block[x].size \in Nat
        /\ size \in Nat
    BY HeaderOf, BlockFacts, SizesNat DEF HeapInv, HoldersAgree, Used
  <2>3. asked' \in [{a + Header : a \in Used(block)} -> Sizes] /\ DOMAIN asked' = DOMAIN asked
    BY <2>1 DEF HeapInv, HoldersAgree, With
  <2>4. ASSUME NEW x \in Used(block) PROVE asked'[x + Header] <= block[x].size
    <3>1. CASE x + Header = p
      <4>1. x = p - Header
        BY <3>1, <2>2, Numbers
      <4> QED
        BY <3>1, <4>1, <2>1, <2>2, <1>2 DEF With
    <3>2. CASE x + Header # p
      <4>1. x + Header \in DOMAIN asked
        BY DEF HeapInv, HoldersAgree
      <4>2. asked'[x + Header] = asked[x + Header]
        BY <3>2, <4>1, <2>1 DEF With
      <4> QED
        BY <4>2 DEF HeapInv, HoldersAgree
    <3> QED
      BY <3>1, <3>2
  <2> QED
    BY <2>1, <2>3, <2>4 DEF HeapInv, HoldersAgree
<1>3. CASE size # 0 /\ ~ (block[p - Header].size >= size) /\ Fitting(Rounded(size)) = {}
  BY <1>3 DEF realloc, HeapInv, vars
<1>4. CASE size # 0 /\ ~ (block[p - Header].size >= size) /\ Fitting(Rounded(size)) # {}
  <2> DEFINE a == FirstFit(Rounded(size))
             t == Taken(a, Rounded(size))
             sizes == With(asked, a + Header, size)
             bytes == With(content, a + Header, content[p])
  <2>1. block' = Freed(t, p - Header) /\ asked' = Without(sizes, p) /\ content' = Without(bytes, p)
    BY <1>4 DEF realloc
  <2>2. content[p] \in Contents
    BY HeaderOf DEF HeapInv
  <2>3. HoldersAgree(t, sizes, bytes)
    BY <1>4, <2>2, TakeKeeps
  <2>4. p \in DOMAIN sizes
    BY DEF With
  <2> HIDE DEF t, sizes, bytes
  <2> QED
    BY <2>1, <2>3, <2>4, FreeKeeps DEF HeapInv
<1> QED
  BY <1>1, <1>2, <1>3, <1>4

LEMMA HeapInvInductive == HeapInv /\ [Next]_vars => HeapInv'
<1> SUFFICES ASSUME HeapInv, [Next]_vars PROVE HeapInv'
  OBVIOUS
<1>0. /\ Requests \cup {0} \subseteq Sizes
      /\ \A size \in Requests : (2 * size) % WordSize \in Sizes
      /\ "unknown" \in Contents /\ "zero" \in Contents
  BY DEF Sizes, Contents
<1>1. CASE \E size \in Requests \cup {0} : malloc(size)
  BY <1>0, <1>1, AllocatedKeeps DEF malloc
<1>2. CASE \E size \in Requests : calloc(2, size)
  BY <1>0, <1>2, AllocatedKeeps DEF calloc
<1>3. CASE \E p \in DOMAIN asked : free(p) \/ Store(p)
  BY <1>3, FreeStep, StoreStep
<1>4. CASE \E p \in DOMAIN asked, size \in Requests \cup {0} : realloc(p, size)
  BY <1>0, <1>4, ReallocStep
<1>5. CASE UNCHANGED vars
  BY <1>5 DEF HeapInv, vars
<1> QED
  BY <1>1, <1>2, <1>3, <1>4, <1>5 DEF Next

LEMMA HeapInvInit == Init => HeapInv
<1> SUFFICES ASSUME Init PROVE HeapInv
  OBVIOUS
<1>1. /\ DOMAIN block = {HeapStart}
      /\ block[HeapStart] = [size |-> HEAP_SIZE - 12, free |-> TRUE, next |-> NULL]
      /\ block = [x \in DOMAIN block |-> block[x]]
  BY Numbers DEF Init
<1>2. HEAP_SIZE - 12 \in Nat /\ HEAP_SIZE \in Nat /\ EndOf(block, HeapStart) = HeapEnd
  BY <1>1, StdlibAssumption, Numbers DEF EndOf, HeapEnd
<1>3. Typed(block)
  <2>1. block[HeapStart] \in [size : Nat, free : BOOLEAN, next : Nat]
    BY <1>1, <1>2, Numbers
  <2> QED
    BY <1>1, <2>1 DEF Typed
<1>4. Linked(block) /\ Reached(block) /\ Apart(block)
  BY <1>1, <1>2, Numbers DEF Linked, Reached, Apart
<1>5. Tiled(block)
  BY <1>1, <1>3, <1>4, Numbers DEF Tiled
<1>6. Used(block) = {}
  BY <1>1 DEF Used
<1>7. DOMAIN asked = {} /\ asked = [p \in {} |-> 0] /\ content = [p \in {} |-> "unknown"]
  BY DEF Init
<1> QED
  BY <1>5, <1>6, <1>7 DEF HeapInv, HoldersAgree

LEMMA HeapInvAlways == Spec => []HeapInv
  BY HeapInvInit, HeapInvInductive, PTL DEF Spec

-----------------------------------------------------------------------------
(* Splits and one-sided merges, in any order and for any sizes, lose no    *)
(* byte of the array and give none twice: the blocks tile it, and those in *)
(* use are the ones held.                                                  *)
THEOREM BlocksAlwaysTile == Spec => []BlocksTile
<1>1. HeapInv => BlocksTile
  <2> SUFFICES ASSUME HeapInv PROVE BlocksTile
    OBVIOUS
  <2>1. Linked(block) /\ Reached(block) /\ HeapStart \in DOMAIN block
    BY DEF HeapInv, HoldersAgree, Tiled
  <2>2. \A a \in Blocks : IF block[a].next = NULL THEN EndOf(block, a) = HeapEnd
                        ELSE block[a].next = EndOf(block, a) /\ block[a].next \in Blocks
    <3>1. \A a \in DOMAIN block : a # NULL
      BY BlockFacts, Numbers DEF HeapInv, HoldersAgree
    <3> QED
      BY <2>1, <3>1 DEF Linked, Blocks
  <2>3. \A p \in DOMAIN asked : asked[p] <= block[p - Header].size
    BY HeaderOf DEF HeapInv
  <2> QED
    BY <2>1, <2>2, <2>3 DEF BlocksTile, Reached, Blocks, HeapInv, HoldersAgree, Used
<1> QED
  BY <1>1, HeapInvAlways, PTL

(* A block freed joins the free block before it, in whatever order blocks  *)
(* are freed, and so does the one realloc moves away from.                 *)
THEOREM FreedAlwaysJoins == Spec => FreedJoinsBefore
<1> DEFINE Joins == \A a \in Blocks \cap DOMAIN block' :
                      ~ block[a].free /\ block'[a].free => ~ FreeBefore(block', a)
<1>1. HeapInv /\ [Next]_vars => [Joins]_vars
  <2> SUFFICES ASSUME HeapInv, Next PROVE Joins
    BY DEF vars
  <2> SUFFICES ASSUME NEW a \in Blocks \cap DOMAIN block', ~ block[a].free, block'[a].free
               PROVE  ~ FreeBefore(block', a)
    OBVIOUS
  <2>0. a \in Used(block)
    BY DEF Used, Blocks
  <2>1. ASSUME NEW b, NEW sizes, NEW bytes, HoldersAgree(b, sizes, bytes), NEW p \in DOMAIN sizes,
               a \in Used(b), block' = Freed(b, p - Header)
        PROVE  ~ FreeBefore(block', a)
    <3>1. Tiled(b) /\ p - Header \in Used(b)
      BY <2>1, HeaderOf DEF HoldersAgree
    <3>2. CASE a = p - Header
      BY <2>1, <3>1, <3>2, FreedTiled
    <3>3. CASE a # p - Header
      <4>1. block'[a] = b[a]
        BY <2>1, <3>1, <3>3, FreedTiled
      <4> QED
        BY <2>1, <4>1 DEF Used
    <3> QED
      BY <3>2, <3>3
  <2>2. ASSUME NEW size \in Sizes, Fitting(Rounded(size)) # {}
        PROVE  LET t == Taken(FirstFit(Rounded(size)), Rounded(size)) IN
               a \in Used(t) /\ ~ t[a].free
    <3>1. Tiled(block) /\ size \in Nat
      BY SizesNat DEF HeapInv, HoldersAgree
    <3>2. Rounded(size) \in Nat
      BY <3>1, RoundedHolds
    <3> QED
      BY <2>0, <2>2, <3>1, <3>2, FirstFits, TakenTiled DEF Used
  <2>3. ASSUME NEW size \in Sizes, NEW bytes, Allocated(size, bytes) PROVE FALSE
    <3>1. Fitting(Rounded(size)) # {}
      BY <2>3 DEF Allocated, vars
    <3> QED
      BY <2>2, <2>3, <3>1 DEF Allocated
  <2>4. ASSUME NEW p \in DOMAIN asked, free(p) PROVE ~ FreeBefore(block', a)
    BY <2>0, <2>1, <2>4 DEF free, HeapInv
  <2>5. ASSUME NEW p \in DOMAIN asked, Store(p) PROVE FALSE
    BY <2>5 DEF Store
  <2>6. ASSUME NEW p \in DOMAIN asked, NEW size \in Sizes, realloc(p, size)
        PROVE  ~ FreeBefore(block', a)
    <3>1. CASE size = 0
      BY <2>4, <2>6, <3>1 DEF realloc
    <3>2. CASE size # 0 /\ block' = block
      BY <3>2
    <3>3. CASE size # 0 /\ block' # block
      <4> DEFINE n == FirstFit(Rounded(size))
                 t == Taken(n, Rounded(size))
                 sizes == With(asked, n + Header, size)
                 bytes == With(content, n + Header, content[p])
      <4>1. Fitting(Rounded(size)) # {} /\ block' = Freed(t, p - Header)
        BY <2>6, <3>3 DEF realloc, vars
      <4>2. content[p] \in Contents
        BY HeaderOf DEF HeapInv
      <4>3. HoldersAgree(t, sizes, bytes) /\ p \in DOMAIN sizes
        BY <4>1, <4>2, TakeKeeps DEF With
      <4>4. a \in Used(t)
        BY <2>2, <4>1
      <4> HIDE DEF t, sizes, bytes
      <4> QED
        BY <2>1, <4>1, <4>3, <4>4
    <3> QED
      BY <3>1, <3>2, <3>3
  <2>7. /\ Requests \cup {0} \subseteq Sizes
        /\ \A size \in Requests : (2 * size) % WordSize \in Sizes
    BY DEF Sizes
  <2> QED
    BY <2>3, <2>4, <2>5, <2>6, <2>7 DEF Next, malloc, calloc
<1> QED
  BY <1>1, HeapInvAlways, PTL DEF Spec, FreedJoinsBefore

-----------------------------------------------------------------------------
Held == [p \in DOMAIN asked |-> [size |-> asked[p], content |-> content[p]]]

(* A block just found free is vacant memory to the holders.                *)
LEMMA FoundVacant ==
  ASSUME HeapInv, NEW size \in Sizes, NEW a \in Blocks, a \notin Used(block), size <= block[a].size
  PROVE  Abs!Vacant(a + Header, size, {})
<1>1. Tiled(block) /\ size \in Nat
  BY SizesNat DEF HeapInv, HoldersAgree
<1>2. Abs!Extent(a + Header, size) \subseteq HeapStart .. HeapEnd - 1
  BY <1>1, ExtentInArena DEF Blocks
<1>3. ASSUME NEW q \in DOMAIN asked
      PROVE  Abs!Extent(a + Header, size) \cap Abs!Extent(q, asked[q]) = {}
  <2>1. /\ q - Header \in Used(block) /\ q - Header \in Blocks /\ q = (q - Header) + Header
        /\ asked[q] \in Nat /\ asked[q] <= block[q - Header].size
    BY HeaderOf DEF HeapInv, Blocks
  <2>2. \A c \in Blocks : a # c /\ asked[q] <= block[c].size =>
            Abs!Extent(a + Header, size) \cap Abs!Extent(c + Header, asked[q]) = {}
    BY <1>1, <2>1, ExtentsApart DEF Blocks
  <2> QED
    BY <2>1, <2>2
<1> QED
  BY <1>2, <1>3 DEF Abs!Vacant

(* A block held is vacant memory to the other holders.                     *)
LEMMA OwnVacant ==
  ASSUME HeapInv, NEW size \in Sizes, NEW p \in DOMAIN asked, size <= block[p - Header].size
  PROVE  Abs!Vacant(p, size, {p})
<1>1. Tiled(block) /\ size \in Nat
  BY SizesNat DEF HeapInv, HoldersAgree
<1>2. \A q \in DOMAIN asked : /\ q - Header \in Blocks /\ q = (q - Header) + Header
                              /\ asked[q] \in Nat /\ asked[q] <= block[q - Header].size
  BY HeaderOf DEF HeapInv, Blocks
<1>3. Abs!Extent(p, size) \subseteq HeapStart .. HeapEnd - 1
  <2>1. Abs!Extent((p - Header) + Header, size) \subseteq HeapStart .. HeapEnd - 1
    BY <1>1, <1>2, ExtentInArena DEF Blocks
  <2> QED
    BY <1>2, <2>1
<1>4. ASSUME NEW q \in DOMAIN asked \ {p}
      PROVE  Abs!Extent(p, size) \cap Abs!Extent(q, asked[q]) = {}
  <2>1. p - Header # q - Header
    BY <1>2
  <2>2. Abs!Extent((p - Header) + Header, size) \cap Abs!Extent((q - Header) + Header, asked[q]) = {}
    BY <1>1, <1>2, <2>1, ExtentsApart DEF Blocks
  <2> QED
    BY <1>2, <2>2
<1> QED
  BY <1>3, <1>4 DEF Abs!Vacant

(* The calls, as BlockStore sees them.                                     *)
LEMMA AllocatedImplements ==
  ASSUME HeapInv, NEW size \in Sizes, NEW bytes \in {"unknown", "zero"}, Allocated(size, bytes)
  PROVE  Abs!Next \/ Held' = Held
<1>1. CASE Fitting(Rounded(size)) = {}
  BY <1>1 DEF Allocated, vars, Held
<1>2. CASE Fitting(Rounded(size)) # {}
  <2> DEFINE a == FirstFit(Rounded(size))
             p == a + Header
  <2>1. /\ asked' = With(asked, p, size) /\ content' = With(content, p, bytes)
        /\ a \in Blocks /\ a \notin Used(block) /\ p \notin DOMAIN asked /\ size <= block[a].size
    <3>1. bytes \in Contents
      BY DEF Contents
    <3> QED
      BY <1>2, <3>1, TakeKeeps DEF Allocated
  <2> HIDE DEF a
  <2>2. Abs!Vacant(p, size, {})
    BY <2>1, FoundVacant
  <2>3. DOMAIN content = DOMAIN asked
    BY DEF HeapInv, HoldersAgree
  <2> HIDE DEF p
  <2>4. Held' = Abs!With(Held, p, [size |-> size, content |-> bytes])
    BY <2>1, <2>3 DEF Held, With, Abs!With
  <2>5. Abs!Allocate(p, size, bytes)
    BY <2>2, <2>4 DEF Abs!Allocate, Held
  <2>6. p \in Abs!New
    BY <2>1 DEF Abs!New, With
  <2> QED
    BY <2>5, <2>6 DEF Abs!Next
<1> QED
  BY <1>1, <1>2

LEMMA FreeImplements ==
  ASSUME HeapInv, NEW p \in DOMAIN asked, free(p)
  PROVE  Abs!Next
<1>1. DOMAIN content = DOMAIN asked
  BY DEF HeapInv, HoldersAgree
<1>2. Held' = Abs!Without(Held, p)
  BY <1>1 DEF free, Held, Without, Abs!Without
<1>3. Abs!Release(p) /\ p \in DOMAIN Held
  BY <1>2 DEF Abs!Release, Held
<1> QED
  BY <1>3 DEF Abs!Next, Held

LEMMA StoreImplements ==
  ASSUME HeapInv, NEW p \in DOMAIN asked, Store(p)
  PROVE  Abs!Next
<1>1. DOMAIN content = DOMAIN asked
  BY DEF HeapInv, HoldersAgree
<1>2. Held' = [Held EXCEPT ![p].content = "written"]
  BY <1>1 DEF Store, Held
<1>3. Abs!Fill(p, "written") /\ p \in DOMAIN Held /\ "written" \in Contents
  BY <1>2 DEF Abs!Fill, Held, Contents
<1> QED
  BY <1>3 DEF Abs!Next, Held

LEMMA ReallocImplements ==
  ASSUME HeapInv, NEW p \in DOMAIN asked, NEW size \in Sizes, realloc(p, size)
  PROVE  Abs!Next \/ Held' = Held
<1>1. DOMAIN content = DOMAIN asked
  BY DEF HeapInv, HoldersAgree
<1>2. CASE size = 0
  BY <1>2, FreeImplements DEF realloc
<1>3. CASE size # 0 /\ block[p - Header].size >= size
  <2>1. asked' = With(asked, p, size) /\ content' = content
    BY <1>3 DEF realloc
  <2>2. Abs!Vacant(p, size, {p})
    <3>1. size <= block[p - Header].size
      BY <1>3
    <3> QED
      BY <3>1, OwnVacant
  <2>3. Held' = Abs!With(Abs!Without(Held, p), p,
                                         [size |-> size, content |-> content[p]])
    BY <1>1, <2>1 DEF Held, With, Abs!With, Abs!Without
  <2>4. Abs!Resize(p, p, size)
    BY <2>2, <2>3 DEF Abs!Resize, Held
  <2>5. p \in DOMAIN Held
    BY DEF Held
  <2> QED
    BY <2>4, <2>5 DEF Abs!Next, Held
<1>4. CASE size # 0 /\ ~ (block[p - Header].size >= size) /\ Fitting(Rounded(size)) = {}
  BY <1>4 DEF realloc, vars, Held
<1>5. CASE size # 0 /\ ~ (block[p - Header].size >= size) /\ Fitting(Rounded(size)) # {}
  <2> DEFINE a == FirstFit(Rounded(size))
             q == a + Header
  <2>1. /\ asked' = Without(With(asked, q, size), p)
        /\ content' = Without(With(content, q, content[p]), p)
    BY <1>5 DEF realloc
  <2>2. a \in Blocks /\ a \notin Used(block) /\ q \notin DOMAIN asked /\ size <= block[a].size
    <3>1. content[p] \in Contents
      BY HeaderOf DEF HeapInv
    <3> QED
      BY <1>5, <3>1, TakeKeeps
  <2> HIDE DEF a
  <2>3. Abs!Vacant(q, size, {})
    BY <2>2, FoundVacant
  <2> HIDE DEF q
  <2>4. p # q
    BY <2>2
  <2>5. Held' = Abs!With(Abs!Without(Held, p), q,
                                         [size |-> size, content |-> content[p]])
    BY <1>1, <2>1, <2>4 DEF Held, With, Without, Abs!With, Abs!Without
  <2>6. Abs!Resize(p, q, size)
    BY <2>3, <2>4, <2>5 DEF Abs!Resize, Held
  <2>7. q \in Abs!New
    BY <2>1, <2>2, <2>4 DEF Abs!New, With, Without
  <2> QED
    BY <2>6, <2>7 DEF Abs!Next
<1> QED
  BY <1>2, <1>3, <1>4, <1>5

(* Nobody is given memory somebody holds, and what a holder wrote stays    *)
(* there, also when realloc moves it, whatever the sizes and the order of  *)
(* the calls: the heap is the store of blocks its callers take it for.     *)
THEOREM HeapIsBlockStore == Spec => ImplementsBlockStore
<1>1. Init => Abs!Init
  BY DEF Init, Abs!Init
<1>2. HeapInv /\ [Next]_vars => [Abs!Next]_Held
  <2> SUFFICES ASSUME HeapInv, [Next]_vars
               PROVE  Abs!Next \/ Held' = Held
    OBVIOUS
  <2>0. /\ Requests \cup {0} \subseteq Sizes
        /\ \A size \in Requests : (2 * size) % WordSize \in Sizes
    BY DEF Sizes
  <2>1. CASE \E size \in Requests \cup {0} : malloc(size)
    BY <2>0, <2>1, AllocatedImplements DEF malloc
  <2>2. CASE \E size \in Requests : calloc(2, size)
    BY <2>0, <2>2, AllocatedImplements DEF calloc
  <2>3. CASE \E p \in DOMAIN asked : free(p) \/ Store(p)
    BY <2>3, FreeImplements, StoreImplements
  <2>4. CASE \E p \in DOMAIN asked, size \in Requests \cup {0} : realloc(p, size)
    BY <2>0, <2>4, ReallocImplements
  <2>5. CASE UNCHANGED vars
    BY <2>5 DEF vars, Held
  <2> QED
    BY <2>1, <2>2, <2>3, <2>4, <2>5 DEF Next
<1> QED
  BY <1>1, <1>2, HeapInvAlways, PTL DEF Spec, ImplementsBlockStore, Abs!Spec, Held

-----------------------------------------------------------------------------
(* The timer under system calls.                                           *)

(* The places that hold a registered callback: those counted, without the  *)
(* one a removal is closing. *)
Filled == {i \in Slots : /\ i < callback_count
                         /\ pc = "shift" => i # j
                         /\ pc = "drop"  => i # callback_count - 1}

(* The table holds each registered callback once and nothing past the      *)
(* count; the gap still holds the callback that goes, or a copy of a       *)
(* registered one; the place counted next may hold the one that comes.     *)
TableInv ==
    /\ timer_callbacks \in [Slots -> Callbacks \cup {NoCallback}]
    /\ callback_count \in 0 .. MAX_TIMER_CALLBACKS
    /\ j \in Nat /\ held \subseteq Callbacks
    /\ held = {timer_callbacks[i] : i \in Filled}
    /\ \A i, k \in Filled : timer_callbacks[i] = timer_callbacks[k] => i = k
    /\ \A i \in Slots : i >= callback_count =>
          timer_callbacks[i] = NoCallback \/ (pc = "register" /\ i = callback_count)
    /\ pc = "register" => /\ callback_count < MAX_TIMER_CALLBACKS
                          /\ moving \in Callbacks \ held
                          /\ timer_callbacks[callback_count] = moving
    /\ pc = "shift" => /\ j < callback_count
                       /\ timer_callbacks[j] \in held \cup {moving}
    /\ pc = "drop"  => /\ callback_count > 0
                       /\ timer_callbacks[callback_count - 1] = NoCallback

(* The seconds counted while the tick counter goes once around. *)
SecondsPerWrap == (TickModulus - 1) \div TicksPerSecond + 1

(* The counter is the ticks since the start, and the clock the seconds of  *)
(* each turn of the counter. *)
ClockInv ==
    /\ timer_ticks \in Ticks /\ elapsed \in 0 .. MaxElapsed
    /\ timer_ticks = elapsed % TickModulus
    /\ system_time.seconds \in 0 .. SecondsPerMinute - 1
    /\ system_time.minutes \in 0 .. MinutesPerHour - 1
    /\ system_time.hours \in 0 .. HoursPerDay - 1
    /\ system_time.days \in Nat
    /\ Uptime = (elapsed \div TickModulus) * SecondsPerWrap + timer_ticks \div TicksPerSecond

(* A thread in timer_sleep has the target computed when it came. *)
SleepInv ==
    /\ target \in Ticks /\ interrupts \in BOOLEAN
    /\ pc = "sleep" => /\ begun.at \in 0 .. elapsed /\ begun.ticks \in Delays
                       /\ target = ((begun.at % TickModulus) + begun.ticks) % TickModulus

TimerInv == TableInv /\ ClockInv /\ SleepInv

-----------------------------------------------------------------------------
(* Arithmetic. *)

LEMMA Division ==
  ASSUME NEW a \in Nat, NEW b \in Nat \ {0}
  PROVE  /\ a \div b \in Nat /\ a % b \in 0 .. b - 1
         /\ a = (a \div b) * b + (a % b)
  OBVIOUS

LEMMA ProductNat == ASSUME NEW p \in Nat, NEW q \in Nat PROVE p * q \in Nat
  OBVIOUS

LEMMA Floor ==
  ASSUME NEW a \in Nat, NEW b \in Nat \ {0}
  PROVE  a \div b \in Nat /\ a >= (a \div b) * b /\ a < (a \div b) * b + b
<1>1. /\ a \div b \in Nat /\ a % b \in 0 .. b - 1
      /\ a = (a \div b) * b + (a % b) /\ (a \div b) * b \in Nat
  BY Division, ProductNat
<1> QED
  BY <1>1

LEMMA Quotient ==
  ASSUME NEW n \in Nat \ {0}, NEW q \in Int, NEW r \in 0 .. n - 1
  PROVE  (q * n + r) \div n = q /\ (q * n + r) % n = r
  OBVIOUS

LEMMA NextDivision ==
  ASSUME NEW a \in Nat, NEW b \in Nat \ {0}
  PROVE  (a + 1) \div b = a \div b + IF (a + 1) % b = 0 THEN 1 ELSE 0
  OBVIOUS

LEMMA ProductMonotone ==
  ASSUME NEW p \in Int, NEW q \in Int, NEW m \in Nat, p <= q
  PROVE  p * m <= q * m
  OBVIOUS

LEMMA OneMore == ASSUME NEW p \in Nat, NEW q \in Nat PROVE q * (p + 1) = q * p + q
  OBVIOUS

(* A counter that wraps is the number of steps modulo its range. *)
LEMMA Wraps ==
  ASSUME NEW a \in Nat, NEW m \in Nat \ {0}
  PROVE  /\ ((a % m) + 1) % m = (a + 1) % m
         /\ (a % m) + 1 < m => (a + 1) % m = (a % m) + 1 /\ (a + 1) \div m = a \div m
         /\ (a % m) + 1 = m => (a + 1) % m = 0 /\ (a + 1) \div m = a \div m + 1
         /\ (a % m) + 1 < m \/ (a % m) + 1 = m
<1> DEFINE t == a % m
           w == a \div m
<1>1. w \in Nat /\ t \in 0 .. m - 1 /\ a = w * m + t
  BY Division
<1> HIDE DEF t, w
<1>2. CASE t + 1 < m
  <2>1. a + 1 = w * m + (t + 1) /\ t + 1 \in 0 .. m - 1
    BY <1>1, <1>2
  <2>2. (w * m + (t + 1)) \div m = w /\ (w * m + (t + 1)) % m = t + 1
    BY <2>1, <1>1, Quotient
  <2>3. (t + 1) % m = t + 1
    BY <1>1, <1>2
  <2> QED
    BY <1>1, <1>2, <2>1, <2>2, <2>3
<1>3. CASE t + 1 = m
  <2>1. a + 1 = (w + 1) * m + 0 /\ 0 \in 0 .. m - 1 /\ w + 1 \in Int
    BY <1>1, <1>3
  <2>2. ((w + 1) * m + 0) \div m = w + 1 /\ ((w + 1) * m + 0) % m = 0
    BY <2>1, Quotient
  <2>3. (t + 1) % m = 0
    BY <1>3
  <2> QED
    BY <1>1, <1>3, <2>1, <2>2, <2>3
<1>4. t + 1 < m \/ t + 1 = m
  BY <1>1
<1> QED
  BY <1>1, <1>2, <1>3, <1>4 DEF t, w

(* The clock in seconds, as Uptime has it. *)
InSeconds(t) == t.seconds + SecondsPerMinute *
                    (t.minutes + MinutesPerHour * (t.hours + HoursPerDay * t.days))

ClockType(t) == /\ t.seconds \in 0 .. SecondsPerMinute - 1
                /\ t.minutes \in 0 .. MinutesPerHour - 1
                /\ t.hours \in 0 .. HoursPerDay - 1
                /\ t.days \in Nat

(* timer_update_system_time adds one second, whatever it carries. *)
LEMMA AdvancesOne ==
  ASSUME NEW t, ClockType(t)
  PROVE  /\ ClockType(Advanced(t))
         /\ InSeconds(Advanced(t)) = InSeconds(t) + 1 /\ InSeconds(t) \in Nat
<1> DEFINE S == SecondsPerMinute
           M == MinutesPerHour
           H == HoursPerDay
           a == Advanced(t)
<1>1. /\ S \in Nat \ {0} /\ M \in Nat \ {0} /\ H \in Nat \ {0}
      /\ t.seconds \in 0 .. S - 1 /\ t.minutes \in 0 .. M - 1 /\ t.hours \in 0 .. H - 1
      /\ t.days \in Nat
  BY TimerAssumption DEF ClockType
<1>2. \A n \in Nat \ {0} : \A x \in 0 .. n - 1 :
         (x + 1) % n = (IF x + 1 = n THEN 0 ELSE x + 1) /\ (x + 1) % n \in 0 .. n - 1
  OBVIOUS
<1>3. InSeconds(t) \in Nat
  BY <1>1, ProductNat DEF InSeconds
<1>4. CASE t.seconds + 1 # S
  <2>1. (t.seconds + 1) % S = t.seconds + 1 /\ t.seconds + 1 # 0
    BY <1>1, <1>2, <1>4
  <2>2. a = [seconds |-> t.seconds + 1, minutes |-> t.minutes, hours |-> t.hours, days |-> t.days]
    BY <1>1, <2>1 DEF Advanced
  <2>3. ClockType(a)
    BY <1>1, <1>4, <2>2 DEF ClockType
  <2> DEFINE r == S * (t.minutes + M * (t.hours + H * t.days))
  <2>4. r \in Nat /\ InSeconds(t) = t.seconds + r /\ InSeconds(a) = (t.seconds + 1) + r
    BY <1>1, <2>2, ProductNat DEF InSeconds
  <2> HIDE DEF r, a
  <2> QED
    BY <1>1, <1>3, <2>3, <2>4 DEF a
<1>5. CASE t.seconds + 1 = S /\ t.minutes + 1 # M
  <2>1. (t.seconds + 1) % S = 0 /\ (t.minutes + 1) % M = t.minutes + 1 /\ t.minutes + 1 # 0
    BY <1>1, <1>2, <1>5
  <2>2. a = [seconds |-> 0, minutes |-> t.minutes + 1, hours |-> t.hours, days |-> t.days]
    BY <1>1, <2>1 DEF Advanced
  <2>3. ClockType(a)
    BY <1>1, <1>5, <2>2 DEF ClockType
  <2> DEFINE r == M * (t.hours + H * t.days)
  <2>4. r \in Nat /\ InSeconds(t) = t.seconds + S * (t.minutes + r)
        /\ InSeconds(a) = 0 + S * ((t.minutes + 1) + r)
    BY <1>1, <2>2, ProductNat DEF InSeconds
  <2> HIDE DEF r, a
  <2>5. S * ((t.minutes + 1) + r) = S * (t.minutes + r) + S
    BY <1>1, <2>4
  <2> QED
    BY <1>1, <1>3, <1>5, <2>3, <2>4, <2>5, ProductNat DEF a
<1>6. CASE t.seconds + 1 = S /\ t.minutes + 1 = M /\ t.hours + 1 # H
  <2>1. /\ (t.seconds + 1) % S = 0 /\ (t.minutes + 1) % M = 0
        /\ (t.hours + 1) % H = t.hours + 1 /\ t.hours + 1 # 0
    BY <1>1, <1>2, <1>6
  <2>2. a = [seconds |-> 0, minutes |-> 0, hours |-> t.hours + 1, days |-> t.days]
    BY <1>1, <2>1 DEF Advanced
  <2>3. ClockType(a)
    BY <1>1, <1>6, <2>2 DEF ClockType
  <2> DEFINE r == H * t.days
  <2>4. r \in Nat /\ InSeconds(t) = t.seconds + S * (t.minutes + M * (t.hours + r))
        /\ InSeconds(a) = 0 + S * (0 + M * ((t.hours + 1) + r))
    BY <1>1, <2>2, ProductNat DEF InSeconds
  <2> HIDE DEF r, a
  <2>5. M * ((t.hours + 1) + r) = M * (t.hours + r) + M
    BY <1>1, <2>4
  <2> DEFINE q == M * (t.hours + r)
  <2>6. q \in Nat
    BY <1>1, <2>4, ProductNat
  <2> HIDE DEF q
  <2>7. S * (q + M) = S * (t.minutes + q) + S
    <3>1. t.minutes + q \in Nat /\ q + M = (t.minutes + q) + 1
      BY <1>1, <1>6, <2>6
    <3> QED
      BY <1>1, <3>1, OneMore
  <2> QED
    BY <1>1, <1>3, <1>6, <2>3, <2>4, <2>5, <2>6, <2>7, ProductNat DEF a, q
<1>7. CASE t.seconds + 1 = S /\ t.minutes + 1 = M /\ t.hours + 1 = H
  <2>1. (t.seconds + 1) % S = 0 /\ (t.minutes + 1) % M = 0 /\ (t.hours + 1) % H = 0
    BY <1>1, <1>2, <1>7
  <2>2. a = [seconds |-> 0, minutes |-> 0, hours |-> 0, days |-> t.days + 1]
    BY <1>1, <2>1 DEF Advanced
  <2>3. ClockType(a)
    BY <1>1, <1>7, <2>2 DEF ClockType
  <2> DEFINE r == H * t.days
  <2>4. r \in Nat /\ InSeconds(t) = t.seconds + S * (t.minutes + M * (t.hours + r))
        /\ InSeconds(a) = 0 + S * (0 + M * (0 + H * (t.days + 1)))
    BY <1>1, <2>2, ProductNat DEF InSeconds
  <2>5. H * (t.days + 1) = (t.hours + r) + 1
    BY <1>1, <1>7
  <2> HIDE DEF r, a
  <2> DEFINE p == t.hours + r
             q == M * p
  <2>6. p \in Nat /\ q \in Nat
    BY <1>1, <2>4, ProductNat
  <2>7. M * (p + 1) = q + M
    BY <1>1, <2>6
  <2> HIDE DEF q
  <2>8. S * (q + M) = S * (t.minutes + q) + S
    <3>1. t.minutes + q \in Nat /\ q + M = (t.minutes + q) + 1
      BY <1>1, <1>7, <2>6
    <3> QED
      BY <1>1, <3>1, OneMore
  <2> QED
    BY <1>1, <1>3, <1>7, <2>3, <2>4, <2>5, <2>6, <2>7, <2>8, ProductNat DEF a, q
<1> QED
  BY <1>4, <1>5, <1>6, <1>7

(* The clock is at most the ticks in seconds, plus one for each turn of    *)
(* the counter, and at least the ticks in seconds. *)
LEMMA ClockBounds ==
  ASSUME NEW E \in Nat, NEW M \in Nat \ {0}, NEW P \in 1 .. M
  PROVE  LET U == (E \div M) * ((M - 1) \div P + 1) + (E % M) \div P
         IN  U >= E \div P /\ U <= E \div P + E \div M
<1> DEFINE w == E \div M
           t == E % M
           k == (M - 1) \div P
           x == t \div P
           e == E \div P
           U == w * (k + 1) + x
<1>1. P \in Nat \ {0} /\ M - 1 \in Nat
  OBVIOUS
<1>2. w \in Nat /\ t \in 0 .. M - 1 /\ E = w * M + t
  BY Division
<1>3. k \in Nat /\ M - 1 >= k * P /\ M - 1 < k * P + P
  BY <1>1, Floor
<1>4. x \in Nat /\ t >= x * P /\ t < x * P + P
  BY <1>1, <1>2, Floor
<1>5. e \in Nat /\ E >= e * P /\ E < e * P + P
  BY <1>1, Floor
<1> HIDE DEF w, t, k, x, e
<1>6. /\ w * k \in Nat /\ k * P \in Nat /\ x * P \in Nat /\ e * P \in Nat /\ w * P \in Nat
      /\ w * M \in Nat /\ U \in Nat /\ U = w * k + w + x
  BY <1>1, <1>2, <1>3, <1>4, <1>5, ProductNat
<1>7. (w * k) * P + w * P >= w * M /\ (w * k) * P + w <= w * M
  <2>1. M <= k * P + P /\ k * P + 1 <= M
    BY <1>1, <1>3, <1>6
  <2>2. w * M <= w * (k * P + P) /\ w * (k * P + 1) <= w * M
    <3>1. k * P + P \in Int /\ k * P + 1 \in Int /\ M \in Int
      BY <1>1, <1>6
    <3> QED
      BY <2>1, <3>1, <1>2, ProductMonotone
  <2>3. w * (k * P + P) = (w * k) * P + w * P /\ w * (k * P + 1) = (w * k) * P + w
    BY <1>1, <1>2, <1>3
  <2> QED
    BY <2>2, <2>3
<1>8. (w * k) * P \in Nat
  BY <1>1, <1>6, ProductNat
<1>9. U >= e
  <2> SUFFICES ASSUME U + 1 <= e PROVE FALSE
    BY <1>5, <1>6
  <2>1. (w * k + w + x + 1) * P <= e * P
    BY <1>1, <1>5, <1>6, <1>2, <1>4, ProductMonotone
  <2>2. (w * k + w + x + 1) * P = (w * k) * P + w * P + x * P + P
    BY <1>1, <1>2, <1>4, <1>6
  <2> QED
    BY <1>1, <1>2, <1>4, <1>5, <1>6, <1>7, <1>8, <2>1, <2>2
<1>10. U <= e + w
  <2> SUFFICES ASSUME e + w + 1 <= U PROVE FALSE
    BY <1>2, <1>5, <1>6
  <2>1. (e + 1) * P <= (w * k + x) * P
    BY <1>1, <1>2, <1>4, <1>5, <1>6, ProductMonotone
  <2>2. (e + 1) * P = e * P + P /\ (w * k + x) * P = (w * k) * P + x * P
    BY <1>1, <1>4, <1>5, <1>6
  <2> QED
    BY <1>1, <1>2, <1>4, <1>5, <1>6, <1>7, <1>8, <2>1, <2>2
<1> QED
  BY <1>9, <1>10 DEF w, t, k, x, e

-----------------------------------------------------------------------------
(* The clock. *)

LEMMA Constants ==
  /\ TickModulus \in Nat \ {0} /\ TicksPerSecond \in Nat \ {0}
  /\ TicksPerSecond \in 1 .. TickModulus /\ SecondsPerWrap \in Nat
  /\ MAX_TIMER_CALLBACKS \in Nat /\ MaxElapsed \in Nat /\ Delays \subseteq Nat
<1>1. TickModulus \in Nat \ {0} /\ TicksPerSecond \in Nat \ {0} /\ TickModulus - 1 \in Nat
  BY TimerAssumption
<1>2. \A d \in Delays : d \in Nat
  BY TimerAssumption
<1> QED
  BY <1>1, <1>2, TimerAssumption, Floor DEF SecondsPerWrap

LEMMA ClockInit == TimerInit => ClockInv
<1> SUFFICES ASSUME TimerInit PROVE ClockInv
  OBVIOUS
<1>1. timer_ticks = 0 /\ elapsed = 0
      /\ system_time = [seconds |-> 0, minutes |-> 0, hours |-> 0, days |-> 0]
  BY DEF TimerInit
<1>2. \A n \in Nat \ {0} : 0 % n = 0 /\ 0 \div n = 0
  OBVIOUS
<1>3. Uptime = 0
  BY <1>1, TimerAssumption DEF Uptime
<1> QED
  BY <1>1, <1>2, <1>3, Constants, TimerAssumption DEF ClockInv, Ticks

LEMMA TickKeepsClock == ClockInv /\ timer_handler => ClockInv'
<1> SUFFICES ASSUME ClockInv, timer_handler PROVE ClockInv'
  OBVIOUS
<1> DEFINE w == elapsed \div TickModulus
           x == timer_ticks \div TicksPerSecond
<1>1. /\ timer_ticks' = (timer_ticks + 1) % TickModulus
      /\ elapsed' = elapsed + 1 /\ elapsed \in Nat /\ elapsed' \in 0 .. MaxElapsed
      /\ timer_ticks = elapsed % TickModulus /\ timer_ticks \in Nat
  BY Constants DEF timer_handler, ClockInv, Ticks
<1>0. /\ (timer_ticks + 1) % TickModulus = elapsed' % TickModulus
      /\ timer_ticks + 1 < TickModulus =>
            elapsed' % TickModulus = timer_ticks + 1 /\ elapsed' \div TickModulus = w
      /\ timer_ticks + 1 = TickModulus =>
            elapsed' % TickModulus = 0 /\ elapsed' \div TickModulus = w + 1
      /\ timer_ticks + 1 < TickModulus \/ timer_ticks + 1 = TickModulus
  BY <1>1, Constants, Wraps, Zenon
<1>2. timer_ticks' = elapsed' % TickModulus /\ timer_ticks' \in Ticks
  <2>1. elapsed' % TickModulus \in Ticks
    BY <1>1, Constants, Division DEF Ticks
  <2> QED
    BY <1>0, <1>1, <2>1
<1>3. /\ ClockType(system_time) /\ Uptime = InSeconds(system_time)
      /\ Uptime' = InSeconds(system_time')
  BY DEF ClockInv, ClockType, Uptime, InSeconds
<1>4. /\ ClockType(system_time')
      /\ Uptime' = Uptime + IF timer_ticks' % TicksPerSecond = 0 THEN 1 ELSE 0
  <2>1. CASE timer_ticks' % TicksPerSecond = 0
    BY <2>1, <1>3, AdvancesOne DEF timer_handler
  <2>2. CASE timer_ticks' % TicksPerSecond # 0
    BY <2>2, <1>3, AdvancesOne DEF timer_handler
  <2> QED
    BY <2>1, <2>2
<1>5. w \in Nat /\ x \in Nat /\ Uptime = w * SecondsPerWrap + x
  BY <1>1, Constants, Floor DEF ClockInv
<1>6. Uptime' = (elapsed' \div TickModulus) * SecondsPerWrap + timer_ticks' \div TicksPerSecond
  <2>1. CASE timer_ticks + 1 < TickModulus
    <3>1. timer_ticks' = timer_ticks + 1 /\ elapsed' \div TickModulus = w
      BY <2>1, <1>0, <1>2
    <3>2. timer_ticks' \div TicksPerSecond
            = x + IF timer_ticks' % TicksPerSecond = 0 THEN 1 ELSE 0
      BY <3>1, <1>1, Constants, NextDivision
    <3> DEFINE one == IF timer_ticks' % TicksPerSecond = 0 THEN 1 ELSE 0
               b == w * SecondsPerWrap
    <3>3. one \in Nat /\ b \in Nat
      BY <1>5, Constants, ProductNat
    <3>4. Uptime' = Uptime + one /\ timer_ticks' \div TicksPerSecond = x + one
      BY <1>4, <3>2
    <3> HIDE DEF one, x
    <3>5. Uptime' = b + (x + one)
      BY <1>5, <3>3, <3>4
    <3> QED
      BY <3>1, <3>4, <3>5
  <2>2. CASE timer_ticks + 1 = TickModulus
    <3>1. timer_ticks' = 0 /\ elapsed' \div TickModulus = w + 1
      BY <2>2, <1>0, <1>2
    <3>2. 0 % TicksPerSecond = 0 /\ 0 \div TicksPerSecond = 0
      BY Constants
    <3>3. x + 1 = SecondsPerWrap
      BY <2>2, <1>1, Constants DEF SecondsPerWrap
    <3> HIDE DEF w, x
    <3>4. (w + 1) * SecondsPerWrap = w * SecondsPerWrap + SecondsPerWrap
      BY <1>5, Constants
    <3> QED
      BY <3>1, <3>2, <3>3, <3>4, <1>4, <1>5, Constants, ProductNat
  <2> QED
    BY <2>1, <2>2, <1>0
<1> QED
  BY <1>1, <1>2, <1>4, <1>6 DEF ClockInv, ClockType

-----------------------------------------------------------------------------
(* The sleeping thread. *)

LEMMA SleepInit == TimerInit => SleepInv
  BY Constants DEF TimerInit, SleepInv, Ticks

(* Targets are computed modulo the counter's range. *)
LEMMA TargetTyped ==
  ASSUME NEW n \in Nat PROVE n % TickModulus \in Ticks
  BY Constants, Division DEF Ticks

LEMMA StartKeepsSleep ==
  ASSUME ClockInv, SleepInv, NEW d \in Delays, StartSleep(d)
  PROVE  SleepInv'
<1>1. d \in Nat /\ timer_ticks \in Nat /\ elapsed \in Nat
  BY Constants, TimerAssumption DEF ClockInv, Ticks
<1> QED
  BY <1>1, TargetTyped DEF StartSleep, Goto, ClockInv, SleepInv, clockVars

(* What the guard of timer_sleep's loop says of the time that has passed.  *)
LEMMA SleepDone == ClockInv /\ SleepInv => SleepLongEnough
<1> SUFFICES ASSUME ClockInv, SleepInv, pc = "sleep", Awake PROVE SleepLongEnough
  BY DEF SleepLongEnough
<1> DEFINE m == TickModulus
           a == begun.at
           d == begun.ticks
           p == a \div m
           r == a % m
           q == elapsed \div m
           t == elapsed % m
<1>1. /\ m \in Nat \ {0} /\ a \in Nat /\ elapsed \in Nat /\ a <= elapsed /\ d \in Nat
      /\ timer_ticks = t /\ t >= target
  <2>1. elapsed \in Nat /\ begun.at \in 0 .. elapsed /\ begun.ticks \in Delays
    BY Constants DEF ClockInv, SleepInv
  <2>2. begun.ticks \in Nat
    BY <2>1, Constants, Zenon
  <2>3. timer_ticks = elapsed % TickModulus /\ timer_ticks >= target
    BY DEF ClockInv, Awake
  <2> QED
    BY <2>1, <2>2, <2>3, Constants
<1>2. /\ p \in Nat /\ r \in 0 .. m - 1 /\ a = p * m + r
      /\ q \in Nat /\ t \in 0 .. m - 1 /\ elapsed = q * m + t
  BY <1>1, Division
<1>3. CASE r + d >= m
  BY <1>3 DEF SleepLongEnough
<1>4. CASE r + d < m
  <2>1. target = r + d
    <3>1. r + d \in 0 .. m - 1 /\ target = (r + d) % m
      BY <1>1, <1>2, <1>4 DEF SleepInv
    <3> QED
      BY <3>1, <1>1
  <2> HIDE DEF m, a, d, p, r, q, t
  <2>2. p <= q
    <3> SUFFICES ASSUME q + 1 <= p PROVE FALSE
      BY <1>2
    <3>1. (q + 1) * m <= p * m /\ (q + 1) * m = q * m + m
      BY <1>1, <1>2, ProductMonotone
    <3> QED
      BY <3>1, <1>1, <1>2, ProductNat
  <2>3. p * m <= q * m
    BY <1>1, <1>2, <2>2, ProductMonotone
  <2>4. elapsed - a >= d
    BY <1>1, <1>2, <2>1, <2>3, ProductNat
  <2> QED
    BY <2>4 DEF a, d, SleepLongEnough
<1> QED
  BY <1>1, <1>2, <1>3, <1>4

-----------------------------------------------------------------------------
(* The table. *)

LEMMA TableInit == TimerInit => TableInv
<1> SUFFICES ASSUME TimerInit PROVE TableInv
  OBVIOUS
<1>1. Filled = {}
  BY Constants DEF TimerInit, Filled, Slots
<1> QED
  BY <1>1, Constants DEF TimerInit, TableInv, Slots

AtTable == {"register", "shift", "drop"}

(* Steps that leave the table alone. *)
LEMMA TableKept ==
  ASSUME TableInv, UNCHANGED callbackVars,
         pc' = pc \/ (pc \notin AtTable /\ pc' \notin AtTable)
  PROVE  TableInv'
<1>1. Filled' = Filled
  BY DEF Filled, callbackVars, AtTable
<1> QED
  BY <1>1 DEF TableInv, callbackVars, AtTable

(* A registration: the callback is in the table before it is counted.      *)
LEMMA StoreKeeps ==
  ASSUME TableInv, NEW cb \in Callbacks, StoreCallback(cb)
  PROVE  TableInv'
<1> DEFINE n == callback_count
           T == timer_callbacks
<1>1. /\ pc = "run" /\ pc' = "register" /\ cb \notin held /\ n < MAX_TIMER_CALLBACKS
      /\ T' = [T EXCEPT ![n] = cb] /\ moving' = cb
      /\ n' = n /\ j' = j /\ held' = held /\ n \in Slots
  BY Constants DEF StoreCallback, Goto, TableInv, Slots
<1>2. Filled' = Filled /\ n \notin Filled
  BY <1>1, Constants DEF Filled, Slots, TableInv
<1>3. \A i \in Slots : i # n => T'[i] = T[i]
  BY <1>1 DEF TableInv
<1>4. T'[n] = cb /\ T' \in [Slots -> Callbacks \cup {NoCallback}]
  BY <1>1 DEF TableInv
<1>5. \A i \in Filled : i \in Slots /\ T'[i] = T[i]
  BY <1>2, <1>3 DEF Filled
<1>6. held' = {T'[i] : i \in Filled'}
  BY <1>1, <1>2, <1>5 DEF TableInv
<1>7. \A i, k \in Filled' : T'[i] = T'[k] => i = k
  BY <1>2, <1>5 DEF TableInv
<1>8. \A i \in Slots : i >= n' => T'[i] = NoCallback \/ (pc' = "register" /\ i = n')
  BY <1>1, <1>3 DEF TableInv
<1> QED
  BY <1>1, <1>4, <1>6, <1>7, <1>8 DEF TableInv

LEMMA CountKeeps ==
  ASSUME TableInv, CountCallback
  PROVE  TableInv'
<1> DEFINE n == callback_count
           T == timer_callbacks
<1>1. /\ pc = "register" /\ pc' = "run" /\ n < MAX_TIMER_CALLBACKS /\ n \in Nat
      /\ n' = n + 1 /\ held' = held \cup {moving} /\ T' = T /\ j' = j /\ n \in Slots
      /\ moving \in Callbacks \ held /\ T[n] = moving
  BY Constants DEF CountCallback, Goto, TableInv, Slots
<1>2. Filled' = Filled \cup {n} /\ n \notin Filled
  BY <1>1, Constants DEF Filled, Slots
<1>3. held' = {T'[i] : i \in Filled'}
  BY <1>1, <1>2 DEF TableInv
<1>4. \A i, k \in Filled' : T'[i] = T'[k] => i = k
  BY <1>1, <1>2 DEF TableInv
<1>5. \A i \in Slots : i >= n' => T'[i] = NoCallback
  BY <1>1, Constants DEF TableInv, Slots
<1> QED
  BY <1>1, <1>3, <1>4, <1>5, Constants DEF TableInv

(* A removal: the place that is found holds the callback that goes.        *)
LEMMA FindKeeps ==
  ASSUME TableInv, NEW cb \in Callbacks, FindCallback(cb)
  PROVE  TableInv'
<1> DEFINE n == callback_count
           T == timer_callbacks
<1>1. /\ pc = "run" /\ pc' = "shift" /\ cb \in held /\ held' = held \ {cb} /\ moving' = cb
      /\ T' = T /\ n' = n /\ j' \in Slots /\ T[j'] = cb /\ n \in Nat
  BY Constants DEF FindCallback, Goto, TableInv
<1>2. cb # NoCallback /\ j' < n
  BY <1>1, TimerAssumption DEF TableInv, Slots
<1>3. Filled' = Filled \ {j'} /\ j' \in Filled
  BY <1>1, <1>2 DEF Filled, Slots
<1>4. held' = {T'[i] : i \in Filled'}
  BY <1>1, <1>3 DEF TableInv
<1>5. \A i, k \in Filled' : T'[i] = T'[k] => i = k
  BY <1>1, <1>3 DEF TableInv
<1>6. j' \in Nat
  BY <1>1, Constants DEF Slots
<1> QED
  BY <1>1, <1>2, <1>4, <1>5, <1>6 DEF TableInv

(* The gap moves up: what was above it is below it before it is forgotten. *)
LEMMA ShiftKeeps ==
  ASSUME TableInv, ShiftDown
  PROVE  TableInv'
<1> DEFINE n == callback_count
           T == timer_callbacks
<1>1. /\ pc = "shift" /\ pc' = "shift" /\ j < n - 1 /\ n \in Nat /\ j \in Nat
      /\ T' = [T EXCEPT ![j] = T[j + 1]] /\ j' = j + 1
      /\ n' = n /\ held' = held /\ moving' = moving
      /\ j \in Slots /\ j + 1 \in Slots
  BY Constants DEF ShiftDown, Goto, TableInv, Slots
<1>2. /\ T' \in [Slots -> Callbacks \cup {NoCallback}]
      /\ T'[j] = T[j + 1] /\ \A i \in Slots : i # j => T'[i] = T[i]
  BY <1>1 DEF TableInv
<1>3. j + 1 \in Filled /\ Filled' = (Filled \ {j + 1}) \cup {j} /\ j \notin Filled
      /\ Filled \subseteq Slots
  BY <1>1 DEF Filled, Slots
<1>4. \A i \in Filled \ {j + 1} : T'[i] = T[i]
  BY <1>2, <1>3
<1>5. held' = {T'[i] : i \in Filled'}
  BY <1>1, <1>2, <1>3, <1>4 DEF TableInv
<1>6. \A i, k \in Filled' : T'[i] = T'[k] => i = k
  BY <1>1, <1>2, <1>3, <1>4 DEF TableInv
<1>7. T'[j'] \in held'
  BY <1>1, <1>2, <1>3 DEF TableInv
<1>8. \A i \in Slots : i >= n' => T'[i] = NoCallback
  BY <1>1, <1>2 DEF TableInv, Slots
<1>9. n' \in 0 .. MAX_TIMER_CALLBACKS /\ j' \in Nat /\ j' < n' /\ held' \subseteq Callbacks
  <2>1. n \in 0 .. MAX_TIMER_CALLBACKS /\ held \subseteq Callbacks
    BY DEF TableInv
  <2> QED
    BY <1>1, <2>1
<1> HIDE DEF n, T
<1>10. pc' = "shift" /\ T'[j'] \in held' \cup {moving'}
  BY <1>1, <1>7
<1> QED
  BY <1>2, <1>5, <1>6, <1>8, <1>9, <1>10 DEF TableInv, n, T

(* The gap is last when it is cleared. *)
LEMMA ClearKeeps ==
  ASSUME TableInv, ClearLast
  PROVE  TableInv'
<1> DEFINE n == callback_count
           T == timer_callbacks
<1>1. /\ pc = "shift" /\ pc' = "drop" /\ n \in Nat /\ j \in Nat /\ j = n - 1
      /\ T' = [T EXCEPT ![n - 1] = NoCallback] /\ j' = j
      /\ n' = n /\ held' = held /\ moving' = moving /\ j \in Slots
  BY Constants DEF ClearLast, Goto, TableInv, Slots
<1>2. /\ T' \in [Slots -> Callbacks \cup {NoCallback}]
      /\ T'[n - 1] = NoCallback /\ \A i \in Slots : i # n - 1 => T'[i] = T[i]
  BY <1>1 DEF TableInv
<1>3. Filled' = Filled /\ n - 1 \notin Filled /\ Filled \subseteq Slots
  BY <1>1 DEF Filled, Slots
<1>4. \A i \in Filled : T'[i] = T[i]
  BY <1>2, <1>3
<1>5. held' = {T'[i] : i \in Filled'}
  BY <1>1, <1>3, <1>4 DEF TableInv
<1>6. \A i, k \in Filled' : T'[i] = T'[k] => i = k
  BY <1>3, <1>4 DEF TableInv
<1>7. \A i \in Slots : i >= n' => T'[i] = NoCallback
  BY <1>1, <1>2 DEF TableInv, Slots
<1>8. n' > 0 /\ T'[n' - 1] = NoCallback /\ n' \in 0 .. MAX_TIMER_CALLBACKS
  BY <1>1, <1>2 DEF TableInv
<1> QED
  BY <1>1, <1>2, <1>5, <1>6, <1>7, <1>8 DEF TableInv

LEMMA UncountKeeps ==
  ASSUME TableInv, UncountCallback
  PROVE  TableInv'
<1> DEFINE n == callback_count
           T == timer_callbacks
<1>1. /\ pc = "drop" /\ pc' = "run" /\ n \in Nat /\ n > 0 /\ T[n - 1] = NoCallback
      /\ T' = T /\ j' = 0 /\ n' = n - 1 /\ held' = held
  BY Constants DEF UncountCallback, Goto, TableInv
<1>2. Filled' = Filled
  BY <1>1 DEF Filled, Slots
<1>3. \A i \in Slots : i >= n' => T'[i] = NoCallback
  BY <1>1 DEF TableInv, Slots
<1>4. n' \in 0 .. MAX_TIMER_CALLBACKS
  BY <1>1, Constants DEF TableInv
<1> QED
  BY <1>1, <1>2, <1>3, <1>4 DEF TableInv

(* What a tick's loop calls, wherever the thread is.                       *)
LEMMA TableReached == TableInv => CallbacksReached
<1> SUFFICES ASSUME TableInv PROVE CallbacksReached
  OBVIOUS
<1>1. held \subseteq Called
  BY TimerAssumption DEF TableInv, Filled, Called
<1>2. ASSUME NEW i \in Slots, i < callback_count, timer_callbacks[i] # NoCallback
      PROVE  timer_callbacks[i] \in held \cup {moving}
  BY <1>2 DEF TableInv, Filled
<1> QED
  BY <1>1, <1>2 DEF CallbacksReached, Called

-----------------------------------------------------------------------------
(* Every step of the thread, its system calls and the timer.               *)

LEMMA InvInit == SyscallInit => TimerInv
  BY TableInit, ClockInit, SleepInit DEF SyscallInit, TimerInv

(* Steps of the thread at its table leave clock and sleep alone. *)
LEMMA ClockKept == ClockInv /\ UNCHANGED clockVars => ClockInv'
  BY DEF ClockInv, Uptime, clockVars

LEMMA SleepKept ==
  SleepInv /\ UNCHANGED <<sleepVars, interrupts>> /\ elapsed' = elapsed
           /\ (pc' = pc \/ pc' # "sleep") => SleepInv'
  BY DEF SleepInv, sleepVars

LEMMA InvNext == TimerInv /\ [SyscallNext]_syscallVars => TimerInv'
<1> SUFFICES ASSUME TimerInv, [SyscallNext]_syscallVars PROVE TimerInv'
  OBVIOUS
<1>0. TableInv /\ ClockInv /\ SleepInv /\ elapsed \in Nat /\ timer_ticks \in Nat
  BY Constants DEF TimerInv, ClockInv, Ticks
<1>1. CASE timer_handler
  <2>1. TableInv'
    BY <1>0, <1>1, TableKept DEF timer_handler, AtTable
  <2>2. SleepInv'
    BY <1>0, <1>1 DEF timer_handler, sleepVars, SleepInv
  <2> QED
    BY <1>0, <1>1, <2>1, <2>2, TickKeepsClock DEF TimerInv
<1>2. CASE timer_register_callback \/ timer_unregister_callback
  <2>1. TableInv'
    BY <1>0, <1>2, StoreKeeps, CountKeeps, FindKeeps, ShiftKeeps, ClearKeeps, UncountKeeps
       DEF timer_register_callback, timer_unregister_callback
  <2>2. UNCHANGED <<clockVars, sleepVars, interrupts>> /\ pc' # "sleep"
    BY <1>2 DEF timer_register_callback, timer_unregister_callback, StoreCallback, CountCallback,
         FindCallback, ShiftDown, ClearLast, UncountCallback, Goto
  <2> QED
    BY <1>0, <2>1, <2>2, ClockKept, SleepKept DEF TimerInv, clockVars
<1>3. CASE timer_sleep
  <2>1. TableInv' /\ UNCHANGED clockVars
    BY <1>0, <1>3, TableKept DEF timer_sleep, StartSleep, EndSleep, Goto, AtTable
  <2>2. SleepInv'
    <3>1. CASE EndSleep
      BY <1>0, <3>1, Constants DEF EndSleep, Goto, SleepInv, Ticks
    <3> QED
      BY <1>0, <1>3, <3>1, StartKeepsSleep DEF timer_sleep
  <2> QED
    BY <1>0, <2>1, <2>2, ClockKept DEF TimerInv
<1>4. CASE UNCHANGED timerVars
  BY <1>0, <1>4, TableKept, ClockKept, SleepKept DEF TimerInv, timerVars, clockVars
<1>5. CASE kernel_sleep
  <2>1. TableInv' /\ UNCHANGED clockVars
    BY <1>0, <1>5, TableKept
       DEF kernel_sleep, SleepNoTime, SleepBegins, SleepHalts, SleepReturns, Goto, AtTable, timerVars
  <2>2. SleepInv'
    <3>1. CASE SleepNoTime
      BY <1>0, <3>1 DEF SleepNoTime, timerVars, sleepVars, clockVars, SleepInv
    <3>2. CASE \E s \in Seconds : SleepBegins(s)
      <4>1. PICK s \in Seconds : SleepBegins(s)
        BY <3>2
      <4>2. s * TicksPerSecond \in Nat
        BY SyscallAssumption, Constants, ProductNat
      <4>3. target' \in Ticks
        BY <1>0, <4>1, <4>2, TargetTyped DEF SleepBegins
      <4> QED
        BY <4>1, <4>3 DEF SleepBegins, Goto, SleepInv
    <3>3. CASE SleepHalts
      BY <1>0, <3>3 DEF SleepHalts, Goto, sleepVars, SleepInv
    <3>4. CASE SleepReturns
      BY <1>0, <3>4, Constants DEF SleepReturns, Goto, SleepInv, Ticks
    <3> QED
      BY <1>5, <3>1, <3>2, <3>3, <3>4 DEF kernel_sleep
  <2> QED
    BY <1>0, <2>1, <2>2, ClockKept DEF TimerInv
<1> QED
  BY <1>1, <1>2, <1>3, <1>4, <1>5
     DEF SyscallNext, TimerNext, syscall_handler, syscallVars

LEMMA InvHolds == SyscallSpec => []TimerInv
  BY InvInit, InvNext, PTL DEF SyscallSpec

(* A tick between any two stores of timer_register_callback and            *)
(* timer_unregister_callback calls every registered callback.              *)
THEOREM NoCallbackMissed == SyscallSpec => []CallbacksReached
<1>1. TimerInv => CallbacksReached
  BY TableReached DEF TimerInv
<1> QED
  BY <1>1, InvHolds, PTL

(* timer_update_system_time, called when the wrapping counter is a         *)
(* multiple of a second, keeps a clock that never falls behind and gains   *)
(* less than a second with each wrap.                                      *)
THEOREM ClockNeverBehind == SyscallSpec => []ClockFollowsTicks
<1>1. TimerInv => ClockFollowsTicks
  <2> SUFFICES ASSUME TimerInv PROVE ClockFollowsTicks
    OBVIOUS
  <2>1. TimerTypeOK
    BY DEF TimerInv, TableInv, ClockInv, SleepInv, TimerTypeOK
  <2>2. elapsed \in Nat
    BY Constants DEF TimerInv, ClockInv
  <2>3. /\ Uptime = (elapsed \div TickModulus) * ((TickModulus - 1) \div TicksPerSecond + 1)
                      + (elapsed % TickModulus) \div TicksPerSecond
    BY DEF TimerInv, ClockInv, SecondsPerWrap
  <2> QED
    BY <2>1, <2>2, <2>3, Constants, ClockBounds, Zenon DEF ClockFollowsTicks
<1> QED
  BY <1>1, InvHolds, PTL

(* timer_sleep returns too soon only if its target wrapped. *)
THEOREM SleepNotShort == SyscallSpec => []SleepLongEnough
<1>1. TimerInv => SleepLongEnough
  BY SleepDone DEF TimerInv
<1> QED
  BY <1>1, InvHolds, PTL

-----------------------------------------------------------------------------
(* errno: what each call may answer says whether it failed. *)
LEMMA SecondsNat ==
  ASSUME TimerInv
  PROVE  timer_ticks \div TicksPerSecond \in Nat
<1>1. timer_ticks \in Nat
  BY Constants DEF TimerInv, ClockInv, Ticks
<1> QED
  BY <1>1, Constants, Division

LEMMA AnswerTells ==
  ASSUME TimerInv, NEW call \in DOMAIN Dispatch, NEW r \in Dispatch[call]
  PROVE  Failed(call, r.result) <=> r.errno # "OK"
<1> DEFINE seconds == timer_ticks \div TicksPerSecond
<1>0. seconds # -1
  BY SecondsNat
<1>1. CASE call = "exit"
  BY <1>1 DEF Dispatch, kernel_exit, Succeeds, Failed
<1>2. CASE call = "read"
  BY <1>2 DEF Dispatch, kernel_read, Fails, Failed
<1>3. CASE call = "malloc"
  BY <1>3, SyscallAssumption DEF Dispatch, kernel_malloc, Succeeds, Failed
<1>4. CASE call = "time"
  <2>1. r.result = seconds /\ r.errno = "OK"
    BY <1>4 DEF Dispatch, kernel_time, Succeeds
  <2> HIDE DEF seconds
  <2> QED
    BY <1>0, <1>4, <2>1 DEF Failed
<1>5. CASE call \in {"write", "open", "close", "free", "getpid"}
  BY <1>5 DEF Dispatch, kernel_write, kernel_open, kernel_close, kernel_free, kernel_getpid,
       Succeeds, Fails, Failed
<1>6. CASE call \in {"chdir", "getcwd", "mkdir", "rmdir", "unlink", "stat", "fork"}
  BY <1>6 DEF Dispatch, kernel_chdir, kernel_getcwd, kernel_mkdir, kernel_rmdir, kernel_unlink,
       kernel_stat, unknown, Succeeds, Fails, Failed
<1> QED
  BY <1>1, <1>2, <1>3, <1>4, <1>5, <1>6 DEF Dispatch

LEMMA ReturnsTells ==
  ASSUME NEW call, NEW r, Returns(call, r), Failed(call, r.result) <=> r.errno # "OK"
  PROVE  ErrnoOfLastCall'
  BY DEF Returns, ErrnoOfLastCall, Failed

LEMMA SleepTells ==
  ASSUME ErrnoOfLastCall, kernel_sleep
  PROVE  ErrnoOfLastCall'
<1> DEFINE r == Succeeds(0)
<1>1. Failed("sleep", r.result) <=> r.errno # "OK"
  BY DEF Failed, Succeeds
<1> HIDE DEF r
<1>2. CASE Returns("sleep", r)
  BY <1>1, <1>2, ReturnsTells
<1>3. CASE \E s \in Seconds : SleepBegins(s)
  BY <1>3 DEF SleepBegins, ErrnoOfLastCall
<1>4. CASE SleepHalts
  BY <1>4 DEF SleepHalts, ErrnoOfLastCall, Failed, sysVars
<1> QED
  BY <1>2, <1>3, <1>4 DEF kernel_sleep, SleepNoTime, SleepReturns, r

(* A program that looks at errno after a call, failed or not, learns how   *)
(* that call ended, whatever it called before: the dispatcher clears errno *)
(* first, and no implementation fails without setting it or sets it and    *)
(* succeeds. *)
THEOREM ErrnoAlwaysOfLastCall == SyscallSpec => []ErrnoOfLastCall
<1>1. SyscallInit => ErrnoOfLastCall
  BY DEF SyscallInit, ErrnoOfLastCall
<1>2. TimerInv /\ ErrnoOfLastCall /\ [SyscallNext]_syscallVars => ErrnoOfLastCall'
  <2> SUFFICES ASSUME TimerInv, ErrnoOfLastCall, [SyscallNext]_syscallVars PROVE ErrnoOfLastCall'
    OBVIOUS
  <2>1. CASE UNCHANGED sysVars
    BY <2>1 DEF ErrnoOfLastCall, Failed, sysVars
  <2>2. ASSUME NEW call \in DOMAIN Dispatch, syscall_handler(call) PROVE ErrnoOfLastCall'
    <3>1. PICK r \in Dispatch[call] : Returns(call, r)
      BY <2>2 DEF syscall_handler
    <3> QED
      BY <3>1, AnswerTells, ReturnsTells
  <2>3. CASE kernel_sleep
    BY <2>3, SleepTells
  <2> QED
    BY <2>1, <2>2, <2>3 DEF SyscallNext, syscallVars
<1> QED
  BY <1>1, <1>2, InvHolds, PTL DEF SyscallSpec
=============================================================================
