----------------------------- MODULE HeapProofs -----------------------------
(***************************************************************************)
(* The kernel heap for every size and every request: until a split wraps,  *)
(* the list tiles the heap, free blocks stay apart, and the counters and   *)
(* the pointers held agree with it; what meminfo counts as free is all     *)
(* that is free.                                                           *)
(***************************************************************************)
EXTENDS Heap, FiniteSetTheorems, WellFoundedInduction, TLAPS

EndOf(b, a) == a + Header + b[a].size

(* What BlocksTile says of the list, with a predecessor for every block    *)
(* but the first, and that blocks are in the heap and apart.               *)
Typed(b) == b \in [DOMAIN b -> [size : Nat, free : BOOLEAN, next : Nat, prev : Nat]]

Linked(b) ==
    \A a \in DOMAIN b : \/ b[a].next = NULL /\ EndOf(b, a) = heap_end
                        \/ b[a].next = EndOf(b, a) /\ b[a].next \in DOMAIN b

BackLinked(b) ==
    /\ heap_start \in DOMAIN b /\ b[heap_start].prev = NULL
    /\ \A a \in DOMAIN b \ {heap_start} : b[a].prev \in DOMAIN b /\ b[b[a].prev].next = a

Apart(b) == \A a, c \in DOMAIN b : a < c => EndOf(b, a) <= c

Tiled(b) == /\ Typed(b) /\ Linked(b) /\ BackLinked(b) /\ Apart(b)
            /\ DOMAIN b \subseteq heap_start .. heap_end - Header

Used(b) == {a \in DOMAIN b : ~ b[a].free}

-----------------------------------------------------------------------------
LEMMA SmallMod ==
  ASSUME NEW w \in Nat, NEW n \in Nat, n < w
  PROVE  n % w = n
  OBVIOUS

LEMMA Numbers == /\ heap_start \in Nat /\ heap_start > 0 /\ heap_end \in Nat
                 /\ Header = 20 /\ NULL = 0 /\ heap_start <= heap_end - Header
                 /\ WordSize \in Nat /\ heap_end < WordSize
                 /\ total_size \in Nat /\ total_size > 20 /\ heap_end = heap_start + total_size
<1>1. Start + 15 < 16 * ((Start + 15) \div 16) + 16 /\ (Start + 15) \div 16 \in Nat
  BY HeapSizeAssumption, SMTT(30)
<1>2. heap_start = ((Start + 15) \div 16) * 16
  <2> DEFINE up == ((Start + 15) \div 16) * 16
  <2>1. PICK k \in Nat : WordSize = 16 * k
    BY HeapSizeAssumption, SMTT(30)
  <2>2. up \in Nat /\ up <= Start + 15
    BY <1>1, HeapSizeAssumption, SMTT(30)
  <2>3. Start + 15 < WordSize
    BY HeapSizeAssumption
  <2> HIDE DEF up
  <2>4. up % WordSize = up
    BY <2>2, <2>3, SmallMod, HeapSizeAssumption
  <2> QED
    BY <2>4 DEF heap_start, AlignUp, up
<1>3. heap_start \in Nat /\ heap_start >= Start
  BY <1>1, <1>2, HeapSizeAssumption
<1>4. total_size \in Nat
  BY <1>3, HeapSizeAssumption DEF total_size, Header
<1> QED
  BY <1>3, <1>4, HeapSizeAssumption DEF heap_end, Header, NULL

LEMMA BlockFacts ==
  ASSUME NEW b, Tiled(b), NEW a \in DOMAIN b
  PROVE  /\ a \in Nat /\ a > 0 /\ a >= heap_start /\ a <= heap_end - Header
         /\ b[a].size \in Nat /\ b[a].free \in BOOLEAN /\ b[a].next \in Nat /\ b[a].prev \in Nat
         /\ b[a] = [size |-> b[a].size, free |-> b[a].free, next |-> b[a].next, prev |-> b[a].prev]
         /\ EndOf(b, a) = a + 20 + b[a].size /\ EndOf(b, a) \in Nat
         /\ EndOf(b, a) > a /\ EndOf(b, a) <= heap_end
<1>1. a \in Nat /\ a > 0 /\ a >= heap_start /\ a <= heap_end - Header
  BY Numbers DEF Tiled
<1>2. b[a] \in [size : Nat, free : BOOLEAN, next : Nat, prev : Nat]
  BY DEF Tiled, Typed
<1>3. /\ EndOf(b, a) = a + 20 + b[a].size /\ EndOf(b, a) \in Nat /\ EndOf(b, a) > a
  BY <1>1, <1>2, Numbers DEF EndOf
<1>4. EndOf(b, a) <= heap_end
  <2>1. CASE b[a].next = NULL /\ EndOf(b, a) = heap_end
    BY <2>1, Numbers
  <2>2. CASE b[a].next = EndOf(b, a) /\ b[a].next \in DOMAIN b
    BY <2>2, <1>3, Numbers DEF Tiled
  <2> QED
    BY <2>1, <2>2 DEF Tiled, Linked
<1> QED
  BY <1>1, <1>2, <1>3, <1>4

(* Two blocks with one end are one. *)
LEMMA EndUnique ==
  ASSUME NEW b, Tiled(b), NEW a \in DOMAIN b, NEW c \in DOMAIN b, EndOf(b, a) = EndOf(b, c)
  PROVE  a = c
<1>1. /\ a \in Nat /\ c \in Nat /\ EndOf(b, a) \in Nat
      /\ EndOf(b, a) > a /\ EndOf(b, c) > c
  BY BlockFacts
<1>2. ~ (a < c) /\ ~ (c < a)
  BY <1>1 DEF Tiled, Apart
<1> QED
  BY <1>1, <1>2

(* next and prev are inverse, and next is where a block ends.              *)
LEMMA LinksAgree ==
  ASSUME NEW b, Tiled(b), NEW a \in DOMAIN b, NEW c \in DOMAIN b
  PROVE  /\ b[a].next = c <=> EndOf(b, a) = c
         /\ b[a].next = c <=> b[c].prev = a
         /\ b[a].next # a /\ b[a].next # heap_start
<1>1. c # NULL /\ c # heap_end /\ c \in Nat /\ a # NULL /\ a # heap_end
  BY BlockFacts, Numbers
<1>2. b[a].next = c <=> EndOf(b, a) = c
  BY <1>1, BlockFacts DEF Tiled, Linked
<1>3. b[a].next # a /\ b[a].next # heap_start
  BY <1>1, BlockFacts, Numbers DEF Tiled, Linked
<1>4. ASSUME b[a].next = c PROVE b[c].prev = a
  <2>1. c # heap_start
    BY <1>3, <1>4
  <2>2. b[c].prev \in DOMAIN b /\ b[b[c].prev].next = c
    BY <2>1 DEF Tiled, BackLinked
  <2>3. EndOf(b, b[c].prev) = c
    BY <2>2, <1>1, BlockFacts DEF Tiled, Linked
  <2> QED
    BY <1>2, <1>4, <2>2, <2>3, EndUnique
<1>5. ASSUME b[c].prev = a PROVE b[a].next = c
  BY <1>1, <1>5 DEF Tiled, BackLinked
<1> QED
  BY <1>2, <1>3, <1>4, <1>5

(* The size of a finite set with one element more, and with one less.      *)
LEMMA AddedOne ==
  ASSUME NEW S, IsFiniteSet(S), NEW T, NEW a, a \notin S, T = S \cup {a}
  PROVE  Cardinality(T) = Cardinality(S) + 1
<1>1. Cardinality(S \cup {a}) = IF a \in S THEN Cardinality(S) ELSE Cardinality(S) + 1
  BY FS_AddElement
<1> QED
  BY <1>1

LEMMA TakenOne ==
  ASSUME NEW S, IsFiniteSet(S), NEW T, NEW a, a \in S, T = S \ {a}
  PROVE  Cardinality(T) = Cardinality(S) - 1
<1>1. Cardinality(S \ {a}) = IF a \in S THEN Cardinality(S) - 1 ELSE Cardinality(S)
  BY FS_RemoveElement
<1> QED
  BY <1>1

(* Setting a block's flag. *)
LEMMA FlagTiled ==
  ASSUME NEW b, Tiled(b), NEW a \in DOMAIN b, NEW v \in BOOLEAN
  PROVE  LET f == [b EXCEPT ![a].free = v] IN
         /\ Tiled(f) /\ DOMAIN f = DOMAIN b /\ f[a].free = v
         /\ \A x \in DOMAIN b : /\ f[x].size = b[x].size /\ f[x].next = b[x].next
                                /\ EndOf(f, x) = EndOf(b, x)
                                /\ x # a => f[x] = b[x]
<1> DEFINE f == [b EXCEPT ![a].free = v]
<1>1. /\ DOMAIN f = DOMAIN b
      /\ f[a] = [size |-> b[a].size, free |-> v, next |-> b[a].next, prev |-> b[a].prev]
      /\ \A x \in DOMAIN b : x # a => f[x] = b[x]
  BY BlockFacts
<1>2. f = [x \in DOMAIN b |-> f[x]]
  OBVIOUS
<1> HIDE DEF f
<1>3. \A x \in DOMAIN b : f[x].size = b[x].size /\ f[x].next = b[x].next /\ f[x].prev = b[x].prev
  BY <1>1
<1>4. \A x \in DOMAIN b : EndOf(f, x) = EndOf(b, x)
  BY <1>3 DEF EndOf
<1>5. Typed(f)
  BY <1>1, <1>2, BlockFacts DEF Typed, Tiled
<1>6. Tiled(f)
  BY <1>1, <1>3, <1>4, <1>5 DEF Tiled, Linked, BackLinked, Apart
<1> QED
  BY <1>1, <1>3, <1>4, <1>6 DEF f

(* One write to a back link, where there is a block. *)
LEMMA BackLinkFacts ==
  ASSUME NEW b, Typed(b), NEW at \in DOMAIN b \cup {NULL}, NEW to \in Nat
  PROVE  LET w == BackLink(b, at, to) IN
         /\ DOMAIN w = DOMAIN b /\ Typed(w)
         /\ \A x \in DOMAIN b : /\ w[x].size = b[x].size /\ w[x].free = b[x].free
                                /\ w[x].next = b[x].next
                                /\ w[x].prev = IF x = at /\ at # NULL THEN to ELSE b[x].prev
                                /\ x # at => w[x] = b[x]
<1> DEFINE w == BackLink(b, at, to)
<1>1. CASE at = NULL
  BY <1>1 DEF BackLink
<1>2. CASE at # NULL
  <2>0. /\ at \in DOMAIN b /\ b[at] \in [size : Nat, free : BOOLEAN, next : Nat, prev : Nat]
        /\ b[at] = [size |-> b[at].size, free |-> b[at].free, next |-> b[at].next, prev |-> b[at].prev]
    BY <1>2 DEF Typed
  <2>1. w = [b EXCEPT ![at].prev = to]
    BY <1>2 DEF BackLink
  <2>2. /\ DOMAIN w = DOMAIN b /\ w = [x \in DOMAIN w |-> w[x]]
        /\ w[at] = [size |-> b[at].size, free |-> b[at].free, next |-> b[at].next, prev |-> to]
        /\ \A x \in DOMAIN b : x # at => w[x] = b[x]
    BY <2>0, <2>1
  <2> HIDE DEF w
  <2>3. w[at] \in [size : Nat, free : BOOLEAN, next : Nat, prev : Nat]
    BY <2>0, <2>2
  <2>4. Typed(w)
    BY <2>2, <2>3 DEF Typed
  <2> QED
    BY <1>2, <2>0, <2>2, <2>4 DEF w
<1> QED
  BY <1>1, <1>2

-----------------------------------------------------------------------------
(* merge_free_blocks, either half: block n, after a, becomes part of it.   *)
Joined(b, a, n) ==
    Without([BackLink(b, b[n].next, a) EXCEPT
                ![a].size = @ + Header + b[n].size, ![a].next = b[n].next], n)

(* m is b with block n, after a, become part of it. *)
JoinedAs(b, a, n, m) ==
    /\ DOMAIN m = DOMAIN b \ {n} /\ a # n
    /\ m[a].next = b[n].next /\ m[a].free = b[a].free
    /\ \A x \in DOMAIN b \ {a, n} : /\ m[x].size = b[x].size /\ m[x].free = b[x].free
                                    /\ m[x].next = b[x].next

LEMMA JoinedTiled ==
  ASSUME NEW b, Tiled(b), NEW a \in DOMAIN b, NEW n \in DOMAIN b, b[a].next = n
  PROVE  Tiled(Joined(b, a, n)) /\ JoinedAs(b, a, n, Joined(b, a, n))
<1> DEFINE m  == Joined(b, a, n)
           nn == b[n].next
           w  == BackLink(b, nn, a)
           v  == [w EXCEPT ![a].size = @ + Header + b[n].size, ![a].next = nn]
<1>0. /\ \A x \in DOMAIN b : /\ x \in Nat /\ x > 0 /\ x >= heap_start /\ EndOf(b, x) \in Nat
                            /\ b[x].size \in Nat /\ EndOf(b, x) = x + 20 + b[x].size
                            /\ EndOf(b, x) > x
                            /\ b[x] \in [size : Nat, free : BOOLEAN, next : Nat, prev : Nat]
      /\ \A x, y \in DOMAIN b : x < y => EndOf(b, x) <= y
      /\ heap_start \in Nat
  BY BlockFacts, Numbers DEF Tiled, Apart, Typed
<1>00. \A x, y \in DOMAIN b : /\ b[x].next = y <=> EndOf(b, x) = y
                              /\ b[x].next = y <=> b[y].prev = x
                              /\ b[x].next # x /\ b[x].next # heap_start
                              /\ EndOf(b, x) = EndOf(b, y) => x = y
  BY LinksAgree, EndUnique
<1>1. EndOf(b, a) = n /\ n > a /\ a # n /\ n # heap_start
  BY <1>0, <1>00
<1>2. nn \in DOMAIN b \cup {NULL} /\ nn # n
  BY <1>00 DEF Tiled, Linked
<1>3. nn # a
  BY <1>0, <1>00, <1>1
<1>4. /\ DOMAIN w = DOMAIN b /\ Typed(w)
      /\ \A x \in DOMAIN b : /\ w[x].size = b[x].size /\ w[x].free = b[x].free
                             /\ w[x].next = b[x].next
                             /\ w[x].prev = IF x = nn /\ nn # NULL THEN a ELSE b[x].prev
                             /\ x # nn => w[x] = b[x]
  <2>1. Typed(b) /\ a \in Nat
    BY <1>0 DEF Tiled
  <2> HIDE DEF nn
  <2> QED
    BY <1>2, <2>1, BackLinkFacts
<1> HIDE DEF w, nn
<1>5. w[a] = [size |-> b[a].size, free |-> b[a].free, next |-> b[a].next, prev |-> b[a].prev]
  <2>1. w[a] = b[a]
    BY <1>3, <1>4
  <2> QED
    BY <2>1, <1>0
<1>6. /\ DOMAIN v = DOMAIN b
      /\ v[a] = [size |-> b[a].size + 20 + b[n].size, free |-> b[a].free, next |-> nn, prev |-> b[a].prev]
      /\ \A x \in DOMAIN b \ {a} : v[x] = w[x]
  <2> DEFINE u == [w EXCEPT ![a].size = @ + Header + b[n].size]
  <2>1. a \in DOMAIN w
    BY <1>4
  <2>2. /\ DOMAIN u = DOMAIN b /\ \A x \in DOMAIN b \ {a} : u[x] = w[x]
        /\ u[a] = [size |-> b[a].size + 20 + b[n].size, free |-> b[a].free,
                   next |-> b[a].next, prev |-> b[a].prev]
    BY <1>4, <1>5, <2>1, Numbers
  <2>3. v = [u EXCEPT ![a].next = nn]
    OBVIOUS
  <2> HIDE DEF u, v
  <2> QED
    BY <2>2, <2>3
<1> HIDE DEF v
<1>7. m = [x \in DOMAIN v \ {n} |-> v[x]]
  BY DEF Joined, Without, v, w, nn
<1>8. /\ DOMAIN m = DOMAIN b \ {n} /\ m = [x \in DOMAIN m |-> m[x]]
      /\ m[a] = [size |-> b[a].size + 20 + b[n].size, free |-> b[a].free, next |-> nn, prev |-> b[a].prev]
      /\ \A x \in DOMAIN b \ {a, n} :
            /\ m[x].size = b[x].size /\ m[x].free = b[x].free /\ m[x].next = b[x].next
            /\ m[x].prev = IF x = nn /\ nn # NULL THEN a ELSE b[x].prev
            /\ m[x] = w[x]
  BY <1>1, <1>4, <1>6, <1>7
<1> HIDE DEF m
<1>9. /\ EndOf(m, a) = EndOf(b, n)
      /\ \A x \in DOMAIN b \ {a, n} : EndOf(m, x) = EndOf(b, x)
  <2>1. m[a].size = b[a].size + 20 + b[n].size
    BY <1>8
  <2>2. /\ n = a + 20 + b[a].size /\ EndOf(b, n) = n + 20 + b[n].size
        /\ a \in Nat /\ n \in Nat /\ b[a].size \in Nat /\ b[n].size \in Nat
    BY <1>0, <1>1
  <2>3. EndOf(m, a) = a + 20 + m[a].size
    BY Numbers DEF EndOf
  <2>4. EndOf(m, a) = EndOf(b, n)
    BY <2>1, <2>2, <2>3
  <2>5. \A x \in DOMAIN b \ {a, n} : EndOf(m, x) = EndOf(b, x)
    BY <1>8 DEF EndOf
  <2> QED
    BY <2>4, <2>5
<1>10. Typed(m)
  <2>1. nn \in Nat
    BY <1>0 DEF nn
  <2>2. m[a] \in [size : Nat, free : BOOLEAN, next : Nat, prev : Nat]
    BY <1>0, <1>8, <2>1
  <2>3. \A x \in DOMAIN b \ {a, n} : m[x] \in [size : Nat, free : BOOLEAN, next : Nat, prev : Nat]
    BY <1>4, <1>8 DEF Typed
  <2>4. \A x \in DOMAIN m : m[x] \in [size : Nat, free : BOOLEAN, next : Nat, prev : Nat]
    BY <1>8, <2>2, <2>3
  <2> QED
    BY <1>8, <2>4 DEF Typed
<1>11. Linked(m)
  <2> SUFFICES ASSUME NEW x \in DOMAIN m
               PROVE  \/ m[x].next = NULL /\ EndOf(m, x) = heap_end
                      \/ m[x].next = EndOf(m, x) /\ m[x].next \in DOMAIN m
    BY DEF Linked
  <2>1. CASE x = a
    BY <2>1, <1>2, <1>8, <1>9 DEF Tiled, Linked, nn
  <2>2. CASE x # a
    <3>1. x \in DOMAIN b \ {a, n} /\ m[x].next = b[x].next /\ EndOf(m, x) = EndOf(b, x)
      BY <2>2, <1>8, <1>9
    <3>2. b[x].next # n
      BY <3>1, <1>00, <1>1
    <3> QED
      BY <3>1, <3>2, <1>8 DEF Tiled, Linked
  <2> QED
    BY <2>1, <2>2
<1>12. BackLinked(m)
  <2>1. heap_start \in DOMAIN m /\ m[heap_start].prev = NULL
    <3>1. nn # heap_start
      BY <1>00 DEF nn
    <3> QED
      BY <3>1, <1>1, <1>8 DEF Tiled, BackLinked
  <2>2. ASSUME NEW x \in DOMAIN m \ {heap_start}
        PROVE  m[x].prev \in DOMAIN m /\ m[m[x].prev].next = x
    <3>0. x \in DOMAIN b \ {heap_start} /\ x # n /\ b[x].prev \in DOMAIN b /\ b[b[x].prev].next = x
      BY <1>8 DEF Tiled, BackLinked
    <3>1. CASE x = nn
      <4>1. x # NULL /\ x # a
        BY <3>0, <3>1, <1>0, <1>3, Numbers
      <4> QED
        BY <3>0, <3>1, <4>1, <1>1, <1>8
    <3>2. CASE x # nn
      <4>1. b[x].prev # n
        BY <3>0, <3>2 DEF nn
      <4>2. m[x].prev = b[x].prev
        BY <3>0, <3>2, <1>8
      <4>3. b[x].prev # a
        BY <3>0
      <4> QED
        BY <3>0, <4>1, <4>2, <4>3, <1>8
    <3> QED
      BY <3>1, <3>2
  <2> QED
    BY <2>1, <2>2 DEF BackLinked
<1>13. Apart(m)
  <2> SUFFICES ASSUME NEW x \in DOMAIN m, NEW y \in DOMAIN m, x < y PROVE EndOf(m, x) <= y
    BY DEF Apart
  <2>1. CASE x = a
    <3>1. y > n
      BY <2>1, <1>0, <1>1, <1>8
    <3> QED
      BY <2>1, <3>1, <1>0, <1>8, <1>9
  <2>2. CASE x # a
    BY <2>2, <1>0, <1>8, <1>9
  <2> QED
    BY <2>1, <2>2
<1>14. DOMAIN m \subseteq heap_start .. heap_end - Header
  BY <1>8 DEF Tiled
<1>15. Tiled(m)
  BY <1>10, <1>11, <1>12, <1>13, <1>14 DEF Tiled
<1> QED
  BY <1>1, <1>8, <1>15 DEF m, nn, JoinedAs

(* split_block, when it splits. *)
Parted(b, a, size) ==
    LET new == a + Header + size
        w1  == [x \in DOMAIN b \cup {new} |->
                   IF x = new THEN [size |-> b[a].size - size - Header, free |-> TRUE,
                                    next |-> b[a].next, prev |-> a]
                   ELSE b[x]]
    IN  [BackLink(w1, b[a].next, new) EXCEPT ![a].next = new, ![a].size = size]

(* w is b with the block at a cut at "size" bytes, "new" being the rest.   *)
CutAt(b, a, size, new, w) ==
    /\ new \notin DOMAIN b /\ DOMAIN w = DOMAIN b \cup {new}
    /\ w[a].next = new /\ w[a].size = size /\ w[a].free = b[a].free
    /\ w[new].free = TRUE /\ w[new].next = b[a].next
    /\ \A x \in DOMAIN b \ {a} : /\ w[x].size = b[x].size /\ w[x].free = b[x].free
                                 /\ w[x].next = b[x].next

LEMMA PartedTiled ==
  ASSUME NEW b, Tiled(b), NEW a \in DOMAIN b, NEW size \in Nat, size + 52 <= b[a].size
  PROVE  Tiled(Parted(b, a, size)) /\ CutAt(b, a, size, a + Header + size, Parted(b, a, size))
<1> DEFINE new == a + Header + size
           after == b[a].next
           rest  == b[a].size - size - Header
           fresh == [size |-> rest, free |-> TRUE, next |-> after, prev |-> a]
           w1  == [x \in DOMAIN b \cup {new} |-> IF x = new THEN fresh ELSE b[x]]
           w2  == BackLink(w1, after, new)
           u   == [w2 EXCEPT ![a].next = new]
           w   == [w2 EXCEPT ![a].next = new, ![a].size = size]
<1>1. /\ \A x \in DOMAIN b : /\ x \in Nat /\ x > 0 /\ x >= heap_start /\ EndOf(b, x) \in Nat
                             /\ EndOf(b, x) > x /\ EndOf(b, x) <= heap_end
      /\ \A x, y \in DOMAIN b : x < y => EndOf(b, x) <= y
      /\ heap_start \in Nat /\ heap_end \in Nat
  BY BlockFacts, Numbers DEF Tiled, Apart
<1>2. /\ a \in Nat /\ a > 0 /\ a >= heap_start /\ EndOf(b, a) \in Nat
      /\ b[a].size \in Nat /\ EndOf(b, a) = a + 20 + b[a].size /\ EndOf(b, a) <= heap_end
      /\ b[a].next \in Nat /\ b[a].prev \in Nat /\ b[a].free \in BOOLEAN
      /\ b[a] = [size |-> b[a].size, free |-> b[a].free, next |-> b[a].next, prev |-> b[a].prev]
  BY BlockFacts
<1>3. /\ new = a + 20 + size /\ new \in Nat /\ new > a /\ new + 52 <= EndOf(b, a)
      /\ new > heap_start /\ new <= heap_end - 20 /\ new > 0
      /\ rest \in Nat /\ new + 20 + rest = EndOf(b, a)
  BY <1>1, <1>2, Numbers
<1>4. w = Parted(b, a, size)
  BY DEF Parted
<1>5. after \in DOMAIN b \cup {NULL} /\ after # a /\ after # heap_start /\ after \in Nat
  BY <1>2, LinksAgree DEF Tiled, Linked
<1> HIDE DEF new, after, rest
<1>6. new \notin DOMAIN b
  BY <1>1, <1>2, <1>3
<1>7. fresh \in [size : Nat, free : BOOLEAN, next : Nat, prev : Nat]
  BY <1>2, <1>3, <1>5
<1>8. /\ DOMAIN w1 = DOMAIN b \cup {new} /\ w1[new] = fresh
      /\ \A x \in DOMAIN b : w1[x] = b[x]
  BY <1>6
<1> HIDE DEF fresh
<1>9. Typed(w1)
  <2>1. \A x \in DOMAIN w1 : w1[x] \in [size : Nat, free : BOOLEAN, next : Nat, prev : Nat]
    BY <1>7, <1>8 DEF Tiled, Typed
  <2> QED
    BY <2>1 DEF Typed
<1> HIDE DEF w1
<1>10. /\ DOMAIN w2 = DOMAIN w1 /\ Typed(w2)
       /\ \A x \in DOMAIN w1 : /\ w2[x].size = w1[x].size /\ w2[x].free = w1[x].free
                               /\ w2[x].next = w1[x].next
                               /\ w2[x].prev = IF x = after /\ after # NULL THEN new ELSE w1[x].prev
                               /\ x # after => w2[x] = w1[x]
  <2>1. Typed(w1) /\ after \in DOMAIN w1 \cup {NULL} /\ new \in Nat
    BY <1>3, <1>5, <1>8, <1>9
  <2> QED
    BY <2>1, BackLinkFacts
<1> HIDE DEF w2
<1>11. w2[a] = [size |-> b[a].size, free |-> b[a].free, next |-> after, prev |-> b[a].prev]
  <2>1. w2[a] = b[a]
    BY <1>5, <1>8, <1>10
  <2> QED
    BY <2>1, <1>2 DEF after
<1>12. /\ DOMAIN u = DOMAIN w2 /\ \A x \in DOMAIN w2 \ {a} : u[x] = w2[x]
       /\ u[a] = [size |-> b[a].size, free |-> b[a].free, next |-> new, prev |-> b[a].prev]
       /\ w = [u EXCEPT ![a].size = size]
  BY <1>8, <1>10, <1>11
<1> HIDE DEF u, w
<1>13. /\ DOMAIN w = DOMAIN b \cup {new}
       /\ w[a] = [size |-> size, free |-> b[a].free, next |-> new, prev |-> b[a].prev]
       /\ \A x \in DOMAIN w \ {a} : w[x] = w2[x]
       /\ w = [x \in DOMAIN w |-> w[x]]
  <2>1. u = [x \in DOMAIN u |-> u[x]]
    <3>1. w2 = [x \in DOMAIN w2 |-> w2[x]]
      BY <1>10 DEF Typed
    <3> QED
      BY <3>1 DEF u
  <2>2. a \in DOMAIN u /\ DOMAIN u = DOMAIN b \cup {new}
    BY <1>8, <1>10, <1>12
  <2>3. /\ DOMAIN w = DOMAIN u /\ w = [x \in DOMAIN w |-> w[x]]
        /\ \A x \in DOMAIN u \ {a} : w[x] = u[x]
        /\ w[a] = [u[a] EXCEPT !.size = size]
    BY <2>1, <2>2, <1>12
  <2>4. w[a] = [size |-> size, free |-> b[a].free, next |-> new, prev |-> b[a].prev]
    BY <2>3, <1>12
  <2> QED
    BY <2>2, <2>3, <2>4, <1>12
<1>14. /\ a # new /\ new # after /\ new # NULL
       /\ w[new] = [size |-> rest, free |-> TRUE, next |-> after, prev |-> a]
       /\ \A x \in DOMAIN b \ {a} :
             /\ w[x].size = b[x].size /\ w[x].free = b[x].free /\ w[x].next = b[x].next
             /\ w[x].prev = IF x = after /\ after # NULL THEN new ELSE b[x].prev
  <2>1. a # new /\ new # after /\ new # NULL
    BY <1>3, <1>5, <1>6, Numbers
  <2> QED
    BY <2>1, <1>6, <1>8, <1>10, <1>13 DEF fresh
<1>15. /\ EndOf(w, new) = EndOf(b, a) /\ EndOf(w, a) = new
       /\ \A x \in DOMAIN b \ {a} : EndOf(w, x) = EndOf(b, x)
  BY <1>2, <1>3, <1>13, <1>14, Numbers DEF EndOf
<1>16. Typed(w)
  <2>1. w[a] \in [size : Nat, free : BOOLEAN, next : Nat, prev : Nat]
    BY <1>2, <1>3, <1>13
  <2>2. \A x \in DOMAIN w \ {a} : w[x] \in [size : Nat, free : BOOLEAN, next : Nat, prev : Nat]
    BY <1>8, <1>10, <1>13 DEF Typed
  <2>3. \A x \in DOMAIN w : w[x] \in [size : Nat, free : BOOLEAN, next : Nat, prev : Nat]
    BY <2>1, <2>2
  <2> QED
    BY <1>13, <2>3 DEF Typed
<1>17. Linked(w)
  <2> SUFFICES ASSUME NEW x \in DOMAIN w
               PROVE  \/ w[x].next = NULL /\ EndOf(w, x) = heap_end
                      \/ w[x].next = EndOf(w, x) /\ w[x].next \in DOMAIN w
    BY DEF Linked
  <2>1. CASE x = a
    BY <2>1, <1>13, <1>15
  <2>2. CASE x = new
    BY <2>2, <1>13, <1>14, <1>15 DEF Tiled, Linked, after
  <2>3. CASE x \in DOMAIN b \ {a}
    BY <2>3, <1>13, <1>14, <1>15 DEF Tiled, Linked
  <2> QED
    BY <2>1, <2>2, <2>3, <1>13
<1>18. BackLinked(w)
  <2>1. heap_start \in DOMAIN w /\ w[heap_start].prev = NULL
    BY <1>5, <1>13, <1>14 DEF Tiled, BackLinked
  <2>2. ASSUME NEW x \in DOMAIN w \ {heap_start}
        PROVE  w[x].prev \in DOMAIN w /\ w[w[x].prev].next = x
    <3>1. CASE x = new
      BY <3>1, <1>13, <1>14
    <3>2. CASE x = after /\ x \in DOMAIN b
      <4>1. x # NULL /\ x # a
        BY <3>2, <1>1, <1>5, Numbers
      <4> QED
        BY <3>2, <4>1, <1>13, <1>14
    <3>3. CASE x # after /\ x \in DOMAIN b
      <4>1. b[x].prev \in DOMAIN b /\ b[b[x].prev].next = x
        BY <3>3 DEF Tiled, BackLinked
      <4>2. b[x].prev # a
        BY <3>3, <4>1 DEF after
      <4>3. w[x].prev = b[x].prev
        BY <3>3, <1>13, <1>14
      <4> QED
        BY <4>1, <4>2, <4>3, <1>13, <1>14
    <3> QED
      BY <3>1, <3>2, <3>3, <1>13
  <2> QED
    BY <2>1, <2>2 DEF BackLinked
<1>19. Apart(w)
  <2> SUFFICES ASSUME NEW x \in DOMAIN w, NEW y \in DOMAIN w, x < y PROVE EndOf(w, x) <= y
    BY DEF Apart
  <2>1. CASE x = new /\ y = new
    BY <2>1, <1>3
  <2>2. CASE x = new /\ y \in DOMAIN b
    BY <2>2, <1>1, <1>3, <1>15
  <2>3. CASE x \in DOMAIN b /\ y = new
    <3>1. CASE x = a
      BY <3>1, <2>3, <1>15, <1>3
    <3>2. CASE x # a
      <4>1. ~ (a < x)
        BY <2>3, <1>1, <1>3
      <4> QED
        BY <4>1, <3>2, <2>3, <1>1, <1>3, <1>15
    <3> QED
      BY <3>1, <3>2
  <2>4. CASE x \in DOMAIN b /\ y \in DOMAIN b
    BY <2>4, <1>1, <1>3, <1>15
  <2> QED
    BY <1>13, <2>1, <2>2, <2>3, <2>4
<1>20. DOMAIN w \subseteq heap_start .. heap_end - Header
  BY <1>1, <1>3, <1>13, Numbers DEF Tiled
<1>21. Tiled(w)
  BY <1>16, <1>17, <1>18, <1>19, <1>20 DEF Tiled
<1> QED
  <2>1. /\ DOMAIN w = DOMAIN b \cup {new} /\ w[a].next = new /\ w[a].size = size
        /\ w[a].free = b[a].free /\ w[new].free = TRUE /\ w[new].next = b[a].next
        /\ \A x \in DOMAIN b \ {a} : /\ w[x].size = b[x].size /\ w[x].free = b[x].free
                                     /\ w[x].next = b[x].next
    BY <1>13, <1>14 DEF after
  <2> QED
    BY <2>1, <1>4, <1>6, <1>21 DEF new, CutAt

-----------------------------------------------------------------------------
FreeOnes(b) == {a \in DOMAIN b : b[a].free}

HeapRec(h) == h = [block |-> h.block, blocks_allocated |-> h.blocks_allocated,
                   blocks_free |-> h.blocks_free, free_size |-> h.free_size]

(* A list that tiles the heap, and counters that agree with it.            *)
Shape(h) == /\ HeapRec(h) /\ Tiled(h.block)
            /\ h.blocks_allocated = Cardinality(Used(h.block))
            /\ h.blocks_free = Cardinality(FreeOnes(h.block))
            /\ h.free_size \in 0 .. WordSize - 1

(* No two free blocks side by side, but for those next to c.               *)
CompactBut(b, c) ==
    \A x, y \in DOMAIN b : b[x].next = y /\ x # c /\ y # c => ~ (b[x].free /\ b[y].free)

Compact(b) == \A x, y \in DOMAIN b : b[x].next = y => ~ (b[x].free /\ b[y].free)

LEMMA BlocksFinite ==
  ASSUME NEW b, Tiled(b)
  PROVE  /\ IsFiniteSet(DOMAIN b) /\ IsFiniteSet(Used(b)) /\ IsFiniteSet(FreeOnes(b))
         /\ Cardinality(Used(b)) \in Nat /\ Cardinality(FreeOnes(b)) \in Nat
<1>1. DOMAIN b \subseteq heap_start .. heap_end - Header
  BY DEF Tiled
<1>2. IsFiniteSet(heap_start .. heap_end - Header)
  BY Numbers, FS_Interval
<1>3. IsFiniteSet(DOMAIN b)
  BY <1>1, <1>2, FS_Subset
<1>4. Used(b) \subseteq DOMAIN b /\ FreeOnes(b) \subseteq DOMAIN b
  BY DEF Used, FreeOnes
<1> QED
  BY <1>3, <1>4, FS_Subset, FS_CardinalityType

LEMMA ModRange ==
  ASSUME NEW x \in Int
  PROVE  x % WordSize \in 0 .. WordSize - 1 /\ (x \in 0 .. WordSize - 1 => x % WordSize = x)
<1>1. WordSize \in Nat \ {0}
  BY Numbers
<1>2. ASSUME NEW w \in Nat \ {0}, NEW y \in Int
      PROVE  y % w \in 0 .. w - 1 /\ (y \in 0 .. w - 1 => y % w = y)
  BY <1>2, Z3
<1> QED
  BY <1>1, <1>2

(* What split_block leaves when the subtraction does not wrap.             *)
LEMMA SplitShape ==
  ASSUME NEW h, Shape(h), NEW a \in DOMAIN h.block, h.block[a].free,
         NEW size \in Nat, size <= h.block[a].size, ~ Wraps(h, a, size)
  PROVE  LET s == Split(h, a, size) IN
         \/ s = h
         \/ /\ Shape(s) /\ s.blocks_allocated = h.blocks_allocated
            /\ CutAt(h.block, a, size, a + Header + size, s.block)
<1> DEFINE s   == Split(h, a, size)
           new == a + Header + size
           b   == h.block
           w   == Parted(b, a, size)
<1>1. /\ a \in Nat /\ b[a].size \in Nat /\ b[a].size < WordSize /\ b[a].free \in BOOLEAN
      /\ Tiled(b) /\ a \in DOMAIN b
  BY BlockFacts, Numbers DEF Shape
<1>2. b[a].size - size >= 20
  BY <1>1, Numbers DEF Wraps
<1>3. Remaining(h, a, size) = b[a].size - size - Header
  <2>1. b[a].size - size - Header \in 0 .. WordSize - 1
    BY <1>1, <1>2, Numbers
  <2> QED
    BY <2>1, ModRange DEF Remaining
<1>4. CASE Remaining(h, a, size) < MIN_ALLOC_SIZE
  BY <1>4 DEF Split
<1>5. CASE ~ (Remaining(h, a, size) < MIN_ALLOC_SIZE)
  <2>1. size + 52 <= b[a].size
    BY <1>1, <1>2, <1>3, <1>5, Numbers DEF MIN_ALLOC_SIZE
  <2>2. s = [h EXCEPT !.block = w, !.blocks_free = @ + 1]
    BY <1>3, <1>5 DEF Split, Parted, Blocks
  <2>3. /\ HeapRec(s) /\ s.block = w /\ s.blocks_free = h.blocks_free + 1
        /\ s.blocks_allocated = h.blocks_allocated /\ s.free_size = h.free_size
    BY <2>2 DEF HeapRec, Shape
  <2>4. Tiled(w) /\ CutAt(b, a, size, new, w)
    BY <1>1, <2>1, PartedTiled
  <2> HIDE DEF new, w, s, b
  <2>5. Used(w) = Used(b) /\ FreeOnes(w) = FreeOnes(b) \cup {new} /\ new \notin FreeOnes(b)
    BY <1>1, <2>4 DEF Used, FreeOnes, b, CutAt
  <2>6. /\ s.blocks_allocated = Cardinality(Used(w))
        /\ s.blocks_free = Cardinality(FreeOnes(w))
    <3>1. IsFiniteSet(FreeOnes(b)) /\ Cardinality(FreeOnes(b)) \in Nat
      BY <1>1, BlocksFinite
    <3>2. Cardinality(FreeOnes(w)) = Cardinality(FreeOnes(b)) + 1
      BY <2>5, <3>1, FS_AddElement
    <3> QED
      BY <2>3, <2>5, <3>2 DEF Shape, b
  <2>7. Shape(s)
    BY <2>3, <2>4, <2>6 DEF Shape
  <2> QED
    BY <1>1, <2>3, <2>4, <2>7 DEF b, s, new
<1> QED
  BY <1>4, <1>5

(* heap_malloc of a block that fits, when the subtraction does not wrap.   *)
LEMMA TakeShape ==
  ASSUME NEW h, Shape(h), Compact(h.block), NEW a \in DOMAIN h.block, h.block[a].free,
         NEW size \in Nat, size <= h.block[a].size, ~ Wraps(h, a, size)
  PROVE  LET t == Take(h, a, size) IN
         /\ Shape(t) /\ Compact(t.block)
         /\ Used(t.block) = Used(h.block) \cup {a} /\ a \notin Used(h.block)
         /\ t.block[a].size >= size
         /\ \A x \in Used(h.block) : t.block[x].size = h.block[x].size
<1> DEFINE s == Split(h, a, size)
           t == Take(h, a, size)
           b == h.block
           c == s.block
           d == t.block
           new == a + Header + size
<1>1. \/ s = h
      \/ /\ Shape(s) /\ s.blocks_allocated = h.blocks_allocated
         /\ CutAt(b, a, size, new, c)
  BY SplitShape
<1>2. t = [s EXCEPT !.block[a].free = FALSE, !.blocks_allocated = @ + 1,
                    !.blocks_free = @ - 1, !.free_size = (@ - (size + Header)) % WordSize]
  BY DEF Take
<1>3. Shape(s) /\ a \in DOMAIN c /\ c[a].free /\ c[a].size >= size
  <2>1. CASE s = h
    BY <2>1, BlockFacts DEF Shape
  <2>2. CASE s # h
    <3>1. Shape(s) /\ CutAt(b, a, size, new, c)
      BY <1>1, <2>2
    <3> HIDE DEF s, new
    <3>2. DOMAIN c = DOMAIN b \cup {new} /\ c[a].size = size /\ c[a].free = b[a].free
      BY <3>1 DEF CutAt
    <3> QED
      BY <3>1, <3>2
  <2> QED
    BY <2>1, <2>2
<1> HIDE DEF s, t
<1>4. /\ HeapRec(t) /\ d = [c EXCEPT ![a].free = FALSE]
      /\ t.blocks_allocated = s.blocks_allocated + 1 /\ t.blocks_free = s.blocks_free - 1
      /\ t.free_size = (s.free_size - (size + Header)) % WordSize
  BY <1>2, <1>3 DEF Shape, HeapRec
<1> HIDE DEF b, c, d
<1>5. /\ Tiled(d) /\ DOMAIN d = DOMAIN c /\ d[a].free = FALSE
      /\ \A x \in DOMAIN c : /\ d[x].size = c[x].size /\ d[x].next = c[x].next
                             /\ x # a => d[x] = c[x]
  BY <1>3, <1>4, FlagTiled DEF Shape, c
<1>6. Used(d) = Used(c) \cup {a} /\ a \notin Used(c) /\ FreeOnes(d) = FreeOnes(c) \ {a} /\ a \in FreeOnes(c)
  BY <1>3, <1>5 DEF Used, FreeOnes
<1>7. /\ t.blocks_allocated = Cardinality(Used(d))
      /\ t.blocks_free = Cardinality(FreeOnes(d))
  <2>1. IsFiniteSet(FreeOnes(c)) /\ IsFiniteSet(Used(c))
    BY <1>3, BlocksFinite DEF Shape, c
  <2>2. Cardinality(Used(d)) = Cardinality(Used(c)) + 1
    BY <1>6, <2>1, AddedOne
  <2>3. Cardinality(FreeOnes(d)) = Cardinality(FreeOnes(c)) - 1
    BY <1>6, <2>1, TakenOne
  <2> QED
    BY <1>3, <1>4, <2>2, <2>3 DEF Shape, c
<1>8. t.free_size \in 0 .. WordSize - 1
  <2>1. s.free_size - (size + Header) \in Int
    BY <1>3, Numbers DEF Shape
  <2> QED
    BY <2>1, <1>4, ModRange
<1>9. Shape(t)
  BY <1>4, <1>5, <1>7, <1>8 DEF Shape, d
<1>10. Used(c) = Used(b) /\ \A x \in Used(b) : c[x].size = b[x].size
  <2>1. CASE s = h
    BY <2>1 DEF b, c
  <2>2. CASE s # h
    BY <1>1, <1>3, <2>2 DEF Used, b, CutAt
  <2> QED
    BY <2>1, <2>2
<1>11. Compact(d)
  <2> SUFFICES ASSUME NEW x \in DOMAIN d, NEW y \in DOMAIN d, d[x].next = y, d[x].free, d[y].free
               PROVE  FALSE
    BY DEF Compact
  <2>1. x # a /\ y # a /\ x \in DOMAIN c /\ y \in DOMAIN c /\ c[x].next = y /\ c[x].free /\ c[y].free
    BY <1>5
  <2>2. CASE s = h
    BY <2>1, <2>2 DEF Compact, b, c
  <2>3. CASE s # h
    <3>0. CutAt(b, a, size, new, c) /\ a \in DOMAIN b /\ b[a].free
      BY <1>1, <2>3 DEF b
    <3>1. y # new
      <4>1. Tiled(c) /\ c[a].next = new /\ new \in DOMAIN c
        BY <1>3, <3>0 DEF Shape, c, CutAt
      <4>2. \A z \in DOMAIN c : c[z].next = new => z = a
        BY <1>3, <4>1, LinksAgree
      <4> QED
        BY <2>1, <4>2
    <3>2. y \in DOMAIN b /\ b[y].free
      BY <3>0, <3>1, <2>1 DEF CutAt
    <3>3. CASE x = new
      <4>1. b[a].next = y
        BY <3>0, <3>3, <2>1 DEF CutAt
      <4> QED
        BY <3>0, <3>2, <4>1 DEF Compact, b
    <3>4. CASE x # new
      <4>1. x \in DOMAIN b /\ b[x].next = y /\ b[x].free
        BY <3>0, <3>4, <2>1 DEF CutAt
      <4> QED
        BY <3>2, <4>1 DEF Compact, b
    <3> QED
      BY <3>3, <3>4
  <2> QED
    BY <2>2, <2>3
<1>12. \A x \in Used(b) : d[x].size = b[x].size
  BY <1>5, <1>10 DEF Used
<1> QED
  BY <1>3, <1>5, <1>6, <1>9, <1>10, <1>11, <1>12 DEF b, d, t

-----------------------------------------------------------------------------
SameUsed(b, d) == Used(d) = Used(b) /\ \A x \in Used(b) : d[x].size = b[x].size

JoinIn(h, a, n) == [h EXCEPT !.block = Joined(h.block, a, n), !.blocks_free = @ - 1]

LEMMA JoinShape ==
  ASSUME NEW h, Shape(h), NEW a \in DOMAIN h.block, NEW n \in DOMAIN h.block,
         h.block[a].next = n, h.block[a].free, h.block[n].free
  PROVE  /\ Shape(JoinIn(h, a, n)) /\ SameUsed(h.block, JoinIn(h, a, n).block)
         /\ JoinedAs(h.block, a, n, JoinIn(h, a, n).block)
<1> DEFINE j == JoinIn(h, a, n)
           b == h.block
           m == Joined(b, a, n)
<1>1. /\ Tiled(b) /\ a \in DOMAIN b /\ n \in DOMAIN b /\ b[a].next = n
      /\ b[a].free /\ b[n].free
  BY DEF Shape
<1>2. Tiled(m) /\ JoinedAs(b, a, n, m)
  BY <1>1, JoinedTiled
<1>3. /\ HeapRec(j) /\ j.block = m /\ j.blocks_free = h.blocks_free - 1
      /\ j.blocks_allocated = h.blocks_allocated /\ j.free_size = h.free_size
  <2> HIDE DEF b, m
  <2>1. HeapRec(h) /\ j = [h EXCEPT !.block = m, !.blocks_free = @ - 1]
    BY DEF JoinIn, Shape, m, b
  <2> HIDE DEF j
  <2> QED
    BY <2>1 DEF HeapRec
<1> HIDE DEF j, m, b
<1>4. SameUsed(b, m) /\ FreeOnes(m) = FreeOnes(b) \ {n} /\ n \in FreeOnes(b)
  BY <1>1, <1>2 DEF SameUsed, JoinedAs, Used, FreeOnes
<1>5. Cardinality(FreeOnes(m)) = Cardinality(FreeOnes(b)) - 1
  <2>1. IsFiniteSet(FreeOnes(b))
    BY <1>1, BlocksFinite
  <2>2. \A x : x \in FreeOnes(b) => Cardinality(FreeOnes(b) \ {x}) = Cardinality(FreeOnes(b)) - 1
    BY <2>1, FS_RemoveElement
  <2> QED
    BY <1>4, <2>2
<1>6. Shape(j)
  BY <1>2, <1>3, <1>4, <1>5 DEF Shape, SameUsed, b
<1> QED
  BY <1>2, <1>3, <1>4, <1>6 DEF j, b

(* merge_free_blocks, first half: afterwards what follows is not free.     *)
LEMMA MergeNextKeeps ==
  ASSUME NEW h, Shape(h), NEW a \in DOMAIN h.block, h.block[a].free, CompactBut(h.block, a)
  PROVE  LET m == MergeNext(h, a) IN
         /\ Shape(m) /\ SameUsed(h.block, m.block)
         /\ a \in DOMAIN m.block /\ m.block[a].free /\ CompactBut(m.block, a)
         /\ \A y \in DOMAIN m.block : m.block[a].next = y => ~ m.block[y].free
<1> DEFINE n == h.block[a].next
           m == MergeNext(h, a)
<1>0. Tiled(h.block) /\ 0 \notin DOMAIN h.block /\ n \in DOMAIN h.block \cup {NULL} /\ NULL = 0
  BY BlockFacts, Numbers DEF Shape, Tiled, Linked
<1>1. CASE n = NULL \/ ~ h.block[n].free
  <2>1. m = h
    BY <1>1 DEF MergeNext
  <2> QED
    BY <2>1, <1>0, <1>1 DEF SameUsed
<1>2. CASE ~ (n = NULL \/ ~ h.block[n].free)
  <2>1. n \in DOMAIN h.block /\ h.block[n].free
    BY <1>0, <1>2
  <2>2. m = JoinIn(h, a, n)
    BY <1>2 DEF MergeNext, JoinIn, Joined
  <2> HIDE DEF m
  <2>3. Shape(m) /\ SameUsed(h.block, m.block) /\ JoinedAs(h.block, a, n, m.block)
    BY <2>1, <2>2, JoinShape
  <2>4. a \in DOMAIN m.block /\ m.block[a].free
    BY <2>3 DEF JoinedAs
  <2>5. \A y \in DOMAIN m.block : m.block[a].next = y => ~ m.block[y].free
    <3> SUFFICES ASSUME NEW y \in DOMAIN m.block, m.block[a].next = y, m.block[y].free PROVE FALSE
      OBVIOUS
    <3>1. y \in DOMAIN h.block /\ y # n /\ h.block[n].next = y
      BY <2>3 DEF JoinedAs
    <3>2. y # a
      BY <2>3, <2>4, LinksAgree DEF Shape
    <3>3. h.block[y].free /\ n # a
      BY <2>3, <3>1, <3>2 DEF JoinedAs
    <3> QED
      BY <2>1, <3>1, <3>2, <3>3 DEF CompactBut
  <2>6. CompactBut(m.block, a)
    BY <2>3 DEF CompactBut, JoinedAs
  <2> QED
    BY <2>3, <2>4, <2>5, <2>6 DEF m
<1> QED
  BY <1>1, <1>2

(* Its second half: afterwards nothing free is side by side.               *)
LEMMA MergePrevKeeps ==
  ASSUME NEW h, Shape(h), NEW a \in DOMAIN h.block, h.block[a].free, CompactBut(h.block, a),
         \A y \in DOMAIN h.block : h.block[a].next = y => ~ h.block[y].free
  PROVE  /\ Shape(MergePrev(h, a)) /\ SameUsed(h.block, MergePrev(h, a).block)
         /\ Compact(MergePrev(h, a).block)
<1> DEFINE p == h.block[a].prev
           m == MergePrev(h, a)
<1>0. /\ Tiled(h.block) /\ 0 \notin DOMAIN h.block /\ p \in DOMAIN h.block \cup {NULL} /\ NULL = 0
      /\ \A x \in DOMAIN h.block : h.block[x].next = a <=> x = p
  <2>1. Tiled(h.block) /\ 0 \notin DOMAIN h.block /\ NULL = 0
    BY BlockFacts, Numbers DEF Shape
  <2>2. p \in DOMAIN h.block \cup {NULL}
    BY <2>1 DEF Tiled, BackLinked
  <2> QED
    BY <2>1, <2>2, LinksAgree
<1>1. CASE p = NULL \/ ~ h.block[p].free
  <2>1. m = h
    BY <1>1 DEF MergePrev
  <2>2. Compact(h.block)
    BY <1>0, <1>1 DEF Compact, CompactBut
  <2> QED
    BY <2>1, <2>2, <1>0 DEF SameUsed
<1>2. CASE ~ (p = NULL \/ ~ h.block[p].free)
  <2>1. p \in DOMAIN h.block /\ h.block[p].free /\ h.block[p].next = a
    BY <1>0, <1>2
  <2>2. m = JoinIn(h, p, a)
    BY <1>2 DEF MergePrev, JoinIn, Joined
  <2> HIDE DEF m, p
  <2>3. Shape(m) /\ SameUsed(h.block, m.block) /\ JoinedAs(h.block, p, a, m.block)
    BY <2>1, <2>2, JoinShape
  <2>4. Compact(m.block)
    <3> SUFFICES ASSUME NEW x \in DOMAIN m.block, NEW y \in DOMAIN m.block,
                        m.block[x].next = y, m.block[x].free, m.block[y].free
                 PROVE  FALSE
      BY DEF Compact
    <3>0. /\ x \in DOMAIN h.block /\ y \in DOMAIN h.block /\ x # a /\ y # a
          /\ h.block[x].free /\ h.block[y].free
      BY <2>1, <2>3 DEF JoinedAs
    <3>1. CASE x = p
      BY <3>0, <3>1, <2>3 DEF JoinedAs
    <3>2. CASE x # p
      BY <3>0, <3>2, <2>3 DEF JoinedAs, CompactBut
    <3> QED
      BY <3>1, <3>2
  <2> QED
    BY <2>3, <2>4 DEF m
<1> QED
  BY <1>1, <1>2

(* heap_free before it merges: the flag and the counters. *)
Freed(h, a) ==
    [h EXCEPT !.block[a].free    = TRUE,
              !.blocks_allocated = @ - 1,
              !.blocks_free      = @ + 1,
              !.free_size        = (@ + h.block[a].size + Header) % WordSize]

(* c is b with the block at a free. *)
FreedAs(b, a, c) ==
    /\ DOMAIN c = DOMAIN b /\ c[a].free = TRUE
    /\ \A x \in DOMAIN b : /\ c[x].size = b[x].size /\ c[x].next = b[x].next
                           /\ x # a => c[x] = b[x]
    /\ Used(c) = Used(b) \ {a} /\ FreeOnes(c) = FreeOnes(b) \cup {a} /\ a \notin FreeOnes(b)

LEMMA FreedShape ==
  ASSUME NEW h, Shape(h), Compact(h.block), NEW a \in Used(h.block)
  PROVE  LET f == Freed(h, a) IN
         /\ Shape(f) /\ CompactBut(f.block, a) /\ FreedAs(h.block, a, f.block)
         /\ f.blocks_free = h.blocks_free + 1
         /\ f.free_size = (h.free_size + h.block[a].size + Header) % WordSize
<1> DEFINE f == Freed(h, a)
           b == h.block
           c == f.block
<1>1. a \in DOMAIN b /\ ~ b[a].free /\ Tiled(b) /\ b[a].size \in Nat
  BY BlockFacts DEF Used, Shape
<1>2. /\ HeapRec(f) /\ c = [b EXCEPT ![a].free = TRUE]
      /\ f.blocks_allocated = h.blocks_allocated - 1 /\ f.blocks_free = h.blocks_free + 1
      /\ f.free_size = (h.free_size + b[a].size + Header) % WordSize
  <2> HIDE DEF b
  <2>1. HeapRec(h)
    BY DEF Shape
  <2>2. f = [h EXCEPT !.block = [b EXCEPT ![a].free = TRUE], !.blocks_allocated = @ - 1,
                      !.blocks_free = @ + 1, !.free_size = (@ + b[a].size + Header) % WordSize]
    BY <2>1 DEF Freed, HeapRec, b
  <2> HIDE DEF f
  <2> QED
    BY <2>1, <2>2 DEF HeapRec
<1> HIDE DEF f, b, c
<1>3. /\ Tiled(c) /\ DOMAIN c = DOMAIN b /\ c[a].free = TRUE
      /\ \A x \in DOMAIN b : /\ c[x].size = b[x].size /\ c[x].next = b[x].next
                             /\ x # a => c[x] = b[x]
  BY <1>1, <1>2, FlagTiled
<1>4. Used(c) = Used(b) \ {a} /\ a \in Used(b) /\ FreeOnes(c) = FreeOnes(b) \cup {a} /\ a \notin FreeOnes(b)
  BY <1>1, <1>3 DEF Used, FreeOnes
<1>5. /\ f.blocks_allocated = Cardinality(Used(c))
      /\ f.blocks_free = Cardinality(FreeOnes(c))
  <2>1. IsFiniteSet(FreeOnes(b)) /\ IsFiniteSet(Used(b))
    BY <1>1, BlocksFinite
  <2>2. Cardinality(Used(c)) = Cardinality(Used(b)) - 1
    BY <1>4, <2>1, TakenOne
  <2>3. Cardinality(FreeOnes(c)) = Cardinality(FreeOnes(b)) + 1
    BY <1>4, <2>1, AddedOne
  <2> QED
    BY <1>2, <2>2, <2>3 DEF Shape, b
<1>6. f.free_size \in 0 .. WordSize - 1
  <2>1. h.free_size + b[a].size + Header \in Int
    BY <1>1, Numbers DEF Shape
  <2> QED
    BY <2>1, <1>2, ModRange
<1>7. Shape(f)
  BY <1>2, <1>3, <1>5, <1>6 DEF Shape, c
<1>8. CompactBut(c, a)
  BY <1>3 DEF Compact, CompactBut, b
<1>9. FreedAs(b, a, c)
  BY <1>3, <1>4 DEF FreedAs
<1> QED
  BY <1>2, <1>7, <1>8, <1>9 DEF f, b, c

(* heap_free of a block in use. *)
LEMMA GiveShape ==
  ASSUME NEW h, Shape(h), Compact(h.block), NEW a \in Used(h.block)
  PROVE  LET g == Give(h, a) IN
         /\ Shape(g) /\ Compact(g.block)
         /\ Used(g.block) = Used(h.block) \ {a}
         /\ \A x \in Used(h.block) \ {a} : g.block[x].size = h.block[x].size
<1> DEFINE f == Freed(h, a)
           b == h.block
           c == f.block
           m == MergeNext(f, a)
           g == MergePrev(m, a)
<1>1. g = Give(h, a)
  BY DEF Give, Freed
<1>2. Shape(f) /\ CompactBut(c, a) /\ FreedAs(b, a, c) /\ a \in DOMAIN b
  BY FreedShape DEF Used
<1> HIDE DEF f, b, c, m, g
<1>3. /\ Shape(m) /\ SameUsed(c, m.block)
      /\ a \in DOMAIN m.block /\ m.block[a].free /\ CompactBut(m.block, a)
      /\ \A y \in DOMAIN m.block : m.block[a].next = y => ~ m.block[y].free
  BY <1>2, MergeNextKeeps DEF FreedAs, c, m
<1>4. Shape(g) /\ SameUsed(m.block, g.block) /\ Compact(g.block)
  BY <1>3, MergePrevKeeps DEF g
<1>5. Used(g.block) = Used(b) \ {a} /\ \A x \in Used(b) \ {a} : g.block[x].size = b[x].size
  <2>1. \A x \in Used(b) : x \in DOMAIN b
    BY DEF Used
  <2> QED
    BY <2>1, <1>2, <1>3, <1>4 DEF SameUsed, FreedAs
<1> QED
  BY <1>1, <1>4, <1>5 DEF b

-----------------------------------------------------------------------------
(* What a call chooses: the size it rounds to and the block it takes.      *)
LEMMA RoundedHolds ==
  ASSUME NEW size \in Nat
  PROVE  /\ Rounded(size) \in Nat
         /\ \A room \in Nat : room >= Rounded(size) => RoomFor(size, room)
<1> DEFINE up == ((size + 7) \div 8) * 8
           r  == up % WordSize
<1>0. up \in Nat /\ up >= size /\ up <= size + 7
  <2>1. /\ (size + 7) \div 8 \in Nat /\ size + 7 < 8 * ((size + 7) \div 8) + 8
        /\ 8 * ((size + 7) \div 8) <= size + 7
    BY SMTT(30)
  <2> QED
    BY <2>1
<1> HIDE DEF up
<1>1. r \in Nat /\ (size <= WordSize - 8 => r >= size)
  <2>1. r \in Nat
    BY <1>0, ModRange, Numbers
  <2>2. ASSUME size <= WordSize - 8 PROVE r = up
    BY <1>0, <2>2, SmallMod, Numbers
  <2> QED
    BY <1>0, <2>1, <2>2
<1>2. AlignUp(size, 8) = r
  BY DEF AlignUp, up
<1> HIDE DEF r
<1>3. PICK m \in {r, 32} : \A y \in {r, 32} : m >= y
  BY <1>1
<1>4. Max({r, 32}) \in {r, 32} /\ \A y \in {r, 32} : Max({r, 32}) >= y
  BY <1>3 DEF Max
<1>5. Rounded(size) = Max({r, 32})
  BY <1>2 DEF Rounded, MIN_ALLOC_SIZE
<1>6. Rounded(size) \in Nat /\ Rounded(size) >= 32 /\ Rounded(size) >= r
  BY <1>1, <1>4, <1>5
<1> QED
  BY <1>1, <1>6, Numbers DEF RoomFor, MIN_ALLOC_SIZE

LEMMA LeastNat ==
  ASSUME NEW S, S \subseteq Nat, S # {}
  PROVE  \E m \in S : \A j \in S : m <= j
<1> DEFINE R == {ss \in Nat \X Nat : ss[1] < ss[2]}
<1>1. IsWellFoundedOn(R, Nat)
  <2>1. R = OpToRel(<, Nat)
    BY DEF OpToRel
  <2> QED
    BY <2>1, NatLessThanWellFounded
<1>2. PICK m \in S : \A j \in S : ~ (<<j, m>> \in R)
  <2> HIDE DEF R
  <2> QED
    BY <1>1, WFMin
<1>3. ASSUME NEW j \in S PROVE m <= j
  <2>1. j \in Nat /\ m \in Nat
    OBVIOUS
  <2>2. <<j, m>> \in Nat \X Nat /\ <<j, m>>[1] = j /\ <<j, m>>[2] = m
    BY <2>1
  <2>3. ~ (j < m)
    BY <1>2, <2>2
  <2> QED
    BY <2>1, <2>3
<1> QED
  BY <1>3

(* find_best_fit finds a free block that is large enough when there is one. *)
LEMMA BestFits ==
  ASSUME NEW h, Shape(h), NEW size \in Nat, Fitting(h, size) # {}
  PROVE  /\ BestFit(h, size) \in DOMAIN h.block /\ h.block[BestFit(h, size)].free
         /\ size <= h.block[BestFit(h, size)].size
<1> DEFINE F == Fitting(h, size)
           b == h.block
<1>1. \A a \in F : a \in DOMAIN b /\ a \in Nat /\ b[a].size \in Nat /\ b[a].free /\ size <= b[a].size
  BY BlockFacts DEF Fitting, Blocks, Shape
<1>2. PICK s \in {b[a].size : a \in F} : \A z \in {b[a].size : a \in F} : s <= z
  <2> DEFINE S == {b[a].size : a \in F}
  <2>1. S \subseteq Nat /\ S # {}
    BY <1>1
  <2> HIDE DEF S
  <2>2. \E m \in S : \A j \in S : m <= j
    BY <2>1, LeastNat
  <2> QED
    BY <2>2 DEF S
<1>3. PICK m \in {a \in F : b[a].size = s} : \A j \in {a \in F : b[a].size = s} : m <= j
  <2> DEFINE S == {a \in F : b[a].size = s}
  <2>1. S \subseteq Nat /\ S # {}
    BY <1>1, <1>2
  <2> HIDE DEF S
  <2>2. \E i \in S : \A j \in S : i <= j
    BY <2>1, LeastNat
  <2> QED
    BY <2>2 DEF S
<1>4. m \in F /\ \A c \in F : b[m].size < b[c].size \/ (b[m].size = b[c].size /\ m <= c)
  <2> HIDE DEF F, b
  <2>1. m \in F /\ b[m].size = s
    BY <1>3
  <2>2. ASSUME NEW c \in F PROVE b[m].size < b[c].size \/ (b[m].size = b[c].size /\ m <= c)
    <3>1. s <= b[c].size /\ b[c].size \in Nat /\ s \in Nat
      BY <1>1, <1>2, <2>1
    <3>2. CASE b[c].size = s
      BY <1>3, <2>1, <3>2
    <3>3. CASE b[c].size # s
      BY <2>1, <3>1, <3>3
    <3> QED
      BY <3>2, <3>3
  <2> QED
    BY <2>1, <2>2
<1>5. BestFit(h, size) \in F
  BY <1>4 DEF BestFit
<1> QED
  BY <1>1, <1>5

-----------------------------------------------------------------------------
(* The inductive invariant: until a split wraps, the list has its shape,   *)
(* no two free blocks are side by side, and the pointers held are those of *)
(* the allocated blocks, which have the room; afterwards the types.        *)
Holders(b, held) == /\ DOMAIN held = {a + Header : a \in Used(b)}
                    /\ \A a \in Used(b) : RoomFor(held[a + Header], b[a].size)

Good(h, held) == Shape(h) /\ Compact(h.block) /\ Holders(h.block, held)

TypedHeaders(b) == DOMAIN b \subseteq Addresses /\ \A a \in DOMAIN b : b[a] \in BlockHeader

HeapTypes(h) ==
    /\ TypedHeaders(h.block)
    /\ h.blocks_allocated \in Nat /\ h.blocks_free \in Nat
    /\ h.free_size \in 0 .. WordSize - 1

HeapInv == IF wrapped THEN wrapped = TRUE /\ HeapTypes(heap) /\ DOMAIN asked \subseteq Nat
           ELSE wrapped = FALSE /\ Good(heap, asked)

(* A list of this shape has the types of the model. *)
LEMMA ShapeTypes ==
  ASSUME NEW h, Shape(h)
  PROVE  HeapTypes(h)
<1>1. ASSUME NEW a \in DOMAIN h.block
      PROVE  a \in Addresses /\ h.block[a] \in BlockHeader
  <2> DEFINE b == h.block
  <2>1. Tiled(b) /\ a \in DOMAIN b
    BY DEF Shape
  <2> HIDE DEF b
  <2>2. /\ a \in Nat /\ a >= heap_start /\ a <= heap_end - Header
        /\ b[a].size \in Nat /\ b[a].free \in BOOLEAN /\ EndOf(b, a) = a + 20 + b[a].size
        /\ EndOf(b, a) <= heap_end
        /\ b[a] = [size |-> b[a].size, free |-> b[a].free, next |-> b[a].next, prev |-> b[a].prev]
    BY <2>1, BlockFacts
  <2>3. a \in Addresses /\ \A x \in DOMAIN b : x \in Addresses
    BY <2>1, BlockFacts, Numbers DEF Addresses
  <2>4. b[a].next \in Addresses \cup {NULL} /\ b[a].prev \in Addresses \cup {NULL}
    BY <2>1, <2>3 DEF Tiled, Linked, BackLinked
  <2>5. b[a].size \in 0 .. WordSize - 1
    BY <2>2, Numbers
  <2> QED
    BY <2>2, <2>3, <2>4, <2>5 DEF BlockHeader, b
<1>2. h.blocks_allocated \in Nat /\ h.blocks_free \in Nat
  BY BlocksFinite DEF Shape
<1> QED
  BY <1>1, <1>2 DEF HeapTypes, TypedHeaders, Shape

(* Taking a block and giving one back, with the pointers.                  *)
LEMMA TakeGood ==
  ASSUME Good(heap, asked), NEW a \in DOMAIN heap.block, heap.block[a].free,
         NEW n \in Nat, NEW size \in Nat, \A room \in Nat : room >= size => RoomFor(n, room),
         size <= heap.block[a].size, ~ Wraps(heap, a, size)
  PROVE  /\ Good(Take(heap, a, size), Held(a + Header, n))
         /\ Used(Take(heap, a, size).block) = Used(heap.block) \cup {a}
<1> DEFINE t == Take(heap, a, size)
           b == heap.block
           d == t.block
           held == Held(a + Header, n)
<1>1. /\ Shape(t) /\ Compact(d)
      /\ Used(d) = Used(b) \cup {a} /\ a \notin Used(b) /\ d[a].size >= size
      /\ \A x \in Used(b) : d[x].size = b[x].size
  BY TakeShape DEF Good
<1>2. /\ DOMAIN asked = {x + Header : x \in Used(b)}
      /\ \A x \in Used(b) : RoomFor(asked[x + Header], b[x].size)
  BY DEF Good, Holders
<1>3. a \in Nat /\ d[a].size \in Nat /\ \A x \in Used(b) : x \in Nat
  <2>1. a \in DOMAIN d
    BY <1>1 DEF Used
  <2> QED
    BY <1>1, <2>1, BlockFacts DEF Good, Shape, Used
<1> HIDE DEF t, b, d
<1>4. DOMAIN held = {x + Header : x \in Used(d)}
  BY <1>1, <1>2 DEF Held
<1>5. ASSUME NEW x \in Used(d) PROVE RoomFor(held[x + Header], d[x].size)
  <2>1. CASE x = a
    BY <1>1, <1>3, <2>1 DEF Held
  <2>2. CASE x # a
    <3>1. x \in Used(b) /\ x + Header # a + Header /\ x + Header \in DOMAIN asked
      BY <1>1, <1>2, <1>3, <2>2 DEF Header
    <3>2. held[x + Header] = asked[x + Header]
      BY <3>1 DEF Held
    <3> QED
      BY <1>1, <1>2, <3>1, <3>2
  <2> QED
    BY <2>1, <2>2
<1> QED
  BY <1>1, <1>4, <1>5 DEF Good, Holders, t, b, d

LEMMA GiveGood ==
  ASSUME NEW h, NEW held, Good(h, held), NEW a \in Used(h.block)
  PROVE  Good(Give(h, a), Drop(held, a + Header))
<1> DEFINE g == Give(h, a)
           b == h.block
           d == g.block
           left == Drop(held, a + Header)
<1>1. /\ Shape(g) /\ Compact(d) /\ Used(d) = Used(b) \ {a}
      /\ \A x \in Used(b) \ {a} : d[x].size = b[x].size
  BY GiveShape DEF Good
<1>2. /\ DOMAIN held = {x + Header : x \in Used(b)}
      /\ \A x \in Used(b) : RoomFor(held[x + Header], b[x].size)
  BY DEF Good, Holders
<1>3. a \in Nat /\ \A x \in Used(b) : x \in Nat
  BY BlockFacts DEF Good, Shape, Used
<1> HIDE DEF g, b, d
<1>4. \A x \in Used(d) : x \in Used(b) /\ x + Header # a + Header
  BY <1>1, <1>3 DEF Header
<1>5. DOMAIN left = {x + Header : x \in Used(d)}
  BY <1>1, <1>2, <1>3, <1>4 DEF Drop, b
<1>6. ASSUME NEW x \in Used(d) PROVE RoomFor(left[x + Header], d[x].size)
  <2>1. x \in Used(b) \ {a} /\ x + Header # a + Header /\ x + Header \in DOMAIN held
    BY <1>1, <1>2, <1>4
  <2>2. left[x + Header] = held[x + Header]
    BY <2>1 DEF Drop
  <2> QED
    BY <1>1, <1>2, <2>1, <2>2
<1> QED
  BY <1>1, <1>5, <1>6 DEF Good, Holders, g, b, d, left

(* Taking a block keeps the types even when the subtraction wraps: the new *)
(* header still starts inside the heap. *)
LEMMA TakeTypes ==
  ASSUME NEW h, Shape(h), NEW a \in DOMAIN h.block, h.block[a].free,
         NEW size \in Nat, size <= h.block[a].size
  PROVE  HeapTypes(Take(h, a, size))
<1> DEFINE s == Split(h, a, size)
           t == Take(h, a, size)
           b == h.block
           new == a + Header + size
           after == b[a].next
           fresh == [size |-> Remaining(h, a, size), free |-> TRUE, next |-> after, prev |-> a]
           w1 == [x \in Blocks(h) \cup {new} |-> IF x = new THEN fresh ELSE b[x]]
           w2 == BackLink(w1, after, new)
           w3 == [w2 EXCEPT ![a].next = new, ![a].size = size]
<1>1. HeapTypes(h) /\ Tiled(b) /\ a \in DOMAIN b
  BY ShapeTypes DEF Shape
<1>2. /\ a \in Nat /\ a <= heap_end /\ EndOf(b, a) = a + 20 + b[a].size /\ EndOf(b, a) <= heap_end
      /\ a >= heap_start /\ b[a].size \in 0 .. WordSize - 1 /\ after \in DOMAIN b \cup {NULL}
  BY <1>1, BlockFacts, Numbers DEF Tiled, Linked, HeapTypes, TypedHeaders, BlockHeader
<1>3. new \in Addresses /\ a \in Addresses /\ Remaining(h, a, size) \in 0 .. WordSize - 1
  <2>1. b[a].size - size - Header \in Int
    BY <1>2, Numbers
  <2> QED
    BY <1>2, <2>1, ModRange, Numbers DEF Addresses, Remaining
<1>4. size \in 0 .. WordSize - 1
  BY <1>2, Numbers
<1>5. h.blocks_free \in Nat \ {0}
  <2>1. h.blocks_free = Cardinality(FreeOnes(b)) /\ a \in FreeOnes(b)
    BY DEF Shape, FreeOnes
  <2>2. IsFiniteSet(FreeOnes(b)) /\ Cardinality(FreeOnes(b)) \in Nat
    BY <1>1, BlocksFinite
  <2>3. Cardinality(FreeOnes(b)) # 0
    BY <2>1, <2>2, FS_EmptySet
  <2> QED
    BY <2>1, <2>2, <2>3
<1>6. DOMAIN b \subseteq Addresses /\ \A x \in DOMAIN b : b[x] \in BlockHeader
  BY <1>1 DEF HeapTypes, TypedHeaders
<1>7. TypedHeaders(w1) /\ DOMAIN w1 = DOMAIN b \cup {new}
  <2>1. fresh \in BlockHeader
    BY <1>2, <1>3, <1>6 DEF BlockHeader
  <2> HIDE DEF fresh
  <2> QED
    BY <1>3, <1>6, <2>1 DEF Blocks, TypedHeaders
<1>8. TypedHeaders(w2) /\ DOMAIN w2 = DOMAIN b \cup {new}
  <2> HIDE DEF w1
  <2> QED
    BY <1>2, <1>3, <1>7 DEF BackLink, BlockHeader, TypedHeaders
<1>9. TypedHeaders(w3) /\ DOMAIN w3 = DOMAIN b \cup {new}
  <2> HIDE DEF w2
  <2> QED
    BY <1>1, <1>3, <1>4, <1>8 DEF BlockHeader, TypedHeaders
<1> HIDE DEF b, w3
<1>10. /\ HeapRec(s) /\ TypedHeaders(s.block) /\ a \in DOMAIN s.block
       /\ s.blocks_free \in Nat \ {0} /\ s.blocks_allocated \in Nat /\ s.free_size \in 0 .. WordSize - 1
  <2>1. HeapRec(h) /\ h.blocks_allocated \in Nat /\ h.free_size \in 0 .. WordSize - 1 /\ h.block = b
    BY <1>1 DEF Shape, HeapTypes, b
  <2>2. CASE s = h
    BY <1>1, <1>5, <1>6, <2>1, <2>2 DEF TypedHeaders
  <2>3. CASE s = [h EXCEPT !.block = w3, !.blocks_free = @ + 1]
    <3> HIDE DEF s
    <3>1. s.block = w3 /\ s.blocks_free = h.blocks_free + 1 /\ s.blocks_allocated = h.blocks_allocated
          /\ s.free_size = h.free_size /\ HeapRec(s)
      BY <2>1, <2>3 DEF HeapRec
    <3> QED
      BY <1>1, <1>5, <1>9, <2>1, <3>1
  <2> QED
    BY <2>2, <2>3 DEF Split, w3, b
<1> HIDE DEF s
<1>11. t = [s EXCEPT !.block[a].free = FALSE, !.blocks_allocated = @ + 1,
                     !.blocks_free = @ - 1, !.free_size = (@ - (size + Header)) % WordSize]
  BY DEF Take, s
<1> HIDE DEF t
<1>12. /\ t.block = [s.block EXCEPT ![a].free = FALSE]
       /\ t.blocks_allocated = s.blocks_allocated + 1 /\ t.blocks_free = s.blocks_free - 1
       /\ t.free_size = (s.free_size - (size + Header)) % WordSize
  BY <1>10, <1>11 DEF HeapRec
<1>13. t.free_size \in 0 .. WordSize - 1
  <2>1. s.free_size - (size + Header) \in Int
    BY <1>10, Numbers
  <2> QED
    BY <2>1, <1>12, ModRange
<1>14. TypedHeaders(t.block)
  <2> DEFINE c == s.block
             d == t.block
  <2>1. TypedHeaders(c) /\ a \in DOMAIN c /\ d = [c EXCEPT ![a].free = FALSE]
    BY <1>10, <1>12
  <2> HIDE DEF c, d
  <2>2. c[a] \in BlockHeader
    BY <2>1 DEF TypedHeaders
  <2>3. [c[a] EXCEPT !.free = FALSE] \in BlockHeader
    BY <2>2 DEF BlockHeader
  <2>4. DOMAIN d = DOMAIN c /\ \A x \in DOMAIN c : d[x] = IF x = a THEN [c[a] EXCEPT !.free = FALSE] ELSE c[x]
    BY <2>1
  <2>5. TypedHeaders(d)
    BY <2>1, <2>3, <2>4 DEF TypedHeaders
  <2> QED
    BY <2>5 DEF d
<1> QED
  BY <1>10, <1>12, <1>13, <1>14 DEF HeapTypes, t

-----------------------------------------------------------------------------
(* Each call keeps the invariant. *)
LEMMA MallocStep ==
  ASSUME HeapInv, ~ wrapped, NEW size \in Nat, NEW overrun \in BOOLEAN, Mallocs(size, overrun)
  PROVE  HeapInv'
<1> DEFINE r == Rounded(size)
           a == BestFit(heap, r)
<1>1. Good(heap, asked) /\ Shape(heap)
  BY DEF HeapInv, Good
<1>2. r \in Nat /\ \A room \in Nat : room >= r => RoomFor(size, room)
  BY RoundedHolds
<1>3. Fitting(heap, r) # {}
  BY DEF Mallocs
<1>4. a \in DOMAIN heap.block /\ heap.block[a].free /\ r <= heap.block[a].size
  BY <1>1, <1>2, <1>3, BestFits
<1>5. heap' = Take(heap, a, r) /\ asked' = Held(a + Header, size) /\ wrapped' = (Wraps(heap, a, r) \/ overrun)
  BY DEF Mallocs
<1> HIDE DEF r, a
<1>6. CASE Wraps(heap, a, r) \/ overrun
  <2>1. HeapTypes(heap')
    BY <1>1, <1>2, <1>4, <1>5, TakeTypes
  <2>2. a + Header \in Nat /\ DOMAIN asked \subseteq Nat
    BY <1>1, <1>4, BlockFacts DEF Shape, Good, Holders, Used, Header
  <2>3. DOMAIN asked' \subseteq Nat
    BY <1>5, <2>2 DEF Held
  <2>4. wrapped' = TRUE
    BY <1>5, <1>6
  <2> QED
    BY <2>1, <2>3, <2>4 DEF HeapInv
<1>7. CASE ~ (Wraps(heap, a, r) \/ overrun)
  <2>1. Good(heap', asked')
    BY <1>1, <1>2, <1>4, <1>5, <1>7, TakeGood
  <2>2. wrapped' = FALSE
    BY <1>5, <1>7
  <2> QED
    BY <2>1, <2>2 DEF HeapInv
<1> QED
  BY <1>6, <1>7

LEMMA CallocStep ==
  ASSUME HeapInv, ~ wrapped, NEW size \in Nat, heap_calloc(2, size)
  PROVE  HeapInv'
<1> DEFINE total == (2 * size) % WordSize
<1>1. total \in Nat
  <2>1. 2 * size \in Int
    OBVIOUS
  <2> QED
    BY <2>1, ModRange, Numbers
<1> DEFINE overrun == Rounded(total) < total
<1>2. Mallocs(total, overrun) \/ UNCHANGED vars
  BY DEF heap_calloc, heap_malloc_fails
<1>3. CASE UNCHANGED vars
  BY <1>3 DEF HeapInv, vars
<1>4. overrun \in BOOLEAN
  OBVIOUS
<1> HIDE DEF overrun, total
<1> QED
  BY <1>1, <1>2, <1>3, <1>4, MallocStep

LEMMA FreeStep ==
  ASSUME HeapInv, ~ wrapped, NEW a \in Blocks(heap), heap_free(a)
  PROVE  HeapInv'
<1>1. CASE heap.block[a].free
  BY <1>1 DEF heap_free, HeapInv, vars
<1>2. CASE ~ heap.block[a].free
  <2>1. Good(heap, asked) /\ a \in Used(heap.block)
    BY <1>2 DEF HeapInv, Used, Blocks
  <2>2. heap' = Give(heap, a) /\ asked' = Drop(asked, a + Header) /\ wrapped' = wrapped
    BY <1>2 DEF heap_free
  <2>3. Good(heap', asked')
    BY <2>1, <2>2, GiveGood
  <2> QED
    BY <2>2, <2>3 DEF HeapInv
<1> QED
  BY <1>1, <1>2

LEMMA ReallocStep ==
  ASSUME HeapInv, ~ wrapped, NEW a \in Blocks(heap), NEW size \in Nat, heap_realloc(a, size)
  PROVE  HeapInv'
<1> DEFINE r == Rounded(size)
           n == BestFit(heap, r)
<1>1. Good(heap, asked) /\ Shape(heap) /\ wrapped = FALSE
  BY DEF HeapInv, Good
<1>2. r \in Nat /\ \A room \in Nat : room >= r => RoomFor(size, room)
  BY RoundedHolds
<1>3. CASE heap.block[a].free \/ size = 0
  BY <1>3, FreeStep DEF heap_realloc
<1>4. CASE ~ (heap.block[a].free \/ size = 0) /\ r <= heap.block[a].size
  <2>1. asked' = Held(a + Header, size) /\ heap' = heap /\ wrapped' = wrapped
    BY <1>4 DEF heap_realloc
  <2>2. Good(heap, Held(a + Header, size))
    <3> DEFINE b == heap.block
               held == Held(a + Header, size)
    <3>1. a \in Used(b) /\ \A x \in Used(b) : x \in Nat /\ b[x].size \in Nat
      BY <1>1, <1>4, BlockFacts DEF Shape, Used, Blocks
    <3>2. Holders(b, asked)
      BY <1>1 DEF Good
    <3>3. RoomFor(size, b[a].size)
      BY <1>2, <1>4, <3>1
    <3> HIDE DEF b
    <3>4. DOMAIN held = {x + Header : x \in Used(b)}
      BY <3>1, <3>2 DEF Holders, Held
    <3>5. ASSUME NEW x \in Used(b) PROVE RoomFor(held[x + Header], b[x].size)
      <4>1. CASE x = a
        BY <3>1, <3>3, <4>1 DEF Held
      <4>2. CASE x # a
        <5>1. x + Header # a + Header /\ x + Header \in DOMAIN asked
          BY <3>1, <3>2, <4>2 DEF Header, Holders
        <5> QED
          BY <3>2, <5>1 DEF Held, Holders
      <4> QED
        BY <4>1, <4>2
    <3> QED
      BY <1>1, <3>4, <3>5 DEF Good, Holders, b
  <2> QED
    BY <1>1, <2>1, <2>2 DEF HeapInv
<1>5. CASE ~ (heap.block[a].free \/ size = 0) /\ ~ (r <= heap.block[a].size)
  <2>1. CASE Fitting(heap, r) = {}
    BY <1>5, <2>1 DEF heap_realloc, HeapInv, vars
  <2>2. CASE Fitting(heap, r) # {}
    <3>1. n \in DOMAIN heap.block /\ heap.block[n].free /\ r <= heap.block[n].size
      BY <1>1, <1>2, <2>2, BestFits
    <3>2. /\ heap' = IF Wraps(heap, n, r) THEN Take(heap, n, r) ELSE Give(Take(heap, n, r), a)
          /\ asked' = Drop(Held(n + Header, size), a + Header)
          /\ wrapped' = Wraps(heap, n, r)
      BY <1>5, <2>2 DEF heap_realloc
    <3> HIDE DEF r, n
    <3>3. CASE Wraps(heap, n, r)
      <4>1. HeapTypes(heap')
        BY <1>1, <1>2, <3>1, <3>2, <3>3, TakeTypes
      <4>2. n + Header \in Nat /\ DOMAIN asked \subseteq Nat
        BY <1>1, <3>1, BlockFacts DEF Shape, Good, Holders, Used, Header
      <4>3. DOMAIN asked' \subseteq Nat
        BY <3>2, <4>2 DEF Held, Drop
      <4>4. wrapped' = TRUE
        BY <3>2, <3>3
      <4> QED
        BY <4>1, <4>3, <4>4 DEF HeapInv
    <3>4. CASE ~ Wraps(heap, n, r)
      <4> DEFINE t == Take(heap, n, r)
                 held == Held(n + Header, size)
      <4>1. Good(t, held) /\ Used(t.block) = Used(heap.block) \cup {n}
        BY <1>1, <1>2, <3>1, <3>4, TakeGood
      <4>2. a \in Used(t.block)
        BY <1>5, <4>1 DEF Used, Blocks
      <4> HIDE DEF t, held
      <4>3. Good(Give(t, a), Drop(held, a + Header))
        BY <4>1, <4>2, GiveGood
      <4>4. heap' = Give(t, a) /\ asked' = Drop(held, a + Header) /\ wrapped' = FALSE
        BY <3>2, <3>4 DEF t, held
      <4> QED
        BY <4>3, <4>4 DEF HeapInv
    <3> QED
      BY <3>3, <3>4
  <2> QED
    BY <2>1, <2>2
<1> QED
  BY <1>3, <1>4, <1>5

LEMMA HeapInvInit == Init => HeapInv
<1> SUFFICES ASSUME Init PROVE HeapInv
  OBVIOUS
<1> DEFINE b == heap.block
<1>1. /\ b = [a \in {heap_start} |-> [size |-> total_size - Header, free |-> TRUE,
                                      next |-> NULL, prev |-> NULL]]
      /\ HeapRec(heap) /\ heap.blocks_allocated = 0 /\ heap.blocks_free = 1
      /\ heap.free_size = total_size - Header
      /\ asked = [p \in {} |-> 0] /\ wrapped = FALSE
  BY DEF Init, HeapRec
<1> HIDE DEF b
<1>2. /\ DOMAIN b = {heap_start} /\ b[heap_start].size = total_size - Header
      /\ b[heap_start].free = TRUE /\ b[heap_start].next = NULL /\ b[heap_start].prev = NULL
  BY <1>1
<1>3. Tiled(b)
  <2>1. total_size - Header \in Nat
    BY Numbers
  <2>2. Typed(b)
    BY <1>1, <2>1, Numbers DEF Typed
  <2>3. EndOf(b, heap_start) = heap_end
    BY <1>2, Numbers DEF EndOf
  <2>4. heap_start \in heap_start .. heap_end - Header
    BY Numbers
  <2> QED
    BY <1>2, <2>2, <2>3, <2>4, Numbers DEF Tiled, Linked, BackLinked, Apart
<1>4. Used(b) = {} /\ FreeOnes(b) = {heap_start}
  BY <1>2 DEF Used, FreeOnes
<1>5. heap.free_size \in 0 .. WordSize - 1
  BY <1>1, Numbers
<1>6. Shape(heap)
  BY <1>1, <1>3, <1>4, <1>5, FS_EmptySet, FS_Singleton DEF Shape, b
<1>7. Compact(b)
  BY <1>2, Numbers DEF Compact
<1>8. Holders(b, asked)
  BY <1>1, <1>4 DEF Holders
<1> QED
  BY <1>1, <1>6, <1>7, <1>8 DEF HeapInv, Good, b

LEMMA HeapInvInductive == HeapInv /\ [Next]_vars => HeapInv'
<1> SUFFICES ASSUME HeapInv, [Next]_vars PROVE HeapInv'
  OBVIOUS
<1>0. Requests \cup {0} \subseteq Nat
  BY HeapSizeAssumption
<1>1. CASE Next
  <2>0. ~ wrapped
    BY <1>1 DEF Next
  <2>1. CASE \E size \in Requests \cup {0} : heap_malloc(size)
    BY <1>0, <2>0, <2>1, MallocStep DEF heap_malloc
  <2>2. CASE \E size \in Requests \cup {0} : heap_malloc_fails(size)
    BY <2>2 DEF heap_malloc_fails, HeapInv, vars
  <2>3. CASE \E size \in Requests \cup {0} : heap_calloc(2, size)
    BY <1>0, <2>0, <2>3, CallocStep
  <2>4. CASE \E a \in Blocks(heap) : heap_free(a)
    BY <2>0, <2>4, FreeStep
  <2>5. CASE \E a \in Blocks(heap), size \in Requests \cup {0} : heap_realloc(a, size)
    BY <1>0, <2>0, <2>5, ReallocStep
  <2> QED
    BY <1>1, <2>1, <2>2, <2>3, <2>4, <2>5 DEF Next
<1>2. CASE UNCHANGED vars
  BY <1>2 DEF HeapInv, vars
<1> QED
  BY <1>1, <1>2

LEMMA HeapInvAlways == Spec => []HeapInv
<1> QED
  BY HeapInvInit, HeapInvInductive, PTL DEF Spec

(* Splits and merges in any order leave the list tiling the heap, with its *)
(* links agreeing in both directions, as long as no size has wrapped: no   *)
(* byte is lost by heap_malloc, heap_free or heap_realloc, and none is     *)
(* given out twice. *)
THEOREM ListTiles == Spec => []BlocksTile
<1>1. HeapInv => BlocksTile
  <2> SUFFICES ASSUME HeapInv PROVE BlocksTile
    OBVIOUS
  <2>1. CASE wrapped
    BY <2>1 DEF HeapInv, BlocksTile, TypeOK, HeapTypes, TypedHeaders, Blocks
  <2>2. CASE ~ wrapped
    <3> DEFINE b == heap.block
    <3>1. Shape(heap) /\ Tiled(b) /\ Holders(b, asked) /\ wrapped = FALSE
      BY <2>2 DEF HeapInv, Good, Shape
    <3>2. TypeOK
      <4>1. HeapTypes(heap)
        BY <3>1, ShapeTypes
      <4>2. DOMAIN asked \subseteq Nat
        BY <3>1, BlockFacts DEF Holders, Used, Header
      <4> QED
        BY <3>1, <4>1, <4>2 DEF TypeOK, HeapTypes, TypedHeaders, Blocks
    <3> HIDE DEF b
    <3>3. heap_start \in DOMAIN b /\ b[heap_start].prev = NULL
      BY <3>1 DEF Tiled, BackLinked
    <3>4. ASSUME NEW a \in DOMAIN b
          PROVE  IF b[a].next = NULL THEN EndOf(b, a) = heap_end
                 ELSE /\ b[a].next = EndOf(b, a) /\ EndOf(b, a) \in DOMAIN b
                      /\ b[EndOf(b, a)].prev = a
      <4>1. CASE b[a].next = NULL
        <5>1. NULL \notin DOMAIN b
          BY <3>1, BlockFacts, Numbers
        <5> QED
          BY <3>1, <4>1, <5>1 DEF Tiled, Linked
      <4>2. CASE b[a].next # NULL
        <5>1. b[a].next = EndOf(b, a) /\ b[a].next \in DOMAIN b
          BY <3>1, <4>2 DEF Tiled, Linked
        <5> QED
          BY <3>1, <4>2, <5>1, LinksAgree
      <4> QED
        BY <4>1, <4>2
    <3>5. \A a \in DOMAIN b \ {heap_start} : \E c \in DOMAIN b : b[c].next = a
      BY <3>1 DEF Tiled, BackLinked
    <3> QED
      BY <2>2, <3>2, <3>3, <3>4, <3>5 DEF BlocksTile, Blocks, End, EndOf, b
  <2> QED
    BY <2>1, <2>2
<1> QED
  BY <1>1, HeapInvAlways, PTL

(* Merging only when a block is freed, with the block after and then with  *)
(* the one before, is enough to keep any two free blocks apart: split_block *)
(* leaves its rest before a block that is allocated. *)
THEOREM FreeBlocksApart == Spec => []Coalesced
<1>1. HeapInv => Coalesced
  <2> SUFFICES ASSUME HeapInv, ~ wrapped, NEW a \in Blocks(heap), heap.block[a].next # NULL
               PROVE  ~ (heap.block[a].free /\ heap.block[heap.block[a].next].free)
    BY DEF Coalesced
  <2>1. Shape(heap) /\ Compact(heap.block) /\ a \in DOMAIN heap.block
    BY DEF HeapInv, Good, Blocks
  <2>2. heap.block[a].next \in DOMAIN heap.block
    BY <2>1 DEF Shape, Tiled, Linked
  <2> QED
    BY <2>1, <2>2 DEF Compact
<1> QED
  BY <1>1, HeapInvAlways, PTL

(* The pointers held are those of the allocated blocks, and                *)
(* blocks_allocated and blocks_free count them: so heap_free refuses a     *)
(* pointer exactly when it is given back twice.  Whatever word is asked    *)
(* for, the block holds it, unless it is one of the last seven, which      *)
(* heap.c:139 rounds to 0: of those only that the block is of the minimal  *)
(* size.                                                                   *)
THEOREM PointersAlwaysValid == Spec => []PointersValid
<1>1. HeapInv => PointersValid
  <2> SUFFICES ASSUME HeapInv, ~ wrapped
               PROVE  /\ DOMAIN asked = {a + Header : a \in {b \in Blocks(heap) : ~ heap.block[b].free}}
                      /\ \A p \in DOMAIN asked : RoomFor(asked[p], heap.block[p - Header].size)
                      /\ heap.blocks_allocated = Cardinality(DOMAIN asked)
                      /\ heap.blocks_free = Cardinality(Blocks(heap)) - Cardinality(DOMAIN asked)
    BY DEF PointersValid
  <2> DEFINE b == heap.block
             U == Used(b)
  <2>1. Shape(heap) /\ Tiled(b) /\ Holders(b, asked)
    BY DEF HeapInv, Good, Shape
  <2>2. \A a \in U : a \in Nat
    BY <2>1, BlockFacts DEF Used
  <2>3. DOMAIN asked = {a + Header : a \in U}
    BY <2>1 DEF Holders
  <2>4. \A p \in DOMAIN asked : RoomFor(asked[p], b[p - Header].size)
    <3> SUFFICES ASSUME NEW p \in DOMAIN asked PROVE RoomFor(asked[p], b[p - Header].size)
      OBVIOUS
    <3>1. PICK a \in U : p = a + Header
      BY <2>3
    <3>2. p - Header = a
      BY <2>2, <3>1 DEF Header
    <3> QED
      BY <2>1, <3>1, <3>2 DEF Holders
  <2>5. IsFiniteSet(U) /\ IsFiniteSet(DOMAIN b) /\ IsFiniteSet(FreeOnes(b))
    BY <2>1, BlocksFinite
  <2>6. Cardinality(DOMAIN asked) = Cardinality(U)
    <3> DEFINE f == [a \in U |-> a + Header]
    <3> HIDE DEF U
    <3>1. f \in Bijection(U, DOMAIN asked)
      BY <2>2, <2>3 DEF Bijection, Injection, Surjection, IsInjective, Header
    <3>2. ExistsBijection(U, DOMAIN asked)
      BY <3>1 DEF ExistsBijection
    <3> QED
      BY <2>5, <3>2, FS_Bijection
  <2>7. Cardinality(FreeOnes(b)) = Cardinality(DOMAIN b) - Cardinality(U)
    <3>1. FreeOnes(b) = DOMAIN b \ U /\ DOMAIN b \cap U = U
      BY DEF FreeOnes, Used
    <3>2. Cardinality(DOMAIN b \ U) = Cardinality(DOMAIN b) - Cardinality(DOMAIN b \cap U)
      BY <2>5, FS_Difference
    <3> QED
      BY <3>1, <3>2
  <2> QED
    BY <2>1, <2>3, <2>4, <2>6, <2>7 DEF Shape, Used, Blocks
<1> QED
  BY <1>1, HeapInvAlways, PTL

-----------------------------------------------------------------------------
(* A sum over a finite set, whatever order the fold takes. *)
Total(b, S) == MapThenSumSet(LAMBDA a : b[a].size, S)
One(s) == CHOOSE x \in s : TRUE
SumOf(b, s, it) == IF s = {} THEN 0 ELSE b[One(s)].size + it[s \ {One(s)}]
Sums(b, S, it) == it = [s \in SUBSET S |-> SumOf(b, s, it)]

LEMMA Smaller ==
  ASSUME NEW s, IsFiniteSet(s), s # {}
  PROVE  /\ One(s) \in s /\ IsFiniteSet(s \ {One(s)})
         /\ Cardinality(s) \in Nat /\ Cardinality(s) > 0
         /\ Cardinality(s \ {One(s)}) = Cardinality(s) - 1
<1>1. One(s) \in s
  BY DEF One
<1>2. IsFiniteSet(s \ {One(s)}) /\ Cardinality(s \ {One(s)}) = Cardinality(s) - 1
  BY <1>1, FS_RemoveElement
<1>3. Cardinality(s) \in Nat /\ Cardinality(s \ {One(s)}) \in Nat
  BY <1>2, FS_CardinalityType
<1> QED
  BY <1>1, <1>2, <1>3

(* Two sums of the same sizes agree where both are defined. *)
LEMMA SumsAgree ==
  ASSUME NEW b, NEW c, NEW S, NEW T, IsFiniteSet(T), T \subseteq S, \A a \in T : c[a].size = b[a].size,
         NEW i, Sums(b, S, i), NEW j, Sums(c, T, j)
  PROVE  \A s \in SUBSET T : j[s] = i[s]
<1> DEFINE Bad == {s \in SUBSET T : j[s] # i[s]}
           N   == {Cardinality(s) : s \in Bad}
<1> SUFFICES ASSUME Bad # {} PROVE FALSE
  OBVIOUS
<1>1. \A s \in SUBSET T : IsFiniteSet(s) /\ Cardinality(s) \in Nat
  BY FS_Subset, FS_CardinalityType
<1>2. PICK n \in N : \A m \in N : n <= m
  <2>1. N \subseteq Nat /\ N # {}
    BY <1>1
  <2> HIDE DEF N
  <2> QED
    BY <2>1, LeastNat
<1>3. PICK s \in Bad : n = Cardinality(s)
  BY <1>2
<1>4. j[s] = SumOf(c, s, j) /\ i[s] = SumOf(b, s, i)
  <2>1. s \in SUBSET T /\ s \in SUBSET S
    OBVIOUS
  <2> QED
    BY <2>1 DEF Sums
<1>5. s # {}
  BY <1>3, <1>4 DEF SumOf
<1> DEFINE r == s \ {One(s)}
<1>6. /\ One(s) \in T /\ r \in SUBSET T
      /\ Cardinality(s) \in Nat /\ Cardinality(r) = Cardinality(s) - 1
  BY <1>1, <1>5, Smaller
<1>7. r \notin Bad
  <2>1. r \in Bad => Cardinality(r) \in N
    OBVIOUS
  <2>2. r \in Bad => n <= Cardinality(r)
    BY <1>2, <2>1
  <2> QED
    BY <1>3, <1>6, <2>2
<1>8. j[r] = i[r]
  BY <1>6, <1>7
<1>9. j[s] = i[s]
  BY <1>4, <1>5, <1>6, <1>8 DEF SumOf
<1> QED
  BY <1>9

(* And there is one for every finite set. *)
LEMMA SumExists ==
  ASSUME NEW b, NEW S, IsFiniteSet(S)
  PROVE  \E it : Sums(b, S, it)
<1> DEFINE Low(n)   == {s \in SUBSET S : Cardinality(s) <= n}
           Part(n, it) == it = [s \in Low(n) |-> SumOf(b, s, it)]
           N        == {n \in Nat : ~ \E it : Part(n, it)}
<1>0. \A s \in SUBSET S : IsFiniteSet(s) /\ Cardinality(s) \in Nat
  BY FS_Subset, FS_CardinalityType
<1>1. N = {}
  <2> SUFFICES ASSUME N # {} PROVE FALSE
    OBVIOUS
  <2>1. PICK n \in N : \A m \in N : n <= m
    <3>1. N \subseteq Nat
      OBVIOUS
    <3> HIDE DEF N
    <3> QED
      BY <3>1, LeastNat
  <2>2. CASE n = 0
    <3> DEFINE it == [s \in Low(0) |-> 0]
    <3>1. ASSUME NEW s \in Low(0) PROVE SumOf(b, s, it) = 0
      <4>1. IsFiniteSet(s) /\ Cardinality(s) \in Nat /\ Cardinality(s) <= 0
        BY <1>0
      <4>2. s # {} => Cardinality(s) > 0
        BY <4>1, Smaller
      <4>3. s = {}
        BY <4>1, <4>2
      <4> QED
        BY <4>3 DEF SumOf
    <3>2. Part(0, it)
      BY <3>1
    <3> QED
      BY <2>1, <2>2, <3>2
  <2>3. CASE n # 0
    <3>1. n - 1 \in Nat /\ ~ (n <= n - 1)
      BY <2>1, <2>3
    <3>2. PICK old : Part(n - 1, old)
      <4>1. n - 1 \notin N
        BY <2>1, <3>1
      <4> QED
        BY <3>1, <4>1
    <3> DEFINE it == [s \in Low(n) |-> SumOf(b, s, old)]
    <3>3. ASSUME NEW s \in Low(n) PROVE SumOf(b, s, it) = SumOf(b, s, old)
      <4>1. CASE s = {}
        BY <4>1 DEF SumOf
      <4>2. CASE s # {}
        <5> DEFINE r == s \ {One(s)}
        <5>1. r \in SUBSET S /\ Cardinality(r) = Cardinality(s) - 1 /\ Cardinality(s) \in Nat /\ Cardinality(s) <= n
          BY <1>0, <4>2, Smaller
        <5>2. r \in Low(n - 1) /\ r \in Low(n)
          BY <2>1, <5>1
        <5>3. it[r] = SumOf(b, r, old) /\ old[r] = SumOf(b, r, old)
          BY <3>2, <5>2
        <5> QED
          BY <4>2, <5>3 DEF SumOf
      <4> QED
        BY <4>1, <4>2
    <3>4. Part(n, it)
      BY <3>3
    <3> QED
      BY <2>1, <3>4
  <2> QED
    BY <2>2, <2>3
<1>2. Cardinality(S) \in Nat
  BY <1>0
<1>3. PICK it : Part(Cardinality(S), it)
  BY <1>1, <1>2
<1>4. Low(Cardinality(S)) = SUBSET S
  <2>1. \A s \in SUBSET S : Cardinality(s) <= Cardinality(S)
    BY FS_Subset
  <2> QED
    BY <2>1
<1>5. Sums(b, S, it)
  BY <1>3, <1>4 DEF Sums
<1> QED
  BY <1>5

Iter(b, S) == CHOOSE it : Sums(b, S, it)

(* MapThenSumSet is the sum those equations define, on a set and its parts. *)
LEMMA TotalIs ==
  ASSUME NEW b, NEW S, IsFiniteSet(S)
  PROVE  Total(b, S) = Iter(b, S)[S] /\ Sums(b, S, Iter(b, S))
<1>1. Total(b, S) = Iter(b, S)[S]
  BY DEF Total, Iter, Sums, SumOf, One, MapThenSumSet, MapThenFoldSet
<1>2. Sums(b, S, Iter(b, S))
  BY SumExists DEF Iter
<1> QED
  BY <1>1, <1>2

LEMMA TotalPart ==
  ASSUME NEW b, NEW S, IsFiniteSet(S), NEW i, Sums(b, S, i), NEW T \in SUBSET S
  PROVE  Total(b, T) = i[T]
<1>1. IsFiniteSet(T)
  BY FS_Subset
<1>2. Total(b, T) = Iter(b, T)[T] /\ Sums(b, T, Iter(b, T))
  BY <1>1, TotalIs
<1>3. \A s \in SUBSET T : Iter(b, T)[s] = i[s]
  BY <1>1, <1>2, SumsAgree
<1> QED
  BY <1>2, <1>3

LEMMA TotalSame ==
  ASSUME NEW b, NEW c, NEW S, IsFiniteSet(S), \A a \in S : c[a].size = b[a].size
  PROVE  Total(c, S) = Total(b, S)
<1>1. /\ Total(b, S) = Iter(b, S)[S] /\ Sums(b, S, Iter(b, S))
      /\ Total(c, S) = Iter(c, S)[S] /\ Sums(c, S, Iter(c, S))
  BY TotalIs
<1>2. \A s \in SUBSET S : Iter(c, S)[s] = Iter(b, S)[s]
  BY <1>1, SumsAgree
<1> QED
  BY <1>1, <1>2

(* Any element can be counted first. *)
LEMMA TotalWithout ==
  ASSUME NEW b, NEW S, IsFiniteSet(S), \A a \in S : b[a].size \in Nat
  PROVE  /\ Total(b, S) \in Nat
         /\ S = {} => Total(b, S) = 0
         /\ \A a \in S : Total(b, S) = Total(b, S \ {a}) + b[a].size /\ Total(b, S \ {a}) \in Nat
<1> DEFINE i == Iter(b, S)
           Fine(s) == i[s] \in Nat /\ \A a \in s : i[s] = i[s \ {a}] + b[a].size
           Bad == {s \in SUBSET S : ~ Fine(s)}
           N   == {Cardinality(s) : s \in Bad}
<1>0. Sums(b, S, i)
  BY TotalIs
<1> HIDE DEF i
<1>1. \A s \in SUBSET S : IsFiniteSet(s) /\ Cardinality(s) \in Nat
  BY FS_Subset, FS_CardinalityType
<1>2. \A s \in SUBSET S : i[s] = SumOf(b, s, i)
  BY <1>0 DEF Sums
<1>3. Bad = {}
  <2> SUFFICES ASSUME Bad # {} PROVE FALSE
    OBVIOUS
  <2>1. PICK n \in N : \A m \in N : n <= m
    <3>1. N \subseteq Nat /\ N # {}
      BY <1>1
    <3> HIDE DEF N
    <3> QED
      BY <3>1, LeastNat
  <2>2. PICK s \in Bad : n = Cardinality(s)
    BY <2>1
  <2>3. \A t \in SUBSET S : Cardinality(t) < Cardinality(s) => Fine(t)
    <3> SUFFICES ASSUME NEW t \in SUBSET S, Cardinality(t) < Cardinality(s), ~ Fine(t) PROVE FALSE
      OBVIOUS
    <3>1. t \in Bad
      OBVIOUS
    <3>2. n <= Cardinality(t)
      BY <2>1, <3>1
    <3> QED
      BY <1>1, <2>2, <3>2
  <2>4. s # {}
    <3>1. s = {} => i[s] = 0
      BY <1>2 DEF SumOf
    <3> QED
      BY <3>1
  <2> DEFINE x == One(s)
             r == s \ {x}
  <2>5. /\ x \in s /\ x \in S /\ r \in SUBSET S /\ IsFiniteSet(s)
        /\ Cardinality(s) \in Nat /\ Cardinality(r) = Cardinality(s) - 1
    BY <1>1, <2>4, Smaller
  <2>6. i[s] = b[x].size + i[r]
    BY <1>2, <2>4 DEF SumOf
  <2>7. i[r] \in Nat /\ \A a \in r : i[r] = i[r \ {a}] + b[a].size
    <3>1. Cardinality(r) < Cardinality(s)
      BY <2>5
    <3> HIDE DEF r
    <3> QED
      BY <2>3, <2>5, <3>1
  <2> HIDE DEF x
  <2>8. i[s] \in Nat
    BY <2>5, <2>6, <2>7
  <2>9. ASSUME NEW a \in s PROVE i[s] = i[s \ {a}] + b[a].size
    <3>1. CASE a = x
      BY <2>5, <2>6, <2>7, <3>1
    <3>2. CASE a # x
      <4> DEFINE q == s \ {a}
      <4>1. a \in r /\ q \in SUBSET S /\ Cardinality(q) = Cardinality(s) - 1
        BY <2>5, <2>9, <3>2, FS_RemoveElement
      <4>2. x \in q /\ i[q] = i[q \ {x}] + b[x].size
        <5>1. x \in q /\ Cardinality(q) < Cardinality(s)
          BY <2>5, <3>2, <4>1
        <5> HIDE DEF q
        <5> QED
          BY <2>3, <4>1, <5>1
      <4>3. (s \ {a}) \ {x} = r \ {a}
        OBVIOUS
      <4>4. i[s \ {a}] = i[r \ {a}] + b[x].size /\ i[r] = i[r \ {a}] + b[a].size
        BY <2>7, <4>1, <4>2, <4>3
      <4>5. i[r \ {a}] \in Nat
        <5> DEFINE w == r \ {a}
        <5>1. w \in SUBSET S /\ Cardinality(w) = Cardinality(r) - 1
          BY <1>1, <2>5, <4>1, FS_RemoveElement
        <5>2. Cardinality(w) < Cardinality(s)
          BY <2>5, <5>1
        <5> HIDE DEF w
        <5>3. i[w] \in Nat
          BY <2>3, <5>1, <5>2
        <5> QED
          BY <5>3 DEF w
      <4>6. b[a].size \in Nat /\ b[x].size \in Nat
        BY <2>5, <2>9
      <4> HIDE DEF r
      <4> QED
        BY <2>6, <4>4, <4>5, <4>6
    <3> QED
      BY <3>1, <3>2
  <2> QED
    BY <2>8, <2>9
<1>4. \A T \in SUBSET S : Total(b, T) = i[T]
  BY <1>0, TotalPart
<1>5. Fine(S) /\ \A a \in S : Fine(S \ {a})
  BY <1>3
<1>6. S = {} => i[S] = 0
  BY <1>2 DEF SumOf
<1> QED
  BY <1>4, <1>5, <1>6

-----------------------------------------------------------------------------
(* free_size against what is free.  A split leaves the sum below alone, as *)
(* does a merge: the header one of them makes, the other frees.            *)
FreeTotal(b) == Total(b, FreeOnes(b))

(* A free block is counted with the header heap_malloc subtracts with it.  *)
Covered(h) == h.free_size + 20 >= FreeTotal(h.block) + 20 * h.blocks_free

(* The same free bytes and headers, and the same free_size. *)
SameFree(h, s) ==
    /\ s.free_size = h.free_size
    /\ FreeTotal(s.block) + 20 * s.blocks_free = FreeTotal(h.block) + 20 * h.blocks_free

LEMMA FreeFacts ==
  ASSUME NEW b, Tiled(b)
  PROVE  /\ IsFiniteSet(FreeOnes(b)) /\ FreeTotal(b) \in Nat
         /\ FreeOnes(b) = {} => FreeTotal(b) = 0
         /\ Cardinality(FreeOnes(b)) \in Nat
         /\ \A a \in FreeOnes(b) : b[a].size \in Nat
         /\ \A a \in FreeOnes(b) : /\ FreeTotal(b) = Total(b, FreeOnes(b) \ {a}) + b[a].size
                                   /\ Total(b, FreeOnes(b) \ {a}) \in Nat
<1>1. \A a \in FreeOnes(b) : b[a].size \in Nat
  BY BlockFacts DEF FreeOnes
<1>2. IsFiniteSet(FreeOnes(b)) /\ Cardinality(FreeOnes(b)) \in Nat
  BY BlocksFinite
<1> QED
  BY <1>1, <1>2, TotalWithout DEF FreeTotal

(* One more free block, and one that is free no longer. *)
LEMMA OneMoreFree ==
  ASSUME NEW b, Tiled(b), NEW c, Tiled(c), NEW a,
         a \notin FreeOnes(b), FreeOnes(c) = FreeOnes(b) \cup {a},
         \A x \in FreeOnes(b) : c[x].size = b[x].size
  PROVE  FreeTotal(c) = FreeTotal(b) + c[a].size
<1>1. a \in FreeOnes(c) /\ FreeOnes(c) \ {a} = FreeOnes(b)
  OBVIOUS
<1>2. FreeTotal(c) = Total(c, FreeOnes(b)) + c[a].size
  BY <1>1, FreeFacts
<1>3. Total(c, FreeOnes(b)) = FreeTotal(b)
  BY FreeFacts, TotalSame DEF FreeTotal
<1> QED
  BY <1>2, <1>3

(* A free block that grows, or shrinks. *)
LEMMA OneResized ==
  ASSUME NEW b, Tiled(b), NEW c, NEW S, S = FreeOnes(b), NEW a \in S,
         \A x \in S \ {a} : c[x].size = b[x].size, c[a].size \in Nat
  PROVE  /\ Total(c, S) = FreeTotal(b) - b[a].size + c[a].size
         /\ FreeTotal(b) \in Nat /\ b[a].size \in Nat
<1>1. /\ IsFiniteSet(S) /\ IsFiniteSet(S \ {a}) /\ \A x \in S : b[x].size \in Nat /\ c[x].size \in Nat
  BY FreeFacts, FS_RemoveElement
<1>2. FreeTotal(b) = Total(b, S \ {a}) + b[a].size /\ Total(b, S \ {a}) \in Nat
  BY FreeFacts
<1>3. Total(c, S) = Total(c, S \ {a}) + c[a].size
  BY <1>1, TotalWithout
<1>4. Total(c, S \ {a}) = Total(b, S \ {a})
  BY <1>1, TotalSame
<1> QED
  BY <1>1, <1>2, <1>3, <1>4

(* The rest that is cut off a free block. *)
LEMMA CutTotal ==
  ASSUME NEW b, Tiled(b), NEW w, Tiled(w), NEW a \in FreeOnes(b), NEW size \in Nat, NEW new,
         new = a + Header + size, CutAt(b, a, size, new, w)
  PROVE  FreeTotal(w) = FreeTotal(b) - 20
<1>1. /\ a \in DOMAIN b /\ a # new /\ a \in DOMAIN w /\ new \in DOMAIN w /\ new \notin DOMAIN b
      /\ w[a].size = size
  BY DEF CutAt, FreeOnes
<1>2. FreeOnes(w) = FreeOnes(b) \cup {new} /\ new \notin FreeOnes(b)
  BY <1>1 DEF CutAt, FreeOnes
<1>3. \A x \in FreeOnes(b) \ {a} : w[x].size = b[x].size
  BY DEF CutAt, FreeOnes
<1>4. w[new].size = b[a].size - size - 20 /\ w[new].size \in Nat
  <2>1. /\ EndOf(b, a) = a + 20 + b[a].size /\ EndOf(w, new) = new + 20 + w[new].size
        /\ a \in Nat /\ new \in Nat /\ b[a].size \in Nat /\ w[new].size \in Nat
    BY <1>1, BlockFacts
  <2>2. w[new].next = b[a].next
    BY DEF CutAt
  <2>3. EndOf(b, a) = EndOf(w, new)
    <3>1. 0 \notin DOMAIN b /\ 0 \notin DOMAIN w /\ NULL = 0
      BY BlockFacts, Numbers
    <3> QED
      BY <1>1, <2>2, <3>1 DEF Tiled, Linked
  <2> QED
    BY <2>1, <2>3, Numbers
<1>5. /\ Total(w, FreeOnes(b)) = FreeTotal(b) - b[a].size + size
      /\ FreeTotal(b) \in Nat /\ b[a].size \in Nat
  BY <1>1, <1>3, OneResized
<1>6. FreeTotal(w) = Total(w, FreeOnes(b)) + w[new].size
  <2>1. new \in FreeOnes(w) /\ FreeOnes(w) \ {new} = FreeOnes(b)
    BY <1>2
  <2> QED
    BY <2>1, FreeFacts
<1> QED
  BY <1>4, <1>5, <1>6

(* The header that a merge frees. *)
LEMMA JoinTotal ==
  ASSUME NEW b, Tiled(b), NEW m, Tiled(m), NEW a \in FreeOnes(b), NEW n \in FreeOnes(b),
         b[a].next = n, JoinedAs(b, a, n, m)
  PROVE  FreeTotal(m) = FreeTotal(b) + 20
<1>1. a \in DOMAIN b /\ n \in DOMAIN b /\ a \in DOMAIN m /\ a # n
  BY DEF JoinedAs, FreeOnes
<1>2. FreeOnes(m) = FreeOnes(b) \ {n} /\ a \in FreeOnes(m)
  BY <1>1 DEF JoinedAs, FreeOnes
<1>3. \A x \in FreeOnes(m) \ {a} : b[x].size = m[x].size
  BY <1>2 DEF JoinedAs, FreeOnes
<1>4. m[a].size = b[a].size + 20 + b[n].size /\ b[a].size \in Nat /\ b[n].size \in Nat
  <2>1. /\ EndOf(b, a) = a + 20 + b[a].size /\ EndOf(b, n) = n + 20 + b[n].size
        /\ EndOf(m, a) = a + 20 + m[a].size
        /\ a \in Nat /\ n \in Nat /\ b[a].size \in Nat /\ b[n].size \in Nat /\ m[a].size \in Nat
    BY <1>1, BlockFacts
  <2>2. m[a].next = b[n].next
    BY DEF JoinedAs
  <2>3. EndOf(b, n) = EndOf(m, a)
    <3>1. 0 \notin DOMAIN b /\ 0 \notin DOMAIN m /\ NULL = 0
      BY BlockFacts, Numbers
    <3> QED
      BY <1>1, <2>2, <3>1 DEF Tiled, Linked
  <2>4. EndOf(b, a) = n
    BY <1>1, LinksAgree
  <2> QED
    BY <2>1, <2>3, <2>4
<1>5. Total(b, FreeOnes(m)) = FreeTotal(m) - m[a].size + b[a].size /\ FreeTotal(m) \in Nat /\ m[a].size \in Nat
  <2>1. a \in FreeOnes(m) /\ b[a].size \in Nat
    BY <1>2, <1>4
  <2> QED
    BY <2>1, <1>3, OneResized
<1>6. FreeTotal(b) = Total(b, FreeOnes(m)) + b[n].size
  BY <1>2, FreeFacts
<1> QED
  BY <1>4, <1>5, <1>6

(* The steps of heap_malloc and heap_free, one by one. *)
LEMMA SplitCovers ==
  ASSUME NEW h, Shape(h), NEW a \in DOMAIN h.block, h.block[a].free,
         NEW size \in Nat, size <= h.block[a].size, ~ Wraps(h, a, size)
  PROVE  /\ Shape(Split(h, a, size)) /\ SameFree(h, Split(h, a, size))
         /\ a \in FreeOnes(Split(h, a, size).block) /\ Split(h, a, size).block[a].size >= size
<1> DEFINE s == Split(h, a, size)
           new == a + Header + size
           b == h.block
           c == s.block
<1>1. s = h \/ (Shape(s) /\ CutAt(b, a, size, new, c))
  BY SplitShape
<1>2. s.free_size = h.free_size
  <2>1. HeapRec(h)
    BY DEF Shape
  <2> QED
    BY <2>1 DEF Split, HeapRec
<1>3. /\ a \in FreeOnes(b) /\ Tiled(b) /\ size <= b[a].size /\ Shape(h)
      /\ h.blocks_free = Cardinality(FreeOnes(b))
  BY DEF FreeOnes, Shape
<1> HIDE DEF s, b, c, new
<1>4. CASE s = h
  BY <1>3, <1>4 DEF SameFree, s, b, c
<1>5. CASE s # h
  <2>1. Shape(s) /\ CutAt(b, a, size, new, c) /\ Tiled(c) /\ s.blocks_free = Cardinality(FreeOnes(c))
    BY <1>1, <1>5 DEF Shape, c
  <2>2. FreeTotal(c) = FreeTotal(b) - 20 /\ FreeTotal(b) \in Nat
    BY <1>3, <2>1, CutTotal, FreeFacts DEF new
  <2>3. FreeOnes(c) = FreeOnes(b) \cup {new} /\ new \notin FreeOnes(b) /\ a \in FreeOnes(c) /\ c[a].size = size
    BY <1>3, <2>1 DEF CutAt, FreeOnes
  <2>4. Cardinality(FreeOnes(c)) = Cardinality(FreeOnes(b)) + 1 /\ Cardinality(FreeOnes(b)) \in Nat
    BY <1>3, <2>3, FreeFacts, AddedOne
  <2>5. FreeTotal(c) + 20 * s.blocks_free = FreeTotal(b) + 20 * h.blocks_free
    BY <1>3, <2>1, <2>2, <2>4
  <2> QED
    BY <1>2, <2>1, <2>3, <2>5 DEF SameFree, s, b, c
<1> QED
  BY <1>4, <1>5

(* heap_malloc subtracts no more than what stops being free, and has that  *)
(* much to subtract: the counter does not wrap. *)
LEMMA TakeCovers ==
  ASSUME NEW h, Shape(h), Compact(h.block), Covered(h), NEW a \in DOMAIN h.block, h.block[a].free,
         NEW size \in Nat, size <= h.block[a].size, ~ Wraps(h, a, size)
  PROVE  /\ Covered(Take(h, a, size))
         /\ Take(h, a, size).free_size <= h.free_size
<1> DEFINE s == Split(h, a, size)
           t == Take(h, a, size)
           c == s.block
           d == t.block
<1>1. Shape(s) /\ SameFree(h, s) /\ a \in FreeOnes(c) /\ c[a].size >= size
  BY SplitCovers
<1>2. Shape(t)
  BY TakeShape
<1>3. t = [s EXCEPT !.block[a].free = FALSE, !.blocks_allocated = @ + 1,
                    !.blocks_free = @ - 1, !.free_size = (@ - (size + Header)) % WordSize]
  BY DEF Take
<1> HIDE DEF s, t
<1>4. /\ d = [c EXCEPT ![a].free = FALSE] /\ t.blocks_free = s.blocks_free - 1
      /\ t.free_size = (s.free_size - (size + Header)) % WordSize
  BY <1>1, <1>3 DEF Shape, HeapRec
<1> HIDE DEF c, d
<1>5. Tiled(c) /\ Tiled(d) /\ s.blocks_free = Cardinality(FreeOnes(c)) /\ a \in DOMAIN c
  BY <1>1, <1>2 DEF Shape, c, d, FreeOnes
<1>6. DOMAIN d = DOMAIN c /\ d[a].free = FALSE /\ \A x \in DOMAIN c : x # a => d[x] = c[x]
  BY <1>4, <1>5, FlagTiled
<1>7. FreeOnes(d) = FreeOnes(c) \ {a}
  BY <1>5, <1>6 DEF FreeOnes
<1>8. \A x \in FreeOnes(d) : d[x].size = c[x].size
  BY <1>6 DEF FreeOnes
<1>9. /\ FreeTotal(c) = FreeTotal(d) + c[a].size /\ FreeTotal(d) \in Nat /\ c[a].size \in Nat
      /\ FreeTotal(c) \in Nat
  <2>1. FreeTotal(c) = Total(c, FreeOnes(d)) + c[a].size /\ c[a].size \in Nat /\ FreeTotal(c) \in Nat
    BY <1>1, <1>5, <1>7, FreeFacts DEF c
  <2>2. IsFiniteSet(FreeOnes(d)) /\ FreeTotal(d) \in Nat
    BY <1>5, FreeFacts
  <2>3. Total(c, FreeOnes(d)) = FreeTotal(d)
    BY <1>8, <2>2, TotalSame DEF FreeTotal
  <2> QED
    BY <2>1, <2>2, <2>3
<1>10. /\ s.free_size = h.free_size /\ h.free_size \in 0 .. WordSize - 1
       /\ s.free_size + 20 >= FreeTotal(c) + 20 * s.blocks_free
  BY <1>1 DEF SameFree, Covered, Shape, c
<1>11. s.blocks_free \in Nat
  BY <1>5, FreeFacts
<1>12. s.free_size >= size + 20
  <2> DEFINE e == h.block
  <2>1. Tiled(e) /\ a \in DOMAIN e /\ a \in FreeOnes(e) /\ h.blocks_free = Cardinality(FreeOnes(e))
    BY DEF Shape, FreeOnes
  <2>2. e[a].size \in Nat
    BY <2>1, BlockFacts
  <2>3. ~ (e[a].size - size < 20)
    BY Numbers DEF Wraps
  <2>4. h.free_size + 20 >= FreeTotal(e) + 20 * h.blocks_free
    BY DEF Covered
  <2> HIDE DEF e
  <2>5. FreeTotal(e) >= e[a].size /\ FreeTotal(e) \in Nat
    <3>1. FreeTotal(e) = Total(e, FreeOnes(e) \ {a}) + e[a].size /\ Total(e, FreeOnes(e) \ {a}) \in Nat
      BY <2>1, FreeFacts
    <3> QED
      BY <2>1, <2>2, <3>1
  <2>6. h.blocks_free \in Nat /\ h.blocks_free >= 1
    <3>1. IsFiniteSet(FreeOnes(e)) /\ Cardinality(FreeOnes(e)) \in Nat
      BY <2>1, FreeFacts
    <3>2. Cardinality(FreeOnes(e)) # 0
      BY <2>1, <3>1, FS_EmptySet
    <3> QED
      BY <2>1, <3>1, <3>2
  <2> QED
    BY <1>10, <2>2, <2>3, <2>4, <2>5, <2>6
<1>13. t.free_size = s.free_size - size - 20
  <2> DEFINE v == s.free_size - (size + 20)
  <2>1. v \in 0 .. WordSize - 1 /\ v \in Int /\ v = s.free_size - size - 20
    BY <1>10, <1>12, Numbers
  <2>2. t.free_size = v % WordSize
    BY <1>4, Numbers
  <2> HIDE DEF v
  <2> QED
    BY <2>1, <2>2, ModRange
<1>14. t.free_size + 20 >= FreeTotal(d) + 20 * t.blocks_free
  BY <1>1, <1>4, <1>9, <1>10, <1>11, <1>13 DEF c
<1>15. t.free_size <= h.free_size
  BY <1>10, <1>12, <1>13
<1> QED
  BY <1>14, <1>15 DEF Covered, d, t

LEMMA JoinCovers ==
  ASSUME NEW h, Shape(h), NEW a \in DOMAIN h.block, NEW n \in DOMAIN h.block,
         h.block[a].next = n, h.block[a].free, h.block[n].free
  PROVE  SameFree(h, JoinIn(h, a, n))
<1> DEFINE j == JoinIn(h, a, n)
           b == h.block
           m == j.block
<1>1. Shape(j) /\ JoinedAs(b, a, n, m)
  BY JoinShape
<1>2. j.free_size = h.free_size /\ j.blocks_free = h.blocks_free - 1
  <2>1. HeapRec(h)
    BY DEF Shape
  <2> QED
    BY <2>1 DEF JoinIn, HeapRec
<1>3. Tiled(b) /\ Tiled(m) /\ a \in FreeOnes(b) /\ n \in FreeOnes(b) /\ b[a].next = n
  BY <1>1 DEF Shape, FreeOnes
<1> HIDE DEF j, b, m
<1>4. FreeTotal(m) = FreeTotal(b) + 20 /\ FreeTotal(b) \in Nat
  BY <1>1, <1>3, JoinTotal, FreeFacts
<1>5. h.blocks_free \in Nat
  <2>1. h.blocks_free = Cardinality(FreeOnes(b))
    BY DEF Shape, b
  <2> QED
    BY <1>3, <2>1, FreeFacts
<1>6. FreeTotal(m) + 20 * j.blocks_free = FreeTotal(b) + 20 * h.blocks_free
  BY <1>2, <1>4, <1>5
<1> QED
  BY <1>2, <1>6 DEF SameFree, j, b, m

LEMMA MergeCovers ==
  ASSUME NEW h, Shape(h), NEW a \in DOMAIN h.block, h.block[a].free
  PROVE  SameFree(h, MergeNext(h, a)) /\ SameFree(h, MergePrev(h, a))
<1> DEFINE n == h.block[a].next
           p == h.block[a].prev
<1>0. /\ Tiled(h.block) /\ 0 \notin DOMAIN h.block /\ NULL = 0
      /\ n \in DOMAIN h.block \cup {NULL} /\ p \in DOMAIN h.block \cup {NULL}
      /\ p \in DOMAIN h.block => h.block[p].next = a
  <2>1. Tiled(h.block) /\ 0 \notin DOMAIN h.block /\ NULL = 0
    BY BlockFacts, Numbers DEF Shape
  <2>2. n \in DOMAIN h.block \cup {NULL} /\ p \in DOMAIN h.block \cup {NULL}
    BY <2>1 DEF Tiled, BackLinked, Linked
  <2> QED
    BY <2>1, <2>2, LinksAgree
<1>1. SameFree(h, h)
  BY DEF SameFree
<1>2. SameFree(h, MergeNext(h, a))
  <2>1. CASE n = NULL \/ ~ h.block[n].free
    <3>1. MergeNext(h, a) = h
      BY <2>1 DEF MergeNext
    <3> QED
      BY <1>1, <3>1
  <2>2. CASE ~ (n = NULL \/ ~ h.block[n].free)
    <3>1. MergeNext(h, a) = JoinIn(h, a, n)
      BY <2>2 DEF MergeNext, JoinIn, Joined
    <3> QED
      BY <1>0, <2>2, <3>1, JoinCovers
  <2> QED
    BY <2>1, <2>2
<1>3. SameFree(h, MergePrev(h, a))
  <2>1. CASE p = NULL \/ ~ h.block[p].free
    <3>1. MergePrev(h, a) = h
      BY <2>1 DEF MergePrev
    <3> QED
      BY <1>1, <3>1
  <2>2. CASE ~ (p = NULL \/ ~ h.block[p].free)
    <3>1. MergePrev(h, a) = JoinIn(h, p, a)
      BY <2>2 DEF MergePrev, JoinIn, Joined
    <3> QED
      BY <1>0, <2>2, <3>1, JoinCovers
  <2> QED
    BY <2>1, <2>2
<1> QED
  BY <1>2, <1>3

(* heap_free adds what becomes free, with the header a merge may free.     *)
LEMMA GiveCovers ==
  ASSUME NEW h, Shape(h), Compact(h.block), Covered(h), NEW a \in Used(h.block),
         h.free_size <= FreeSizeCap
  PROVE  Covered(Give(h, a))
<1> DEFINE f == Freed(h, a)
           b == h.block
           c == f.block
           m == MergeNext(f, a)
           g == MergePrev(m, a)
<1>0. g = Give(h, a)
  BY DEF Give, Freed
<1>1. /\ Tiled(b) /\ b[a].size \in Nat /\ b[a].size + 20 <= total_size
      /\ h.blocks_free = Cardinality(FreeOnes(b)) /\ h.free_size \in 0 .. WordSize - 1
      /\ a \in DOMAIN b
  <2>1. a \in DOMAIN b /\ Tiled(b)
    BY DEF Used, Shape
  <2>2. /\ EndOf(b, a) = a + 20 + b[a].size /\ EndOf(b, a) <= heap_end /\ a >= heap_start
        /\ a \in Nat /\ b[a].size \in Nat
    BY <2>1, BlockFacts
  <2>3. b[a].size + 20 <= total_size
    BY <2>2, Numbers
  <2> QED
    BY <2>1, <2>2, <2>3 DEF Shape
<1>2. /\ Shape(f) /\ CompactBut(c, a) /\ FreedAs(b, a, c) /\ Tiled(c)
      /\ f.blocks_free = h.blocks_free + 1
      /\ f.free_size = (h.free_size + b[a].size + Header) % WordSize
  BY FreedShape DEF Shape
<1> HIDE DEF f, b, c, m, g
<1>3. FreeTotal(c) = FreeTotal(b) + b[a].size /\ FreeTotal(b) \in Nat /\ h.blocks_free \in Nat
  <2>1. /\ FreeOnes(c) = FreeOnes(b) \cup {a} /\ a \notin FreeOnes(b) /\ c[a].size = b[a].size
        /\ \A x \in FreeOnes(b) : c[x].size = b[x].size
    BY <1>1, <1>2 DEF FreeOnes, FreedAs
  <2>2. FreeTotal(c) = FreeTotal(b) + c[a].size
    BY <1>1, <1>2, <2>1, OneMoreFree
  <2> QED
    BY <1>1, <2>1, <2>2, FreeFacts
<1>4. f.free_size = h.free_size + b[a].size + 20
  <2> DEFINE v == h.free_size + b[a].size + 20
  <2>1. v \in 0 .. WordSize - 1 /\ v \in Int
    BY <1>1, FreeSizeCapAssumption, Numbers
  <2>2. f.free_size = v % WordSize
    BY <1>2, Numbers
  <2> HIDE DEF v
  <2>3. f.free_size = v
    BY <2>1, <2>2, ModRange
  <2> QED
    BY <2>3 DEF v
<1>5. Covered(f)
  <2>1. h.free_size + 20 >= FreeTotal(b) + 20 * h.blocks_free
    BY DEF Covered, b
  <2>2. f.free_size + 20 >= FreeTotal(c) + 20 * f.blocks_free
    BY <1>1, <1>2, <1>3, <1>4, <2>1
  <2> QED
    BY <2>2 DEF Covered, c
<1>6. Shape(m) /\ a \in DOMAIN m.block /\ m.block[a].free /\ SameFree(f, m)
  BY <1>1, <1>2, MergeNextKeeps, MergeCovers DEF c, m, FreedAs
<1>7. SameFree(m, g)
  BY <1>6, MergeCovers DEF g
<1> QED
  BY <1>0, <1>5, <1>6, <1>7 DEF SameFree, Covered

-----------------------------------------------------------------------------
(* The invariant with the counter, kept by each call. *)
CoverInv == HeapInv /\ (~ wrapped => Covered(heap))

LEMMA MallocCovers ==
  ASSUME HeapInv, ~ wrapped, Covered(heap), NEW size \in Nat, NEW overrun \in BOOLEAN,
         Mallocs(size, overrun), ~ wrapped'
  PROVE  Covered(heap')
<1> DEFINE r == Rounded(size)
           a == BestFit(heap, r)
<1>1. Shape(heap) /\ Compact(heap.block)
  BY DEF HeapInv, Good
<1>2. r \in Nat /\ Fitting(heap, r) # {}
  BY RoundedHolds DEF Mallocs
<1>3. a \in DOMAIN heap.block /\ heap.block[a].free /\ r <= heap.block[a].size
  BY <1>1, <1>2, BestFits
<1>4. heap' = Take(heap, a, r) /\ ~ Wraps(heap, a, r)
  BY DEF Mallocs
<1> HIDE DEF r, a
<1> QED
  BY <1>1, <1>2, <1>3, <1>4, TakeCovers

LEMMA FreeCovers ==
  ASSUME HeapInv, ~ wrapped, Covered(heap), heap.free_size <= FreeSizeCap,
         NEW a \in Blocks(heap), heap_free(a)
  PROVE  Covered(heap')
<1>1. Shape(heap) /\ Compact(heap.block)
  BY DEF HeapInv, Good
<1>2. CASE heap.block[a].free
  BY <1>2 DEF heap_free, vars
<1>3. CASE ~ heap.block[a].free
  <2>1. heap' = Give(heap, a) /\ a \in Used(heap.block)
    BY <1>3 DEF heap_free, Used, Blocks
  <2> QED
    BY <1>1, <2>1, GiveCovers
<1> QED
  BY <1>2, <1>3

LEMMA ReallocCovers ==
  ASSUME HeapInv, ~ wrapped, Covered(heap), heap.free_size <= FreeSizeCap,
         NEW a \in Blocks(heap), NEW size \in Nat, heap_realloc(a, size), ~ wrapped'
  PROVE  Covered(heap')
<1> DEFINE r == Rounded(size)
           n == BestFit(heap, r)
<1>1. Shape(heap) /\ Compact(heap.block)
  BY DEF HeapInv, Good
<1>2. CASE heap.block[a].free \/ size = 0
  BY <1>2, FreeCovers DEF heap_realloc
<1>3. CASE ~ (heap.block[a].free \/ size = 0) /\ (r <= heap.block[a].size \/ Fitting(heap, r) = {})
  <2>1. heap' = heap
    BY <1>3 DEF heap_realloc, vars
  <2> QED
    BY <2>1
<1>4. CASE ~ (heap.block[a].free \/ size = 0) /\ ~ (r <= heap.block[a].size) /\ Fitting(heap, r) # {}
  <2>1. r \in Nat
    BY RoundedHolds
  <2>2. n \in DOMAIN heap.block /\ heap.block[n].free /\ r <= heap.block[n].size
    BY <1>1, <1>4, <2>1, BestFits
  <2>3. heap' = Give(Take(heap, n, r), a) /\ ~ Wraps(heap, n, r)
    BY <1>4 DEF heap_realloc
  <2> DEFINE t == Take(heap, n, r)
  <2> HIDE DEF r, n
  <2>4. /\ Shape(t) /\ Compact(t.block) /\ Used(t.block) = Used(heap.block) \cup {n}
        /\ Covered(t) /\ t.free_size <= heap.free_size
    BY <1>1, <2>1, <2>2, <2>3, TakeShape, TakeCovers
  <2>5. t.free_size \in Nat /\ heap.free_size \in Nat
    BY <1>1, <2>4, Numbers DEF Shape
  <2>6. t.free_size <= FreeSizeCap /\ a \in Used(t.block)
    BY <1>4, <2>4, <2>5, FreeSizeCapAssumption DEF Used, Blocks
  <2> HIDE DEF t
  <2>7. Covered(Give(t, a))
    BY <2>4, <2>6, GiveCovers
  <2> QED
    BY <2>3, <2>7 DEF t
<1> QED
  BY <1>2, <1>3, <1>4

LEMMA CoverInvInit == Init => CoverInv
<1> SUFFICES ASSUME Init PROVE Covered(heap)
  BY HeapInvInit DEF CoverInv
<1> DEFINE b == heap.block
<1>1. /\ b = [a \in {heap_start} |-> [size |-> total_size - Header, free |-> TRUE,
                                      next |-> NULL, prev |-> NULL]]
      /\ heap.blocks_free = 1 /\ heap.free_size = total_size - 20
  BY Numbers DEF Init
<1>2. Tiled(b)
  BY HeapInvInit DEF HeapInv, Good, Shape, Init
<1> HIDE DEF b
<1>3. FreeOnes(b) = {heap_start} /\ b[heap_start].size = total_size - 20
  BY <1>1, Numbers DEF FreeOnes
<1>4. FreeTotal(b) = Total(b, FreeOnes(b) \ {heap_start}) + b[heap_start].size
  BY <1>2, <1>3, FreeFacts
<1>5. Total(b, {}) = 0
  BY FS_EmptySet, TotalWithout
<1>6. FreeTotal(b) = total_size - 20
  <2>1. FreeOnes(b) \ {heap_start} = {}
    BY <1>3
  <2>2. FreeTotal(b) = 0 + (total_size - 20)
    BY <1>3, <1>4, <1>5, <2>1
  <2> QED
    BY <2>2, Numbers
<1> QED
  BY <1>1, <1>6, Numbers DEF Covered, b

LEMMA CoverInvInductive == CoverInv /\ [Next]_vars => CoverInv'
<1> SUFFICES ASSUME CoverInv, [Next]_vars, ~ wrapped' PROVE Covered(heap')
  BY HeapInvInductive DEF CoverInv
<1>1. CASE UNCHANGED vars
  BY <1>1 DEF CoverInv, vars
<1>2. CASE Next
  <2>0. HeapInv /\ ~ wrapped /\ Covered(heap) /\ heap.free_size <= FreeSizeCap
    BY <1>2 DEF Next, CoverInv
  <2>1. Requests \cup {0} \subseteq Nat
    BY HeapSizeAssumption
  <2>2. CASE \E size \in Requests \cup {0} : heap_malloc(size)
    BY <2>0, <2>1, <2>2, MallocCovers DEF heap_malloc
  <2>3. CASE \E size \in Requests \cup {0} : heap_malloc_fails(size)
    BY <1>1, <2>3 DEF heap_malloc_fails
  <2>4. CASE \E size \in Requests \cup {0} : heap_calloc(2, size)
    <3>1. PICK size \in Requests \cup {0} : heap_calloc(2, size)
      BY <2>4
    <3> DEFINE total == (2 * size) % WordSize
    <3> DEFINE overrun == Rounded(total) < total
    <3>2. total \in Nat
      <4>1. 2 * size \in Int
        BY <2>1
      <4> QED
        BY <4>1, ModRange, Numbers
    <3>3. Mallocs(total, overrun) \/ UNCHANGED vars
      BY <3>1 DEF heap_calloc, heap_malloc_fails
    <3>4. overrun \in BOOLEAN
      OBVIOUS
    <3> HIDE DEF overrun, total
    <3> QED
      BY <1>1, <2>0, <3>2, <3>3, <3>4, MallocCovers
  <2>5. CASE \E a \in Blocks(heap) : heap_free(a)
    BY <2>0, <2>5, FreeCovers
  <2>6. CASE \E a \in Blocks(heap), size \in Requests \cup {0} : heap_realloc(a, size)
    BY <2>0, <2>1, <2>6, ReallocCovers
  <2> QED
    BY <1>2, <2>2, <2>3, <2>4, <2>5, <2>6 DEF Next
<1> QED
  BY <1>1, <1>2

(* What meminfo shows as free covers what is: heap_malloc subtracts no     *)
(* more than the block it takes and its header, and the headers that       *)
(* merges free were all counted once.  By as much as rounding and blocks   *)
(* that were not worth a split leave, the counter runs ahead, until it     *)
(* would wrap. *)
THEOREM FreeBytesCovered == Spec => []FreeSizeCoversFreeBytes
<1>1. CoverInv => FreeSizeCoversFreeBytes
  <2> SUFFICES ASSUME CoverInv, ~ wrapped PROVE heap.free_size >= FreeBytes
    BY DEF FreeSizeCoversFreeBytes
  <2> DEFINE b == heap.block
  <2>1. /\ Tiled(b) /\ heap.blocks_free = Cardinality(FreeOnes(b)) /\ heap.free_size \in Nat
        /\ heap.free_size + 20 >= FreeTotal(b) + 20 * heap.blocks_free
    BY Numbers DEF CoverInv, HeapInv, Good, Shape, Covered
  <2>2. FreeBytes = FreeTotal(b)
    BY DEF FreeBytes, FreeTotal, Total, FreeOnes, Blocks, MapThenSumSet, MapThenFoldSet
  <2> HIDE DEF b
  <2>3. CASE FreeOnes(b) = {}
    BY <2>1, <2>2, <2>3, FreeFacts
  <2>4. CASE FreeOnes(b) # {}
    <3>1. /\ IsFiniteSet(FreeOnes(b)) /\ Cardinality(FreeOnes(b)) \in Nat
          /\ FreeTotal(b) \in Nat
      BY <2>1, FreeFacts
    <3>2. Cardinality(FreeOnes(b)) # 0
      BY <2>4, <3>1, FS_EmptySet
    <3> QED
      BY <2>1, <2>2, <3>1, <3>2
  <2> QED
    BY <2>3, <2>4
<1>2. Spec => []CoverInv
  BY CoverInvInit, CoverInvInductive, PTL DEF Spec
<1> QED
  BY <1>1, <1>2, PTL
=============================================================================
