-------------------------------- MODULE Heap --------------------------------
(***************************************************************************)
(* The kernel heap of kernel/heap.c: a doubly linked list of blocks, each  *)
(* a header and a payload, split by best fit and merged when freed.  The   *)
(* shell and the system calls use it, never a handler, so a call is one    *)
(* step.  Sizes are 32-bit in C and wrap; WordSize stands for 2^32.        *)
(***************************************************************************)
EXTENDS Integers, FiniteSets, Functions, FiniteSetsExt

CONSTANTS
    WordSize,
    Start, Size,     (* the arguments of heap_init                         *)
    Requests,        (* sizes asked for: sys_malloc passes any word on     *)
    FreeSizeCap      (* bound of the model: no call once free_size is over *)

Header         == 20     (* sizeof(heap_block_t) *)
MIN_ALLOC_SIZE == 32
NULL           == 0

(* memory_align_up, memory_utils.c: it wraps to 0 within n - 1 of 2^32.    *)
AlignUp(a, n) == (((a + n - 1) \div n) * n) % WordSize

heap_start == AlignUp(Start, 16)
total_size == Size - (heap_start - Start)
heap_end   == heap_start + total_size

ASSUME HeapSizeAssumption ==
    /\ WordSize \in Nat /\ WordSize % 16 = 0
    /\ Start \in 1 .. WordSize - 16 /\ Size \in Nat
    /\ total_size > Header /\ heap_end < WordSize
    /\ Requests \subseteq 1 .. WordSize - 1

(* The bound is in reach of no wrap: a free adds at most the whole heap.   *)
ASSUME FreeSizeCapAssumption == FreeSizeCap \in Nat /\ FreeSizeCap + total_size < WordSize

VARIABLES
    heap,      (* the list and heap_manager's counters                     *)
    asked,     (* history: pointer somebody holds -> the size asked for    *)
    wrapped    (* history: a size has wrapped, in split_block or before    *)
               (* heap_calloc's memset, and memory outside the block was   *)
               (* written over                                             *)

vars == <<heap, asked, wrapped>>

Addresses == heap_start .. heap_end

(* A block; its magic number is written with the free flag and follows it. *)
BlockHeader == [size : 0 .. WordSize - 1, free : BOOLEAN,
                next : Addresses \cup {NULL}, prev : Addresses \cup {NULL}]

(* heap_init: one free block. *)
Init ==
    /\ heap = [block |-> [a \in {heap_start} |->
                             [size |-> total_size - Header, free |-> TRUE,
                              next |-> NULL, prev |-> NULL]],
               blocks_allocated |-> 0,
               blocks_free      |-> 1,
               free_size        |-> total_size - Header]
    /\ asked = [p \in {} |-> 0]
    /\ wrapped = FALSE

Blocks(h) == DOMAIN h.block

(* block->next->prev = to, block->prev->next = to, where there is one. *)
BackLink(b, at, to) == IF at = NULL THEN b ELSE [b EXCEPT ![at].prev = to]

-----------------------------------------------------------------------------
(* heap_malloc *)

(* mutant: rounds down *)
RoundedDown(size) == Max({(size \div 8) * 8, MIN_ALLOC_SIZE})

Rounded(size) == Max({AlignUp(size, 8), MIN_ALLOC_SIZE})

Fitting(h, size) == {a \in Blocks(h) : h.block[a].free /\ h.block[a].size >= size}

(* find_best_fit: the smallest, and of several the first; the list is in   *)
(* the order of the addresses (BlocksTile).                                *)
BestFit(h, size) ==
    CHOOSE a \in Fitting(h, size) :
        \A b \in Fitting(h, size) : \/ h.block[a].size < h.block[b].size
                                    \/ h.block[a].size = h.block[b].size /\ a <= b

(* What split_block would leave; a surplus smaller than a header wraps.    *)
Remaining(h, a, size) == (h.block[a].size - size - Header) % WordSize

Wraps(h, a, size) == h.block[a].size - size < Header

(* split_block, its writes in their order. *)
Split(h, a, size) ==
    LET new   == a + Header + size
        after == h.block[a].next
        fresh == [size |-> Remaining(h, a, size), free |-> TRUE, next |-> after, prev |-> a]
        w1    == [x \in Blocks(h) \cup {new} |-> IF x = new THEN fresh ELSE h.block[x]]
        w2    == BackLink(w1, after, new)
    IN  IF Remaining(h, a, size) < MIN_ALLOC_SIZE THEN h
        ELSE [h EXCEPT !.block       = [w2 EXCEPT ![a].next = new, ![a].size = size],
                       !.blocks_free = @ + 1]

(* The heap after a heap_malloc that gives block a, of the rounded size.   *)
Take(h, a, size) ==
    LET s == Split(h, a, size)
    IN  [s EXCEPT !.block[a].free    = FALSE,
                  !.blocks_allocated = @ + 1,
                  !.blocks_free      = @ - 1,
                  !.free_size        = (@ - (size + Header)) % WordSize]

-----------------------------------------------------------------------------
(* heap_free *)

Without(b, a) == [x \in DOMAIN b \ {a} |-> b[x]]

(* merge_free_blocks, its first half: the next block, if free, goes.       *)
MergeNext(h, a) ==
    LET n == h.block[a].next
        w == [BackLink(h.block, h.block[n].next, a) EXCEPT
                 ![a].size = @ + Header + h.block[n].size, ![a].next = h.block[n].next]
    IN  IF n = NULL \/ (n # NULL /\ ~ h.block[n].free) THEN h
        ELSE [h EXCEPT !.block = Without(w, n), !.blocks_free = @ - 1]

(* mutant: the block after the two does not learn of its new predecessor *)
MergePrevUnlinked(h, a) ==
    LET p == h.block[a].prev
        w == [h.block EXCEPT ![p].size = @ + Header + h.block[a].size,
                             ![p].next = h.block[a].next]
    IN  IF p = NULL \/ (p # NULL /\ ~ h.block[p].free) THEN h
        ELSE [h EXCEPT !.block = Without(w, a), !.blocks_free = @ - 1]

(* Its second half: the block itself goes into the previous one, if free.  *)
MergePrev(h, a) ==
    LET p == h.block[a].prev
        w == [BackLink(h.block, h.block[a].next, p) EXCEPT
                 ![p].size = @ + Header + h.block[a].size, ![p].next = h.block[a].next]
    IN  IF p = NULL \/ (p # NULL /\ ~ h.block[p].free) THEN h
        ELSE [h EXCEPT !.block = Without(w, a), !.blocks_free = @ - 1]

(* mutant: merges with the next block only *)
GiveNext(h, a) ==
    LET g == [h EXCEPT !.block[a].free    = TRUE,
                       !.blocks_allocated = @ - 1,
                       !.blocks_free      = @ + 1,
                       !.free_size        = (@ + h.block[a].size + Header) % WordSize]
    IN  MergeNext(g, a)

(* mutant: counts the payload only *)
GivePayload(h, a) ==
    LET g == [h EXCEPT !.block[a].free    = TRUE,
                       !.blocks_allocated = @ - 1,
                       !.blocks_free      = @ + 1,
                       !.free_size        = (@ + h.block[a].size) % WordSize]
    IN  MergePrev(MergeNext(g, a), a)

(* The heap after block a was freed. *)
Give(h, a) ==
    LET g == [h EXCEPT !.block[a].free    = TRUE,
                       !.blocks_allocated = @ - 1,
                       !.blocks_free      = @ + 1,
                       !.free_size        = (@ + h.block[a].size + Header) % WordSize]
    IN  MergePrev(MergeNext(g, a), a)

-----------------------------------------------------------------------------
(* The calls.  "held" is what is held when the call starts (heap_realloc   *)
(* has one pointer less to keep at the end).                               *)
Held(p, size) == [q \in DOMAIN asked \cup {p} |-> IF q = p THEN size ELSE asked[q]]
Drop(held, p) == [q \in DOMAIN held \ {p} |-> held[q]]

Mallocs(size, overrun) ==
    LET a == BestFit(heap, Rounded(size))
    IN  /\ size > 0 /\ Fitting(heap, Rounded(size)) # {}
        /\ heap' = Take(heap, a, Rounded(size))
        /\ asked' = Held(a + Header, size)
        /\ wrapped' = (Wraps(heap, a, Rounded(size)) \/ overrun)

heap_malloc(size) == Mallocs(size, FALSE)

(* Out of memory, or size 0. *)
heap_malloc_fails(size) ==
    (size = 0 \/ Fitting(heap, Rounded(size)) = {}) /\ UNCHANGED vars

(* The product wraps like any size; a wrap is noticed by dividing.  That   *)
(* of the rounding is not, and memset clears as many bytes as were asked.  *)
heap_calloc(nmemb, size) ==
    LET total == (nmemb * size) % WordSize
    IN  IF nmemb # 0 /\ total \div nmemb # size
        THEN UNCHANGED vars
        ELSE Mallocs(total, Rounded(total) < total) \/ heap_malloc_fails(total)

(* Any block ever handed out and still in the list: one that is free has   *)
(* the other magic number and is refused.                                  *)
heap_free(a) ==
    IF heap.block[a].free
    THEN UNCHANGED vars
    ELSE /\ heap' = Give(heap, a)
         /\ asked' = Drop(asked, a + Header)
         /\ UNCHANGED wrapped

(* Nothing to do if the block is large enough; otherwise a new block, a    *)
(* copy of the old payload and the old block freed.                        *)
heap_realloc(a, size) ==
    LET r == Rounded(size)
        n == BestFit(heap, r)
    IN  IF heap.block[a].free \/ size = 0
        THEN heap_free(a)
        ELSE IF r <= heap.block[a].size
        THEN asked' = Held(a + Header, size) /\ UNCHANGED <<heap, wrapped>>
        ELSE IF Fitting(heap, r) = {}
        THEN UNCHANGED vars
        ELSE /\ heap' = IF Wraps(heap, n, r) THEN Take(heap, n, r) ELSE Give(Take(heap, n, r), a)
             /\ asked' = Drop(Held(n + Header, size), a + Header)
             /\ wrapped' = Wraps(heap, n, r)

(* Nothing is modelled after memory outside a block was written over:      *)
(* whatever was there is lost.                                             *)
Next == /\ ~ wrapped /\ heap.free_size <= FreeSizeCap
        /\ \/ \E size \in Requests \cup {0} : heap_malloc(size) \/ heap_malloc_fails(size)
           \/ \E size \in Requests \cup {0} : heap_calloc(2, size)
           \/ \E a \in Blocks(heap) : heap_free(a)
           \/ \E a \in Blocks(heap), size \in Requests \cup {0} : heap_realloc(a, size)

Spec == Init /\ [][Next]_vars

-----------------------------------------------------------------------------
End(h, a) == a + Header + h.block[a].size

(* The headers, the counters and the history have their types. *)
TypeOK ==
    /\ Blocks(heap) \subseteq Addresses
    /\ \A a \in Blocks(heap) : heap.block[a] \in BlockHeader
    /\ heap.blocks_allocated \in Nat /\ heap.blocks_free \in Nat
    /\ heap.free_size \in 0 .. WordSize - 1
    /\ DOMAIN asked \subseteq Nat /\ wrapped \in BOOLEAN

(* The list tiles the heap: each block ends where the next begins, the     *)
(* last at heap_end, and the links agree in both directions.  Splits and   *)
(* merges in any order lose no byte and give none twice.                   *)
BlocksTile ==
    /\ TypeOK
    /\ ~ wrapped =>
        /\ heap_start \in Blocks(heap) /\ heap.block[heap_start].prev = NULL
        /\ \A a \in Blocks(heap) :
              IF heap.block[a].next = NULL THEN End(heap, a) = heap_end
              ELSE /\ heap.block[a].next = End(heap, a)
                   /\ End(heap, a) \in Blocks(heap)
                   /\ heap.block[End(heap, a)].prev = a
        /\ \A a \in Blocks(heap) \ {heap_start} :
              \E b \in Blocks(heap) : heap.block[b].next = a

(* "Block coalescing: Automatic merging of adjacent free blocks",          *)
(* test-enhanced-os.md: merging only at a free keeps free blocks apart.    *)
Coalesced ==
    ~ wrapped =>
        \A a \in Blocks(heap) : heap.block[a].next # NULL =>
            ~ (heap.block[a].free /\ heap.block[heap.block[a].next].free)

(* What heap_malloc promises of a block for a size: to hold it; but a size *)
(* within 7 of the last word rounds to 0, and only the minimum is promised. *)
RoomFor(size, room) ==
    IF size <= WordSize - 8 THEN room >= size ELSE room >= MIN_ALLOC_SIZE

(* Who holds a pointer holds an allocated block with the room promised for *)
(* what was asked, nobody else holds it, and every allocated block is      *)
(* somebody's: a free is refused exactly when it is the second.            *)
PointersValid ==
    ~ wrapped =>
        /\ DOMAIN asked = {a + Header : a \in {b \in Blocks(heap) : ~ heap.block[b].free}}
        /\ \A p \in DOMAIN asked : RoomFor(asked[p], heap.block[p - Header].size)
        /\ heap.blocks_allocated = Cardinality(DOMAIN asked)
        /\ heap.blocks_free = Cardinality(Blocks(heap)) - Cardinality(DOMAIN asked)

FreeBytes == MapThenSumSet(LAMBDA a : heap.block[a].size,
                           {a \in Blocks(heap) : heap.block[a].free})

(* What meminfo shows as free is never less than what is free, although    *)
(* heap_malloc subtracts what was asked for and heap_free adds the block.  *)
FreeSizeCoversFreeBytes == ~ wrapped => heap.free_size >= FreeBytes

(* "Align address upward", memory_utils.c:4: a block has room for whatever *)
(* size was asked for.  heap.c:139 rounds the last seven sizes to 0.       *)
RoomForAnySize == \A p \in DOMAIN asked : heap.block[p - Header].size >= asked[p]

(* "Only split if remaining size is worth it", heap.c:76, and "Check       *)
(* bounds" of heap_validate: no block reaches past the end of the heap.    *)
BlocksInBounds == \A a \in Blocks(heap) : End(heap, a) <= heap_end
=============================================================================
