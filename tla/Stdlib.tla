------------------------------- MODULE Stdlib -------------------------------
(***************************************************************************)
(* The C library's heap (libc/stdlib.c), which the filesystem keeps its    *)
(* files in: a singly linked list of blocks in a static array, each a      *)
(* header and a payload, searched first fit, split at its front, and       *)
(* merged, when freed, with one neighbour.  No handler calls it, so a call *)
(* is one step.  WordSize stands for 2^32.                                 *)
(***************************************************************************)
EXTENDS Integers, FiniteSets, FiniteSetsExt

CONSTANTS
    WordSize,
    HeapStart, HEAP_SIZE,   (* the array heap[HEAP_SIZE]                   *)
    Requests                (* sizes asked for                             *)

(* What malloc is given, by its callers or by calloc; calloc's product is  *)
(* a size_t.                                                               *)
Sizes == Requests \cup {0} \cup {(2 * size) % WordSize : size \in Requests}

(* Sizes within 7 of WordSize round to 0, and are excluded: the one caller *)
(* is fs.c, which asks for the length of a string in memory.               *)
ASSUME StdlibAssumption ==
    /\ HeapStart \in Nat \ {0} /\ HEAP_SIZE \in Nat \ 0 .. 11
    /\ WordSize \in Nat /\ HeapStart + HEAP_SIZE < WordSize
    /\ Requests \subseteq Nat \ {0} /\ Sizes \subseteq 0 .. WordSize - 8

NULL   == 0
Header == 12            (* sizeof(memory_block_t) *)
MinPayload == 16

(* What the model knows of a block's bytes. *)
Contents == {"unknown", "zero", "written"}

VARIABLES
    block,      (* the list by address of header: [size, free, next]       *)
    asked,      (* history: pointer somebody holds -> the size asked for   *)
    content     (* what the bytes at a pointer somebody holds are          *)

vars == <<block, asked, content>>

HeapEnd == HeapStart + HEAP_SIZE

(* initialize_heap, which the first malloc calls. *)
Init == /\ block = [a \in {HeapStart} |->
                      [size |-> HEAP_SIZE - Header, free |-> TRUE, next |-> NULL]]
        /\ asked = [p \in {} |-> 0]
        /\ content = [p \in {} |-> "unknown"]

Blocks == DOMAIN block
EndOf(b, a) == a + Header + b[a].size

-----------------------------------------------------------------------------
Rounded(size) == Max({((size + 7) \div 8) * 8, MinPayload})

Fitting(size) == {a \in Blocks : block[a].free /\ block[a].size >= size}

(* The first in the list, which is in the order of the addresses. *)
FirstFit(size) == Min(Fitting(size))

(* mutant: the header of the new block is not counted *)
SplitShort(a, size) ==
    LET new == a + Header + size
    IN  IF block[a].size < size + Header + MinPayload THEN block
        ELSE [x \in Blocks \cup {new} |->
                 IF x = new THEN [size |-> block[a].size - size, free |-> TRUE, next |-> block[a].next]
                 ELSE IF x = a THEN [size |-> size, free |-> block[a].free, next |-> new]
                 ELSE block[x]]

(* A block with room for another header and payload is split at its front. *)
Split(a, size) ==
    LET new == a + Header + size
    IN  IF block[a].size < size + Header + MinPayload THEN block
        ELSE [x \in Blocks \cup {new} |->
                 IF x = new THEN [size |-> block[a].size - size - Header, free |-> TRUE,
                                  next |-> block[a].next]
                 ELSE IF x = a THEN [size |-> size, free |-> block[a].free, next |-> new]
                 ELSE block[x]]

Taken(a, size) == [Split(a, size) EXCEPT ![a].free = FALSE]

(* Block n, next to a in the list, becomes part of a. *)
Merged(b, a, n) ==
    [x \in DOMAIN b \ {n} |->
        IF x = a THEN [size |-> b[a].size + Header + b[n].size, free |-> b[a].free, next |-> b[n].next]
        ELSE b[x]]

(* mutant: looks at the block after first *)
FreedAfterFirst(b, a) ==
    LET f      == [b EXCEPT ![a].free = TRUE]
        before == {x \in DOMAIN f : f[x].free /\ EndOf(f, x) = a}
    IN  IF f[a].next # NULL /\ f[IF f[a].next = NULL THEN a ELSE f[a].next].free
        THEN Merged(f, a, f[a].next)
        ELSE IF before # {} THEN Merged(f, Max(before), a) ELSE f

(* The walk of free meets a free block that ends where this one begins     *)
(* before it meets this one.  It then takes the merged block for the freed *)
(* one, which the walk has passed: only in the absence of such a block is  *)
(* the block after looked at.                                              *)
Freed(b, a) ==
    LET f      == [b EXCEPT ![a].free = TRUE]
        before == {x \in DOMAIN f : f[x].free /\ EndOf(f, x) = a}
        after  == {x \in DOMAIN f : f[x].free /\ x = f[a].next}
    IN  IF before # {} THEN Merged(f, Max(before), a)
        ELSE IF after # {} THEN Merged(f, a, Max(after)) ELSE f

-----------------------------------------------------------------------------
With(f, p, y) == [q \in DOMAIN f \cup {p} |-> IF q = p THEN y ELSE f[q]]
Without(f, p) == [q \in DOMAIN f \ {p} |-> f[q]]

(* malloc, and what it leaves in the block: "unknown", or calloc's zeros.  *)
Allocated(size, bytes) ==
    LET a == FirstFit(Rounded(size))
    IN  IF Fitting(Rounded(size)) = {} THEN UNCHANGED vars
        ELSE /\ block' = Taken(a, Rounded(size))
             /\ asked' = With(asked, a + Header, size)
             /\ content' = With(content, a + Header, bytes)

malloc(size) == Allocated(size, "unknown")

calloc(nmemb, size) == Allocated((nmemb * size) % WordSize, "zero")

free(p) == /\ block' = Freed(block, p - Header)
           /\ asked' = Without(asked, p)
           /\ content' = Without(content, p)

(* mutant: the old payload is not copied *)
realloc_lossy(p, size) ==
    LET a == FirstFit(Rounded(size))
        q == a + Header
    IN  IF block[p - Header].size >= size
        THEN asked' = With(asked, p, size) /\ UNCHANGED <<block, content>>
        ELSE IF Fitting(Rounded(size)) = {} THEN UNCHANGED vars
        ELSE /\ block' = Freed(Taken(a, Rounded(size)), p - Header)
             /\ asked' = Without(With(asked, q, size), p)
             /\ content' = Without(With(content, q, "unknown"), p)

(* Large enough: the same pointer, the block as it is.  Otherwise a new    *)
(* block, the old payload copied into it, and the old block freed.         *)
realloc(p, size) ==
    LET a == FirstFit(Rounded(size))
        q == a + Header
    IN  IF size = 0 THEN free(p)
        ELSE IF block[p - Header].size >= size
        THEN asked' = With(asked, p, size) /\ UNCHANGED <<block, content>>
        ELSE IF Fitting(Rounded(size)) = {} THEN UNCHANGED vars
        ELSE /\ block' = Freed(Taken(a, Rounded(size)), p - Header)
             /\ asked' = Without(With(asked, q, size), p)
             /\ content' = Without(With(content, q, content[p]), p)

(* The holder writes into its block. *)
Store(p) == content' = [content EXCEPT ![p] = "written"] /\ UNCHANGED <<block, asked>>

(* Callers that free and resize only what they hold. *)
Next == \/ \E size \in Requests \cup {0} : malloc(size)
        \/ \E size \in Requests : calloc(2, size)
        \/ \E p \in DOMAIN asked : free(p) \/ Store(p)
        \/ \E p \in DOMAIN asked, size \in Requests \cup {0} : realloc(p, size)

Spec == Init /\ [][Next]_vars

-----------------------------------------------------------------------------
(* The list tiles the array in the order of the addresses, every pointer   *)
(* held is to an allocated block of at least the size asked for, and every *)
(* allocated block is held: splits and one-sided merges in any order lose  *)
(* no byte and give none twice.                                            *)
BlocksTile ==
    /\ HeapStart \in Blocks
    /\ \A a \in Blocks : IF block[a].next = NULL THEN EndOf(block, a) = HeapEnd
                        ELSE block[a].next = EndOf(block, a) /\ block[a].next \in Blocks
    /\ \A a \in Blocks \ {HeapStart} : \E b \in Blocks : block[b].next = a
    /\ DOMAIN asked = {a + Header : a \in {b \in Blocks : ~ block[b].free}}
    /\ \A p \in DOMAIN asked : asked[p] <= block[p - Header].size
    /\ DOMAIN content = DOMAIN asked

FreeBefore(b, a) == \E x \in DOMAIN b : b[x].free /\ b[x].next = a

(* "Merge with adjacent free blocks", stdlib.c:103, as far as it goes: a   *)
(* block is never made free behind a free block, so free blocks side by    *)
(* side come only from a free that had one on either side.                 *)
FreedJoinsBefore ==
    [][\A a \in Blocks \cap DOMAIN block' :
          ~ block[a].free /\ block'[a].free => ~ FreeBefore(block', a)]_vars

Abs == INSTANCE BlockStore
    WITH Arena    <- HeapStart .. HeapEnd - 1,
         Unknown  <- "unknown", Zeroed <- "zero",
         held     <- [p \in DOMAIN asked |-> [size |-> asked[p], content |-> content[p]]]

(* What fs.c assumes of the heap its files are in: nobody is given memory  *)
(* somebody holds, and what a file's block holds stays until it is freed,  *)
(* also when realloc moves it.                                             *)
ImplementsBlockStore == Abs!Spec

(* "Merge with adjacent free blocks": no two are left side by side.        *)
Coalesced == \A a \in Blocks : block[a].free => ~ FreeBefore(block, a)
=============================================================================
