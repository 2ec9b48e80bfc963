---------------------------- MODULE BlockStore ----------------------------
(***************************************************************************)
(* What a caller may assume of malloc, calloc, realloc and free: a block   *)
(* is a stretch of memory nobody else holds, and what the holder put in it *)
(* stays there until the holder frees it, also when realloc moves it.  A   *)
(* call may fail, and then nothing happens.                                *)
(***************************************************************************)
EXTENDS Integers

CONSTANTS
    Arena,              (* the addresses blocks are cut from               *)
    Sizes,
    Unknown, Zeroed,    (* what a new block holds                          *)
    Contents            (* what it may hold, the two above included        *)

VARIABLE held           (* pointer -> [size, content]                      *)

Init == held = [p \in {} |-> [size |-> 0, content |-> Unknown]]

Extent(p, size) == p .. p + size - 1

(* size bytes at p are in the arena and in no block held, except "but".    *)
Vacant(p, size, but) ==
    /\ Extent(p, size) \subseteq Arena
    /\ \A q \in DOMAIN held \ but : Extent(p, size) \cap Extent(q, held[q].size) = {}

With(h, p, b) == [q \in DOMAIN h \cup {p} |-> IF q = p THEN b ELSE h[q]]
Without(h, p) == [q \in DOMAIN h \ {p} |-> h[q]]

Allocate(p, size, content) ==
    /\ Vacant(p, size, {})
    /\ held' = With(held, p, [size |-> size, content |-> content])

Fill(p, content) == held' = [held EXCEPT ![p].content = content]

Release(p) == held' = Without(held, p)

(* In place, or moved to memory the old block had no part of. *)
Resize(p, q, size) ==
    /\ Vacant(q, size, IF q = p THEN {p} ELSE {})
    /\ held' = With(Without(held, p), q, [size |-> size, content |-> held[p].content])

New == DOMAIN held' \ DOMAIN held

Next == \/ \E p \in New, size \in Sizes, content \in {Unknown, Zeroed} : Allocate(p, size, content)
        \/ \E p \in DOMAIN held, content \in Contents : Fill(p, content)
        \/ \E p \in DOMAIN held : Release(p)
        \/ \E p \in DOMAIN held, size \in Sizes : \E q \in New \cup {p} : Resize(p, q, size)

Spec == Init /\ [][Next]_held
=============================================================================
