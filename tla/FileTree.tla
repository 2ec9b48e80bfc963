------------------------------ MODULE FileTree ------------------------------
(***************************************************************************)
(* What the RAM filesystem promises: a tree of paths.  A call adds one     *)
(* path below an existing directory, removes one with nothing below it, or *)
(* replaces the content of one file; every other path is as it was.  A     *)
(* read gives what was last written.  A call may always be refused, and    *)
(* then changes nothing, except a write, which may have lost the content.  *)
(***************************************************************************)
EXTENDS Sequences, Functions, SequencesExt

CONSTANTS
    Paths,       (* nonempty sequences of names *)
    Data,        (* the contents written *)
    Directory,   (* the node of a directory *)
    Uninit,      (* content that nobody wrote *)
    Lost         (* content given up by a write that failed *)

VARIABLES tree, reply

Done(d) == [ok |-> TRUE, data |-> d]
Refused == [ok |-> FALSE, data |-> <<>>]

Existing == DOMAIN tree
IsDir(p) == p = <<>> \/ (p \in Existing /\ tree[p] = Directory)
Files    == {p \in Existing : tree[p] # Directory}

With(t, p, v) == [q \in DOMAIN t \cup {p} |-> IF q = p THEN v ELSE t[q]]
Without(t, p) == Restrict(t, DOMAIN t \ {p})

(* A copy of lost content has the size and whatever the memory held. *)
CopyOf(v) == IF v = Lost THEN Uninit ELSE v

Init == tree = <<>> /\ reply = Refused

Make == \E p \in Paths \ Existing, v \in {Directory, <<>>} :
            /\ IsDir(Front(p))
            /\ tree' = With(tree, p, v)
            /\ reply' = Done(<<>>)

Unlink == \E p \in Existing :
            /\ \A q \in Existing : Front(q) # p
            /\ tree' = Without(tree, p)
            /\ reply' = Done(<<>>)

Write == \E p \in Files, d \in Data :
            /\ tree' = With(tree, p, d)
            /\ reply' = Done(<<>>)

Lose == \E p \in Files : tree' = With(tree, p, Lost) /\ reply' = Refused

Copy == \E p \in Files, q \in Paths \ Existing :
            /\ IsDir(Front(q))
            /\ \/ tree' = With(tree, q, CopyOf(tree[p]))
               \/ tree' = Without(With(tree, q, CopyOf(tree[p])), p)
            /\ reply' = Done(<<>>)

Read == \E p \in Files : /\ reply' = Done(IF tree[p] = Lost THEN <<>> ELSE tree[p])
                         /\ UNCHANGED tree

(* Refused, or done to something no path names. *)
NoEffect == reply' \in {Refused, Done(<<>>)} /\ UNCHANGED tree

Next == NoEffect \/ Read \/ Make \/ Unlink \/ Write \/ Lose \/ Copy

Spec == Init /\ [][Next]_<<tree, reply>>
=============================================================================
