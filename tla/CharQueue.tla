----------------------------- MODULE CharQueue -----------------------------
(***************************************************************************)
(* What the keyboard driver promises the shell: a bounded first-in         *)
(* first-out queue of characters.  A character typed while Capacity others *)
(* wait is dropped; every other one is delivered once, in order.           *)
(***************************************************************************)
EXTENDS Integers, Sequences

CONSTANTS Chars, Capacity, NoChar

VARIABLES waiting,   (* characters typed and not delivered, oldest first  *)
          inHand     (* the character the shell is handling, or NoChar    *)

Init == waiting = <<>> /\ inHand = NoChar

Type(ch) == /\ waiting' = IF Len(waiting) < Capacity THEN Append(waiting, ch) ELSE waiting
            /\ UNCHANGED inHand

Deliver == /\ waiting # <<>> /\ inHand = NoChar
           /\ inHand' = Head(waiting)
           /\ waiting' = Tail(waiting)

Handled == inHand # NoChar /\ inHand' = NoChar /\ UNCHANGED waiting

Next == (\E ch \in Chars : Type(ch)) \/ Deliver \/ Handled

Spec == Init /\ [][Next]_<<waiting, inHand>>
=============================================================================
