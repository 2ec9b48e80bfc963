----------------------------- MODULE MCKeyboard -----------------------------
(* One key of each kind, a ring of three slots: small enough for           *)
(* the ring to fill, wrap and drop while a pop is between two instructions.*)
EXTENDS Keyboard
=============================================================================
