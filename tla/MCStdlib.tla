------------------------------ MODULE MCStdlib ------------------------------
(* 144 bytes: up to five blocks, so that a freed block has free and held   *)
(* neighbours on either side.  Requests that need rounding, that leave a   *)
(* surplus too small to split, and too large; calloc's product of the last *)
(* wraps to 4, below the minimum.                                          *)
EXTENDS Stdlib
MCRequests == {12, 62, 32770}
=============================================================================
