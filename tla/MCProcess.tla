----------------------------- MODULE MCProcess -----------------------------
(* Three slots beside the kernel's, so the queue has a head, a middle and  *)
(* a tail, with slices of one tick and of two.  Twelve frames to lend:     *)
(* three processes fit, and with the leaks of destroyed and failed ones a  *)
(* creation runs out of frames at each of its four allocations.            *)
EXTENDS Process
=============================================================================
