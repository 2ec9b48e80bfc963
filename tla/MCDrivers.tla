------------------------------ MODULE MCDrivers ------------------------------
(* Two drives, the second of which is only looked for: detection leaves it *)
(* selected, there or not, in the middle of its IDENTIFY or not.  Calls    *)
(* for none, all, and one more than all of the sectors the count register  *)
(* can ask for.  The other end sends as many characters ahead of their     *)
(* echoes as raise the receive line, no more.                              *)
EXTENDS Drivers
MCDrives == {0, 1}
MCCalled == {0}
MCCounts == {0, 2, 3}
=============================================================================
