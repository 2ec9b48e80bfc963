----------------------------- MODULE MCSyscall -----------------------------
(* A counter that wraps every 8 ticks and seconds of 3, so that no second  *)
(* ends with the counter; minutes, hours and days of 2, all passed before  *)
(* the 26th tick; four interchangeable callbacks for three places. *)
EXTENDS Syscall, TLC
MCDelays == {0, 2, 5}
MCSeconds == {1, 2}
MCStatuses == {-1, 0}
MCAddresses == {100}
MCSymmetry == Permutations(Callbacks)
=============================================================================
