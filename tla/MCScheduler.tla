---------------------------- MODULE MCScheduler ----------------------------
(* Four slots: the kernel and three processes, enough for a middle, a head *)
(* and a tail of the queue; slices of one and of two ticks.                *)
EXTENDS Scheduler
=============================================================================
