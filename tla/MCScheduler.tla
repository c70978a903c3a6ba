---------------------------- MODULE MCScheduler ----------------------------
(* Small instances of Scheduler for TLC. *)
EXTENDS Scheduler, TLC
CONSTANTS r1, r2, t1, t2, t3
MCSymmetry == Permutations(Retries) \cup Permutations(Timers)
=============================================================================
