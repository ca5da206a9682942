----------------------------- MODULE MCScheduler -----------------------------
(* Small instances of Scheduler for TLC. *)
EXTENDS Scheduler, TLC

CONSTANTS th1, th2, e1, e2, e3

Symmetry == Permutations({th1, th2}) \cup Permutations({e1, e2, e3})
=============================================================================
