----------------------------- MODULE MCDispatcher -----------------------------
(* Small instances of Dispatcher for TLC. *)
EXTENDS Dispatcher

CONSTANTS net, sched, t1, t2, t3, t4
=============================================================================
