------------------------------ MODULE MCEvents ------------------------------
(***************************************************************************)
(* A small instance for TLC of the scheduler, and of a player whose events *)
(* it passes on.  Here the two share no state: in a behaviour one of them  *)
(* moves, and the other stays as it began.                                 *)
(***************************************************************************)
EXTENDS MCScheduler,   \* whose Init, Next and vars have no prefix
        Walking

VARIABLE part

EventsInit == part \in {"scheduler", "walking"} /\ Init /\ WalkInit

EventsNext ==
  /\ part' = part
  /\ IF part = "scheduler" THEN Next ELSE UNCHANGED vars
  /\ IF part = "walking" THEN WalkNext ELSE UNCHANGED walkVars

EventsSpec == EventsInit /\ [][EventsNext]_<<part, vars, walkVars>>
=============================================================================
