----------------------------- MODULE EventService -----------------------------
(***************************************************************************)
(* What a caller of Scheduler::addEvent and Scheduler::stopEvent relies    *)
(* on: an accepted event ends once, and whether it fires or is cancelled   *)
(* is decided at one moment - stopEvent answers true exactly when it comes *)
(* first.  Time, ids, queue and lock are not part of the promise.          *)
(***************************************************************************)
CONSTANT Events

VARIABLES
  outcome,   \* what the caller can know of each event
  open       \* events are accepted

serviceVars == <<outcome, open>>

Outcomes == {"new", "pending", "fired", "cancelled", "refused", "dropped"}

Init == outcome = [e \in Events |-> "new"] /\ open = TRUE

Becomes(e, from, to) ==
  /\ outcome[e] = from
  /\ outcome' = [outcome EXCEPT ![e] = to]
  /\ UNCHANGED open

Accept(e) == open /\ Becomes(e, "new", "pending")
Refuse(e) == ~open /\ Becomes(e, "new", "refused")
Fire(e) == Becomes(e, "pending", "fired")
Cancel(e) == Becomes(e, "pending", "cancelled")

(* stop(): from here on events are refused. *)
Close == open' = FALSE /\ UNCHANGED outcome

(* shutdown(): what is pending is lost. *)
Drop ==
  /\ open' = FALSE
  /\ outcome' = [e \in Events |->
                   IF outcome[e] = "pending" THEN "dropped" ELSE outcome[e]]

Next ==
  \/ \E e \in Events : Accept(e) \/ Refuse(e) \/ Fire(e) \/ Cancel(e)
  \/ Close
  \/ Drop

Spec == Init /\ [][Next]_serviceVars
=============================================================================
