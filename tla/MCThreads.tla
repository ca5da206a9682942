------------------------------ MODULE MCThreads ------------------------------
(***************************************************************************)
(* A small instance for TLC of the dispatcher and of the scheduler, under  *)
(* fairness.  Here the two share no state: in a behaviour one of them      *)
(* moves, and the other stays as it began.                                 *)
(***************************************************************************)
EXTENDS MCDispatcher    \* whose Init, Next and vars have no prefix

CONSTANTS th1, th2, e1, e2, NoEvent

VARIABLES
  part,
  \* of Scheduler; where Dispatcher has the name too it begins with sched
  schedState, eventList, eventIds, lastEvent, eventId, cycle, now, schedPc, schedArg,
  spc, deadline, schedSignalled, task, run, schedStatus, stopped, wrapped

\* Two events, and ids that wrap at once.
Sched == INSTANCE Scheduler WITH
  Threads <- {th1, th2}, Events <- {e1, e2}, Delays <- {1, 2}, MaxId <- 1, MaxTime <- 2,
  Spurious <- TRUE,
  threadState <- schedState, pc <- schedPc, arg <- schedArg, signalled <- schedSignalled,
  status <- schedStatus

schedVars == <<schedState, eventList, eventIds, lastEvent, eventId, cycle, now, schedPc,
               schedArg, spc, deadline, schedSignalled, task, run, schedStatus, stopped, wrapped>>
threadVars == <<part, vars, schedVars>>

ThreadsInit ==
  /\ part \in {"dispatcher", "scheduler"}
  /\ Init /\ Sched!Init

ThreadsNext ==
  /\ part' = part
  /\ IF part = "dispatcher" THEN Next ELSE UNCHANGED vars
  /\ IF part = "scheduler" THEN Sched!Next ELSE UNCHANGED schedVars
-----------------------------------------------------------------------------
(* The fairness that the modules state, each action within its part.       *)
In(p, A) == part = p /\ A

DispatcherFairness ==
  /\ \A th \in AllThreads :
       WF_vars(In("dispatcher", AddTask(th))) /\ WF_vars(In("dispatcher", Notify(th)))
  /\ WF_vars(In("dispatcher", StartWait)) /\ WF_vars(In("dispatcher", Take))
  /\ WF_vars(In("dispatcher", Wake)) /\ WF_vars(In("dispatcher", Begin))
  /\ WF_vars(In("dispatcher", Stop)) /\ WF_vars(In("dispatcher", Shutdown))
  /\ WF_vars(In("dispatcher", Finish)) /\ WF_vars(In("dispatcher", FlushNext))
  /\ WF_vars(In("dispatcher", Exit))

SchedulerFairness ==
  /\ \A th \in {th1, th2} :
       /\ WF_schedVars(In("scheduler", Sched!AddEvent(th)))
       /\ WF_schedVars(In("scheduler", Sched!Notify(th)))
  /\ WF_schedVars(In("scheduler", Sched!Tick))
  /\ WF_schedVars(In("scheduler", Sched!TestState))
  /\ WF_schedVars(In("scheduler", Sched!StartWait))
  /\ WF_schedVars(In("scheduler", Sched!WakeFromWait))
  /\ SF_schedVars(In("scheduler", Sched!Timeout))
  /\ WF_schedVars(In("scheduler", schedSignalled /\ Sched!WakeFromTimedWait))
  /\ WF_schedVars(In("scheduler", Sched!Deliver))

ThreadsSpec ==
  ThreadsInit /\ [][ThreadsNext]_threadVars /\ DispatcherFairness /\ SchedulerFairness
-----------------------------------------------------------------------------
(* Every event that was added is run or stopped in the end, whether its    *)
(* addEvent came while the thread slept or was about to (EventEnds of      *)
(* Scheduler, scheduler.cpp).                                              *)
EventEnds == Sched!EventEnds
=============================================================================
