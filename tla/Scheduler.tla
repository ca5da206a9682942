------------------------------ MODULE Scheduler ------------------------------
(***************************************************************************)
(* The timer thread, Scheduler (800/scheduler.cpp).  Any thread may add an *)
(* event that is to fire after a delay and may later stop it by its id;    *)
(* the scheduler thread waits for the earliest event and hands it to       *)
(* Dispatcher::addTask.                                                    *)
(*                                                                         *)
(* Time is counted in units of SCHEDULER_MINTICKS.  A critical section of  *)
(* m_eventLock is one step; the loop's test of m_threadState, which is     *)
(* made without the lock, and the notification, which addEvent sends after *)
(* it has unlocked, are steps of their own.                                *)
(***************************************************************************)
EXTENDS Naturals, FiniteSets

CONSTANTS
  Threads,    \* threads that call addEvent and stopEvent
  Events,     \* SchedulerTask objects; each is created at most once
  NoEvent,
  Delays,     \* the delays asked for, in units of SCHEDULER_MINTICKS
  MaxId,      \* the largest event id, 0xFFFFFFFF in the code
  MaxTime,    \* bound on the clock
  Spurious    \* a condition variable may return without a notification

ASSUME ConstantsAssumption ==
  /\ NoEvent \notin Events
  /\ Delays \subseteq Nat \ {0}
  /\ MaxId \in Nat \ {0}
  /\ MaxTime \in Nat
  /\ Spurious \in BOOLEAN

VARIABLES
  threadState,  \* m_threadState
  eventList,    \* the events in m_eventList
  eventIds,     \* m_eventIds
  lastEvent,    \* m_lastEvent
  eventId,      \* m_eventId of each event, 0 before it has one
  cycle,        \* the time at which an event is due
  now,          \* boost::get_system_time()
  pc,           \* where each calling thread is
  arg,          \* the event a thread is passing to addEvent
  spc,          \* where the scheduler thread is
  deadline,     \* the time its timed_wait waits for
  signalled,    \* m_eventSignal was notified since the wait began
  task, run,    \* its local variables
  status,       \* what has become of each event
  stopped,      \* history: the events of which stopEvent said that it stopped them
  wrapped       \* history: the ids have begun again at 1

vars == <<threadState, eventList, eventIds, lastEvent, eventId, cycle, now, pc,
          arg, spc, deadline, signalled, task, run, status, stopped, wrapped>>

(* "pending": in m_eventList; "taken": in the scheduler thread's hands;    *)
(* "passed": given to Dispatcher::addTask; "refused" and "dropped" are     *)
(* events that addEvent or shutdown() leaves behind without deleting them. *)
Statuses == {"new", "adding", "pending", "taken", "passed", "deleted", "refused",
             "dropped"}

(* "undefined": top() was called on an empty queue; nothing is known of    *)
(* what the process does from there.                                       *)
SchedulerPcs == {"loop", "lock", "wait", "timedWait", "taken", "exited", "undefined"}

TypeOK ==
  /\ threadState \in {"running", "closing", "terminated"}
  /\ eventList \subseteq Events
  /\ eventIds \subseteq 1 .. MaxId
  /\ lastEvent \in 0 .. MaxId
  /\ eventId \in [Events -> 0 .. MaxId]
  /\ cycle \in [Events -> Nat]
  /\ now \in Nat
  /\ pc \in [Threads -> {"idle", "add", "notify"}]
  /\ arg \in [Threads -> Events \cup {NoEvent}]
  /\ spc \in SchedulerPcs
  /\ deadline \in Nat
  /\ signalled \in BOOLEAN
  /\ task \in Events \cup {NoEvent}
  /\ run \in BOOLEAN
  /\ status \in [Events -> Statuses]
  /\ stopped \subseteq Events
  /\ wrapped \in BOOLEAN

Init ==
  /\ threadState = "running"
  /\ eventList = {}
  /\ eventIds = {}
  /\ lastEvent = 0
  /\ eventId = [e \in Events |-> 0]
  /\ cycle = [e \in Events |-> 0]
  /\ now = 0
  /\ pc = [th \in Threads |-> "idle"]
  /\ arg = [th \in Threads |-> NoEvent]
  /\ spc = "loop"
  /\ deadline = 0
  /\ signalled = FALSE
  /\ task = NoEvent
  /\ run = FALSE
  /\ status = [e \in Events |-> "new"]
  /\ stopped = {}
  /\ wrapped = FALSE

Alive == spc # "undefined"

Tick ==
  /\ Alive
  /\ now < MaxTime
  /\ now' = now + 1
  /\ UNCHANGED <<threadState, eventList, eventIds, lastEvent, eventId, cycle, pc,
                 arg, spc, deadline, signalled, task, run, status, stopped, wrapped>>

-----------------------------------------------------------------------------
(* addEvent and stopEvent.                                                 *)

(* createSchedulerTask: a delay is at least SCHEDULER_MINTICKS, one unit.  *)
CreateTask(th, e, delay) ==
  /\ Alive
  /\ pc[th] = "idle"
  /\ status[e] = "new"
  /\ now + delay <= MaxTime
  /\ cycle' = [cycle EXCEPT ![e] = now + delay]
  /\ status' = [status EXCEPT ![e] = "adding"]
  /\ arg' = [arg EXCEPT ![th] = e]
  /\ pc' = [pc EXCEPT ![th] = "add"]
  /\ UNCHANGED <<threadState, eventList, eventIds, lastEvent, eventId, now, spc,
                 deadline, signalled, task, run, stopped, wrapped>>

(* Each mutated form precedes the definition it mutates. *)
NextIdNoWrap == lastEvent + 1

NextId == IF lastEvent >= MaxId THEN 1 ELSE lastEvent + 1

(* The mutated signal compares with the bottom of the queue. *)
SignalIfLast(e) == \A f \in eventList : cycle[e] > cycle[f]

SignalNever(e) == FALSE

(* signal = (task == m_eventList.top()), read after the push: an event with *)
(* an equal cycle that was there before stays on top.                      *)
SignalIfFirst(e) == \A f \in eventList : cycle[e] < cycle[f]

AcceptsWhileClosing == threadState # "terminated"

Accepts == threadState = "running"

AddEvent(th) ==
  LET e == arg[th] IN
  /\ Alive
  /\ pc[th] = "add"
  /\ IF Accepts
     THEN /\ lastEvent' = NextId
          /\ wrapped' = (wrapped \/ lastEvent >= MaxId)
          /\ eventId' = [eventId EXCEPT ![e] = NextId]
          /\ eventIds' = eventIds \cup {NextId}
          /\ eventList' = eventList \cup {e}
          /\ status' = [status EXCEPT ![e] = "pending"]
          /\ pc' = [pc EXCEPT ![th] = IF SignalIfFirst(e) THEN "notify" ELSE "idle"]
     ELSE /\ status' = [status EXCEPT ![e] = "refused"]
          /\ pc' = [pc EXCEPT ![th] = "idle"]
          /\ UNCHANGED <<lastEvent, wrapped, eventId, eventIds, eventList>>
  /\ arg' = [arg EXCEPT ![th] = NoEvent]
  /\ UNCHANGED <<threadState, cycle, now, spc, deadline, signalled, task, run, stopped>>

(* m_eventSignal.notify_one(): lost unless the scheduler thread waits. *)
Notify(th) ==
  /\ Alive
  /\ pc[th] = "notify"
  /\ pc' = [pc EXCEPT ![th] = "idle"]
  /\ signalled' = (signalled \/ spc \in {"wait", "timedWait"})
  /\ UNCHANGED <<threadState, eventList, eventIds, lastEvent, eventId, cycle, now,
                 arg, spc, deadline, task, run, status, stopped, wrapped>>

IdsKept(id) == eventIds

IdsWithout(id) == eventIds \ {id}

(* stopEvent with the id that addEvent returned for e, which may be that   *)
(* of an event long gone.  It returns false, and changes nothing, when the *)
(* id is not active.                                                       *)
StopEvent(e) ==
  /\ Alive
  /\ eventId[e] \in eventIds
  /\ eventIds' = IdsWithout(eventId[e])
  /\ stopped' = stopped \cup {e}
  /\ UNCHANGED <<threadState, eventList, lastEvent, eventId, cycle, now, pc, arg,
                 spc, deadline, signalled, task, run, status, wrapped>>

Stop ==
  /\ Alive
  /\ threadState = "running"
  /\ threadState' = "closing"
  /\ UNCHANGED <<eventList, eventIds, lastEvent, eventId, cycle, now, pc, arg, spc,
                 deadline, signalled, task, run, status, stopped, wrapped>>

(* The queue is emptied without deleting what is in it, and the scheduler  *)
(* thread is not notified.                                                 *)
Shutdown ==
  /\ Alive
  /\ threadState # "terminated"
  /\ threadState' = "terminated"
  /\ eventList' = {}
  /\ eventIds' = {}
  /\ status' = [e \in Events |-> IF status[e] = "pending" THEN "dropped" ELSE status[e]]
  /\ UNCHANGED <<lastEvent, eventId, cycle, now, pc, arg, spc, deadline, signalled,
                 task, run, stopped, wrapped>>

-----------------------------------------------------------------------------
(* The scheduler thread.                                                   *)

(* The loop condition reads m_threadState without the lock. *)
TestState ==
  /\ spc = "loop"
  /\ spc' = IF threadState = "terminated" THEN "exited" ELSE "lock"
  /\ UNCHANGED <<threadState, eventList, eventIds, lastEvent, eventId, cycle, now, pc,
                 arg, deadline, signalled, task, run, status, stopped, wrapped>>

TopsReversed == {e \in eventList : \A f \in eventList : cycle[e] >= cycle[f]}

(* The events that m_eventList.top() may return. *)
Tops == {e \in eventList : \A f \in eventList : cycle[e] <= cycle[f]}

StartWait ==
  /\ spc = "lock"
  /\ IF eventList = {}
     THEN spc' = "wait" /\ UNCHANGED deadline
     ELSE /\ spc' = "timedWait"
          /\ deadline' \in {cycle[e] : e \in Tops}
  /\ signalled' = FALSE
  /\ UNCHANGED <<threadState, eventList, eventIds, lastEvent, eventId, cycle, now, pc,
                 arg, task, run, status, stopped, wrapped>>

AlwaysRun(e) == TRUE

NotStopped(e) == eventId[e] \in eventIds

(* "ok we had a timeout, so there has to be an event we have to execute":  *)
(* what the thread does whenever ret is false - the event on top is popped, *)
(* whether or not it is due, and top() is undefined on an empty queue.     *)
TakeTop ==
  IF threadState = "terminated"
  THEN /\ spc' = "loop"
       /\ UNCHANGED <<eventList, eventIds, task, run, status>>
  ELSE \/ /\ eventList = {}
          /\ spc' = "undefined"
          /\ UNCHANGED <<eventList, eventIds, task, run, status>>
       \/ \E e \in Tops :
            /\ eventList' = eventList \ {e}
            /\ run' = NotStopped(e)
            /\ eventIds' = eventIds \ {eventId[e]}
            /\ task' = e
            /\ status' = [status EXCEPT ![e] = "taken"]
            /\ spc' = "taken"

EndWait ==
  /\ TakeTop
  /\ signalled' = FALSE
  /\ UNCHANGED <<threadState, lastEvent, eventId, cycle, now, pc, arg, deadline,
                 stopped, wrapped>>

(* wait() on the empty list returns nothing that is stored: ret stays false. *)
WakeFromWait == spc = "wait" /\ signalled /\ EndWait
SpuriousWake == Spurious /\ spc = "wait" /\ ~signalled /\ EndWait

(* timed_wait returns false. *)
Timeout == spc = "timedWait" /\ now >= deadline /\ EndWait

(* timed_wait returns true, after a notification or spuriously: the list   *)
(* is looked at again.                                                     *)
WakeFromTimedWait ==
  /\ spc = "timedWait"
  /\ signalled \/ Spurious
  /\ spc' = "loop"
  /\ signalled' = FALSE
  /\ UNCHANGED <<threadState, eventList, eventIds, lastEvent, eventId, cycle, now, pc,
                 arg, deadline, task, run, status, stopped, wrapped>>

(* Outside the lock the event is handed on, or deleted if it was stopped. *)
Deliver ==
  /\ spc = "taken"
  /\ status' = [status EXCEPT ![task] = IF run THEN "passed" ELSE "deleted"]
  /\ task' = NoEvent
  /\ spc' = "loop"
  /\ UNCHANGED <<threadState, eventList, eventIds, lastEvent, eventId, cycle, now, pc,
                 arg, deadline, signalled, run, stopped, wrapped>>

Caller(th) ==
  \/ \E e \in Events, delay \in Delays : CreateTask(th, e, delay)
  \/ AddEvent(th)
  \/ Notify(th)

SchedulerThread ==
  \/ TestState
  \/ StartWait
  \/ WakeFromWait
  \/ SpuriousWake
  \/ Timeout
  \/ WakeFromTimedWait
  \/ Deliver

Next ==
  \/ Tick
  \/ \E th \in Threads : Caller(th)
  \/ \E e \in Events : StopEvent(e)
  \/ Stop
  \/ Shutdown
  \/ SchedulerThread

Spec == Init /\ [][Next]_vars

(* The clock and every thread go on; a waiting scheduler thread returns    *)
(* once it was notified or its time is over, and does not return           *)
(* spuriously for ever instead of timing out.  Nobody has to call addEvent, *)
(* stopEvent, stop or shutdown, and nothing has to wake spuriously.        *)
Fairness ==
  /\ WF_vars(Tick)
  /\ \A th \in Threads : WF_vars(AddEvent(th)) /\ WF_vars(Notify(th))
  /\ WF_vars(TestState) /\ WF_vars(StartWait) /\ WF_vars(WakeFromWait)
  /\ SF_vars(Timeout) /\ WF_vars(signalled /\ WakeFromTimedWait) /\ WF_vars(Deliver)

FairSpec == Spec /\ Fairness

-----------------------------------------------------------------------------
(* Properties.                                                             *)

(* Until the ids wrap, an event's id is active exactly while the event is  *)
(* pending and nobody has stopped it, and no two events share an id.       *)
IdsMatchEvents ==
  ~wrapped =>
    /\ eventIds = {eventId[e] : e \in {f \in Events : status[f] = "pending"} \ stopped}
    /\ \A e, f \in Events : eventId[e] = eventId[f] /\ eventId[e] # 0 => e = f

(* Until the ids wrap, an event of which stopEvent returned true is never  *)
(* run, and one is deleted unrun only if it was stopped: stopEvent and the *)
(* firing of the event cannot both win, whichever thread comes first.      *)
StopIsFinal ==
  ~wrapped => \A e \in Events : /\ status[e] = "passed" => e \notin stopped
                                /\ status[e] = "deleted" => e \in stopped

(* addEvent notifies only for an event that comes to the top.  That is     *)
(* enough: while the scheduler thread sleeps un-notified past the cycle of *)
(* a pending event, or without a time limit although there is one, a       *)
(* thread that has added an event is about to notify it.                   *)
NoOversleep ==
  /\ spc = "timedWait" /\ ~signalled /\ (\E e \in eventList : cycle[e] < deadline)
       => \E th \in Threads : pc[th] = "notify"
  /\ spc = "wait" /\ ~signalled /\ eventList # {}
       => \E th \in Threads : pc[th] = "notify"

(* Whenever an event is taken before it is due, the thread had gone to     *)
(* sleep on an empty list: a timed_wait that times out takes due events    *)
(* only, even when the list has changed while the thread slept.            *)
EarlyOnlyFromEmptyWait ==
  [][\A e \in Events :
       status[e] = "pending" /\ status'[e] = "taken" /\ now < cycle[e] => spc = "wait"]_vars

(* Every pending event is handed to the dispatcher or given up in the end, *)
(* unless the process is lost to the empty queue.                          *)
EventEnds ==
  \A e \in Events :
    status[e] = "pending" ~> status[e] \in {"passed", "deleted", "dropped"} \/ ~Alive

(* What the caller can know of an event, as long as the ids do not wrap.   *)
Outcome(e) ==
  CASE status[e] \in {"new", "adding"} -> "new"
    [] status[e] = "refused" -> "refused"
    [] status[e] = "passed" \/ (status[e] = "taken" /\ run) -> "fired"
    [] status[e] = "deleted" \/ (status[e] = "taken" /\ ~run) -> "cancelled"
    [] status[e] \in {"pending", "dropped"} /\ e \in stopped -> "cancelled"
    [] OTHER -> status[e]

CallerView ==
  INSTANCE EventService WITH
    open <- threadState = "running",
    outcome <- [e \in Events |-> Outcome(e)]

(* Scheduler implements EventService: stopping, firing and refusing an     *)
(* event each take effect in one step, whatever the threads interleave.    *)
ImplementsEventService == CallerView!Spec

(* The comment in schedulerThread: no event is run unless its time has     *)
(* come.  It fails for an event added while the thread waits on an empty   *)
(* list, because ret is false then too.                                    *)
RunOnlyWhenDue ==
  [][\A e \in Events : status[e] = "pending" /\ status'[e] = "taken" => now >= cycle[e]]_vars

(* What the callers of addEvent and stopEvent keep in their hands, the id, *)
(* stands for their event and for no other, until it is stopped or fired;  *)
(* never both.                                                             *)
EventsAccounted == TypeOK /\ IdsMatchEvents /\ StopIsFinal
=============================================================================
