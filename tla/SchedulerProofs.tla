--------------------------- MODULE SchedulerProofs ---------------------------
(***************************************************************************)
(* Machine-checked proofs about the timer thread of module Scheduler, for  *)
(* any set of threads and events, any delays and any largest id.           *)
(***************************************************************************)
EXTENDS Scheduler, FiniteSetTheorems, TLAPS

(* Who has an event in hand: the thread that is in addEvent with it, the   *)
(* list, or the scheduler thread.                                          *)
Holders ==
  /\ \A th \in Threads :
       pc[th] = "add" => arg[th] \in Events /\ status[arg[th]] = "adding"
  /\ \A th, th2 \in Threads :
       pc[th] = "add" /\ pc[th2] = "add" /\ arg[th] = arg[th2] => th = th2
  /\ eventList = {e \in Events : status[e] = "pending"}
  /\ spc = "taken" => task \in Events
  /\ \A e \in Events : status[e] = "taken" <=> spc = "taken" /\ task = e

(* An event has an id from the moment it is accepted, whichever way it     *)
(* goes afterwards, and only an accepted event can have been stopped.      *)
Numbered ==
  /\ \A e \in Events : eventId[e] = 0 <=> status[e] \in {"new", "adding", "refused"}
  /\ \A e \in stopped : eventId[e] # 0

(* Until the ids wrap, the ids given out are the ones up to m_lastEvent,   *)
(* and what the thread will do with the event it has taken was decided by  *)
(* stopEvent.                                                              *)
IdsGrow ==
  ~wrapped => /\ \A e \in Events : eventId[e] <= lastEvent
              /\ spc = "taken" => (run <=> task \notin stopped)

(* The inductive invariant of EventsAccounted. *)
Accounts ==
  TypeOK /\ Holders /\ Numbered /\ IdsGrow /\ IdsMatchEvents /\ StopIsFinal

(* While the thread sleeps with a time limit, the list holds an event that *)
(* is due by then: only the scheduler thread removes one, and shutdown()   *)
(* removes them all.                                                       *)
SleepHasReason ==
  spc = "timedWait" /\ threadState # "terminated"
    => \E e \in eventList : cycle[e] <= deadline
-----------------------------------------------------------------------------
(* The id that addEvent gives out is one, and a new one until they wrap.   *)
LEMMA NextIdProperties ==
  ASSUME TypeOK
  PROVE  /\ NextId \in 1 .. MaxId
         /\ lastEvent < MaxId => NextId = lastEvent + 1
BY ConstantsAssumption DEF TypeOK, NextId

(* The thread waits for the cycle of an event that is in the list.         *)
LEMMA TopsProperties ==
  ASSUME TypeOK
  PROVE  /\ Tops \subseteq eventList
         /\ \A e \in Tops : cycle[e] \in Nat
         /\ \A e \in Tops, f \in eventList : cycle[e] <= cycle[f]
BY DEF TypeOK, Tops

LEMMA AccountsInit == Init => Accounts
<1>. SUFFICES ASSUME Init
              PROVE  Accounts
  OBVIOUS
<1>. USE ConstantsAssumption
<1>1. TypeOK
  <2>1. /\ lastEvent \in 0 .. MaxId
        /\ eventId \in [Events -> 0 .. MaxId]
        /\ cycle \in [Events -> Nat]
    BY DEF Init
  <2>2. /\ pc \in [Threads -> {"idle", "add", "notify"}]
        /\ arg \in [Threads -> Events \cup {NoEvent}]
        /\ status \in [Events -> Statuses]
    BY DEF Init, Statuses
  <2>3. /\ threadState \in {"running", "closing", "terminated"}
        /\ eventList \subseteq Events
        /\ eventIds \subseteq 1 .. MaxId
        /\ now \in Nat
        /\ spc \in SchedulerPcs
        /\ deadline \in Nat
        /\ signalled \in BOOLEAN
        /\ task \in Events \cup {NoEvent}
        /\ run \in BOOLEAN
        /\ stopped \subseteq Events
        /\ wrapped \in BOOLEAN
    BY DEF Init, SchedulerPcs
  <2>. QED
    BY <2>1, <2>2, <2>3 DEF TypeOK
<1>2. \A e \in Events : status[e] = "new" /\ eventId[e] = 0
  BY DEF Init
<1>3. Holders
  BY <1>2 DEF Init, Holders
<1>4. Numbered /\ IdsGrow
  BY <1>2 DEF Init, Numbered, IdsGrow
<1>5. IdsMatchEvents /\ StopIsFinal
  BY <1>2 DEF Init, IdsMatchEvents, StopIsFinal
<1>. QED
  BY <1>1, <1>3, <1>4, <1>5 DEF Accounts

LEMMA AccountsNext == Accounts /\ [Next]_vars => Accounts'
<1>. SUFFICES ASSUME Accounts, [Next]_vars
              PROVE  Accounts'
  OBVIOUS
<1>. USE ConstantsAssumption
<1>0. TypeOK /\ Holders /\ Numbered /\ IdsGrow /\ IdsMatchEvents /\ StopIsFinal
  BY DEF Accounts
<1>. USE DEF TypeOK, Statuses, SchedulerPcs
<1>1. ASSUME Tick
      PROVE  Accounts'
  <2>1. TypeOK'
    BY <1>0, <1>1 DEF Tick
  <2>2. Holders'
    BY <1>0, <1>1 DEF Tick, Holders
  <2>3. Numbered'
    BY <1>0, <1>1 DEF Tick, Numbered, Holders
  <2>4. IdsGrow'
    BY <1>0, <1>1 DEF Tick, IdsGrow, Holders, Numbered, IdsMatchEvents
  <2>5. IdsMatchEvents'
    BY <1>0, <1>1 DEF Tick, IdsMatchEvents, Holders, Numbered, IdsGrow
  <2>6. StopIsFinal'
    BY <1>0, <1>1 DEF Tick, StopIsFinal, Holders, Numbered, IdsGrow
  <2>. QED
    BY <2>1, <2>2, <2>3, <2>4, <2>5, <2>6 DEF Accounts
<1>2. ASSUME NEW th \in Threads, NEW e \in Events, NEW delay \in Delays, CreateTask(th, e, delay)
      PROVE  Accounts'
  <2>1. TypeOK'
    BY <1>0, <1>2 DEF CreateTask
  <2>2. Holders'
    BY <1>0, <1>2 DEF CreateTask, Holders
  <2>3. Numbered'
    BY <1>0, <1>2 DEF CreateTask, Numbered, Holders
  <2>4. IdsGrow'
    BY <1>0, <1>2 DEF CreateTask, IdsGrow, Holders, Numbered, IdsMatchEvents
  <2>5. IdsMatchEvents'
    BY <1>0, <1>2 DEF CreateTask, IdsMatchEvents, Holders, Numbered, IdsGrow
  <2>6. StopIsFinal'
    BY <1>0, <1>2 DEF CreateTask, StopIsFinal, Holders, Numbered, IdsGrow
  <2>. QED
    BY <2>1, <2>2, <2>3, <2>4, <2>5, <2>6 DEF Accounts
<1>3. ASSUME NEW th \in Threads, AddEvent(th)
      PROVE  Accounts'
  <2>. DEFINE e == arg[th]
  <2>0. /\ e \in Events /\ status[e] = "adding" /\ eventId[e] = 0 /\ e \notin stopped
        /\ NextId \in 1 .. MaxId
        /\ lastEvent < MaxId => NextId = lastEvent + 1
    BY <1>0, <1>3, NextIdProperties DEF AddEvent, Holders, Numbered
  <2>a. ASSUME Accepts, ~wrapped'
         PROVE  /\ ~wrapped
                /\ lastEvent' = lastEvent + 1
                /\ eventId' = [eventId EXCEPT ![e] = lastEvent + 1]
                /\ eventIds' = eventIds \cup {lastEvent + 1}
    <3>1. wrapped' = (wrapped \/ lastEvent >= MaxId)
      BY <1>3, <2>a DEF AddEvent
    <3>2. ~wrapped /\ ~(lastEvent >= MaxId)
      BY <2>a, <3>1, Zenon
    <3>3. NextId = lastEvent + 1
      BY <1>0, <2>0, <3>2
    <3>. QED
      BY <1>3, <2>a, <3>2, <3>3 DEF AddEvent
  <2>1. TypeOK'
    <3>1. CASE Accepts
      <4>1. /\ lastEvent' = NextId
            /\ eventIds' = eventIds \cup {NextId}
            /\ eventId' = [eventId EXCEPT ![e] = NextId]
        BY <1>3, <3>1 DEF AddEvent
      <4>5. NextId \in 0 .. MaxId
        BY <2>0
      <4>6. /\ lastEvent' \in 0 .. MaxId
            /\ eventIds' \subseteq 1 .. MaxId
            /\ eventId' \in [Events -> 0 .. MaxId]
        BY <1>0, <2>0, <4>1, <4>5
      <4>2. /\ eventList' \subseteq Events
            /\ status' \in [Events -> Statuses]
            /\ pc' \in [Threads -> {"idle", "add", "notify"}]
            /\ arg' \in [Threads -> Events \cup {NoEvent}]
        BY <1>0, <1>3, <2>0, <3>1 DEF AddEvent
      <4>3. wrapped' \in BOOLEAN
        BY <1>3, <3>1 DEF AddEvent
      <4>4. UNCHANGED <<threadState, cycle, now, spc, deadline, signalled, task, run, stopped>>
        BY <1>3 DEF AddEvent
      <4>. QED
        BY <1>0, <4>2, <4>3, <4>4, <4>6
    <3>2. CASE ~Accepts
      <4>1. /\ UNCHANGED <<eventList, eventIds, eventId, lastEvent, wrapped>>
            /\ status' = [status EXCEPT ![e] = "refused"]
            /\ pc' = [pc EXCEPT ![th] = "idle"] /\ arg' = [arg EXCEPT ![th] = NoEvent]
        BY <1>3, <3>2 DEF AddEvent
      <4>. QED
        BY <1>0, <1>3, <2>0, <4>1 DEF AddEvent
    <3>. QED
      BY <3>1, <3>2
  <2>2. Holders'
    BY <1>0, <1>3 DEF AddEvent, Accepts, NextId, Holders
  <2>3. Numbered'
    BY <1>0, <1>3 DEF AddEvent, Accepts, NextId, Numbered, Holders
  <2>4. IdsGrow'
    <3>1. CASE Accepts /\ ~wrapped'
      <4>1. /\ ~wrapped /\ lastEvent' = lastEvent + 1
            /\ eventId' = [eventId EXCEPT ![e] = lastEvent + 1]
        BY <2>a, <3>1
      <4>2. UNCHANGED <<spc, run, task, stopped>>
        BY <1>3 DEF AddEvent
      <4>. QED
        BY <1>0, <2>0, <4>1, <4>2 DEF IdsGrow
    <3>2. CASE ~Accepts
      BY <1>0, <1>3, <3>2 DEF AddEvent, IdsGrow
    <3>. QED
      BY <3>1, <3>2 DEF IdsGrow
  <2>5. IdsMatchEvents'
    <3>1. CASE Accepts /\ ~wrapped'
      <4>1. /\ ~wrapped /\ stopped' = stopped
            /\ eventId' = [eventId EXCEPT ![e] = lastEvent + 1]
            /\ eventIds' = eventIds \cup {lastEvent + 1}
            /\ status' = [status EXCEPT ![e] = "pending"]
        BY <1>3, <2>a, <3>1 DEF AddEvent
      <4>2. \A f \in Events : f # e => eventId[f] # lastEvent + 1
        BY <1>0, <4>1 DEF IdsGrow
      <4>3. {f \in Events : status'[f] = "pending"} = {f \in Events : status[f] = "pending"} \cup {e}
        BY <1>0, <2>0, <4>1
      <4>4. eventIds' = {eventId'[f] : f \in {g \in Events : status'[g] = "pending"} \ stopped'}
        BY <1>0, <2>0, <4>1, <4>3 DEF IdsMatchEvents
      <4>5. \A f, g \in Events : eventId'[f] = eventId'[g] /\ eventId'[f] # 0 => f = g
        BY <1>0, <2>0, <4>1, <4>2 DEF IdsMatchEvents
      <4>. QED
        BY <4>4, <4>5 DEF IdsMatchEvents
    <3>2. CASE ~Accepts
      <4>1. {f \in Events : status'[f] = "pending"} = {f \in Events : status[f] = "pending"}
        BY <1>0, <1>3, <2>0, <3>2 DEF AddEvent
      <4>. QED
        BY <1>0, <1>3, <3>2, <4>1 DEF AddEvent, IdsMatchEvents
    <3>. QED
      BY <3>1, <3>2 DEF IdsMatchEvents
  <2>6. StopIsFinal'
    BY <1>0, <1>3 DEF AddEvent, Accepts, NextId, StopIsFinal, Holders, Numbered, IdsGrow
  <2>. QED
    BY <2>1, <2>2, <2>3, <2>4, <2>5, <2>6 DEF Accounts
<1>4. ASSUME NEW th \in Threads, Notify(th)
      PROVE  Accounts'
  <2>1. TypeOK'
    BY <1>0, <1>4 DEF Notify
  <2>2. Holders'
    BY <1>0, <1>4 DEF Notify, Holders
  <2>3. Numbered'
    BY <1>0, <1>4 DEF Notify, Numbered, Holders
  <2>4. IdsGrow'
    BY <1>0, <1>4 DEF Notify, IdsGrow, Holders, Numbered, IdsMatchEvents
  <2>5. IdsMatchEvents'
    BY <1>0, <1>4 DEF Notify, IdsMatchEvents, Holders, Numbered, IdsGrow
  <2>6. StopIsFinal'
    BY <1>0, <1>4 DEF Notify, StopIsFinal, Holders, Numbered, IdsGrow
  <2>. QED
    BY <2>1, <2>2, <2>3, <2>4, <2>5, <2>6 DEF Accounts
<1>5. ASSUME NEW e \in Events, StopEvent(e)
      PROVE  Accounts'
  <2>1. TypeOK'
    BY <1>0, <1>5 DEF StopEvent, IdsWithout
  <2>2. Holders'
    BY <1>0, <1>5 DEF StopEvent, IdsWithout, Holders
  <2>3. Numbered'
    BY <1>0, <1>5 DEF StopEvent, IdsWithout, Numbered, Holders
  <2>4. IdsGrow'
    BY <1>0, <1>5 DEF StopEvent, IdsWithout, IdsGrow, Holders, Numbered, IdsMatchEvents
  <2>5. IdsMatchEvents'
    BY <1>0, <1>5 DEF StopEvent, IdsWithout, IdsMatchEvents, Holders, Numbered, IdsGrow
  <2>6. StopIsFinal'
    BY <1>0, <1>5 DEF StopEvent, StopIsFinal, IdsMatchEvents
  <2>. QED
    BY <2>1, <2>2, <2>3, <2>4, <2>5, <2>6 DEF Accounts
<1>6. ASSUME Stop
      PROVE  Accounts'
  <2>1. TypeOK'
    BY <1>0, <1>6 DEF Stop
  <2>2. Holders'
    BY <1>0, <1>6 DEF Stop, Holders
  <2>3. Numbered'
    BY <1>0, <1>6 DEF Stop, Numbered, Holders
  <2>4. IdsGrow'
    BY <1>0, <1>6 DEF Stop, IdsGrow, Holders, Numbered, IdsMatchEvents
  <2>5. IdsMatchEvents'
    BY <1>0, <1>6 DEF Stop, IdsMatchEvents, Holders, Numbered, IdsGrow
  <2>6. StopIsFinal'
    BY <1>0, <1>6 DEF Stop, StopIsFinal, Holders, Numbered, IdsGrow
  <2>. QED
    BY <2>1, <2>2, <2>3, <2>4, <2>5, <2>6 DEF Accounts
<1>7. ASSUME Shutdown
      PROVE  Accounts'
  <2>1. TypeOK'
    BY <1>0, <1>7 DEF Shutdown
  <2>2. Holders'
    BY <1>0, <1>7 DEF Shutdown, Holders
  <2>3. Numbered'
    BY <1>0, <1>7 DEF Shutdown, Numbered, Holders
  <2>4. IdsGrow'
    BY <1>0, <1>7 DEF Shutdown, IdsGrow, Holders, Numbered, IdsMatchEvents
  <2>5. IdsMatchEvents'
    BY <1>0, <1>7 DEF Shutdown, IdsMatchEvents, Holders, Numbered, IdsGrow
  <2>6. StopIsFinal'
    BY <1>0, <1>7 DEF Shutdown, StopIsFinal, Holders, Numbered, IdsGrow
  <2>. QED
    BY <2>1, <2>2, <2>3, <2>4, <2>5, <2>6 DEF Accounts
<1>8. ASSUME TestState
      PROVE  Accounts'
  <2>1. TypeOK'
    BY <1>0, <1>8 DEF TestState
  <2>2. Holders'
    BY <1>0, <1>8 DEF TestState, Holders
  <2>3. Numbered'
    BY <1>0, <1>8 DEF TestState, Numbered, Holders
  <2>4. IdsGrow'
    BY <1>0, <1>8 DEF TestState, IdsGrow, Holders, Numbered, IdsMatchEvents
  <2>5. IdsMatchEvents'
    BY <1>0, <1>8 DEF TestState, IdsMatchEvents, Holders, Numbered, IdsGrow
  <2>6. StopIsFinal'
    BY <1>0, <1>8 DEF TestState, StopIsFinal, Holders, Numbered, IdsGrow
  <2>. QED
    BY <2>1, <2>2, <2>3, <2>4, <2>5, <2>6 DEF Accounts
<1>9. ASSUME StartWait
      PROVE  Accounts'
  <2>1. TypeOK'
    <3>1. \A f \in Tops : cycle[f] \in Nat
      BY <1>0, TopsProperties
    <3>2. spc' \in SchedulerPcs /\ signalled' \in BOOLEAN
      BY <1>9 DEF StartWait
    <3>4. deadline' \in {cycle[f] : f \in Tops} \cup {deadline}
      BY <1>9 DEF StartWait
    <3>5. deadline' \in Nat
      BY <1>0, <3>1, <3>4
    <3>3. UNCHANGED <<threadState, eventList, eventIds, lastEvent, eventId, cycle, now, pc,
                      arg, task, run, status, stopped, wrapped>>
      BY <1>9 DEF StartWait
    <3>. QED
      BY <1>0, <3>2, <3>3, <3>5
  <2>2. Holders'
    BY <1>0, <1>9 DEF StartWait, Tops, Holders
  <2>3. Numbered'
    BY <1>0, <1>9 DEF StartWait, Tops, Numbered, Holders
  <2>4. IdsGrow'
    BY <1>0, <1>9 DEF StartWait, Tops, IdsGrow, Holders, Numbered, IdsMatchEvents
  <2>5. IdsMatchEvents'
    BY <1>0, <1>9 DEF StartWait, Tops, IdsMatchEvents, Holders, Numbered, IdsGrow
  <2>6. StopIsFinal'
    BY <1>0, <1>9 DEF StartWait, Tops, StopIsFinal, Holders, Numbered, IdsGrow
  <2>. QED
    BY <2>1, <2>2, <2>3, <2>4, <2>5, <2>6 DEF Accounts
<1>10. ASSUME spc \in {"wait", "timedWait"}, EndWait
      PROVE  Accounts'
  <2>0. \A f \in Tops : f \in Events /\ status[f] = "pending"
    BY <1>0, TopsProperties DEF Holders
  <2>1. TypeOK'
    <3>1. /\ UNCHANGED <<threadState, lastEvent, eventId, cycle, now, pc, arg, deadline,
                         stopped, wrapped>>
          /\ signalled' = FALSE
      BY <1>10 DEF EndWait
    <3>2. eventList' \subseteq eventList /\ eventIds' \subseteq eventIds
      BY <1>10 DEF EndWait, TakeTop
    <3>3. spc' \in SchedulerPcs /\ task' \in Events \cup {NoEvent}
      BY <1>0, <1>10, <2>0 DEF EndWait, TakeTop
    <3>5. run' \in BOOLEAN
      <4>1. run' = run \/ \E f \in Tops : run' = NotStopped(f)
        BY <1>10, Zenon DEF EndWait, TakeTop
      <4>2. \A f \in Tops : NotStopped(f) \in BOOLEAN
        BY DEF NotStopped
      <4>. QED
        BY <1>0, <4>1, <4>2, Zenon
    <3>4. status' \in [Events -> Statuses]
      BY <1>0, <1>10, <2>0 DEF EndWait, TakeTop
    <3>. QED
      BY <1>0, <3>1, <3>2, <3>3, <3>4, <3>5
  <2>2. Holders'
    BY <1>0, <1>10 DEF EndWait, TakeTop, Tops, NotStopped, Holders
  <2>3. Numbered'
    BY <1>0, <1>10 DEF EndWait, TakeTop, Tops, NotStopped, Numbered, Holders
  <2>4. IdsGrow'
    <3>1. UNCHANGED <<wrapped, eventId, lastEvent, stopped>>
      BY <1>10 DEF EndWait
    <3>2. ASSUME ~wrapped, spc' = "taken"
          PROVE  run' <=> task' \notin stopped
      <4>1. PICK f \in Tops : run' = NotStopped(f) /\ task' = f
        BY <1>10, <3>2 DEF EndWait, TakeTop
      <4>2. eventId[f] # 0
        BY <1>0, <2>0 DEF Numbered
      <4>3. eventId[f] \in eventIds <=> f \notin stopped
        BY <1>0, <2>0, <3>2, <4>2 DEF IdsMatchEvents
      <4>. QED
        BY <4>1, <4>3 DEF NotStopped
    <3>. QED
      BY <1>0, <3>1, <3>2 DEF IdsGrow
  <2>5. IdsMatchEvents'
    BY <1>0, <1>10 DEF EndWait, TakeTop, Tops, NotStopped, IdsMatchEvents, Holders, Numbered, IdsGrow
  <2>6. StopIsFinal'
    BY <1>0, <1>10 DEF EndWait, TakeTop, Tops, NotStopped, StopIsFinal, Holders, Numbered, IdsGrow
  <2>. QED
    BY <2>1, <2>2, <2>3, <2>4, <2>5, <2>6 DEF Accounts
<1>11. ASSUME WakeFromTimedWait
      PROVE  Accounts'
  <2>1. TypeOK'
    BY <1>0, <1>11 DEF WakeFromTimedWait
  <2>2. Holders'
    BY <1>0, <1>11 DEF WakeFromTimedWait, Holders
  <2>3. Numbered'
    BY <1>0, <1>11 DEF WakeFromTimedWait, Numbered, Holders
  <2>4. IdsGrow'
    BY <1>0, <1>11 DEF WakeFromTimedWait, IdsGrow, Holders, Numbered, IdsMatchEvents
  <2>5. IdsMatchEvents'
    BY <1>0, <1>11 DEF WakeFromTimedWait, IdsMatchEvents, Holders, Numbered, IdsGrow
  <2>6. StopIsFinal'
    BY <1>0, <1>11 DEF WakeFromTimedWait, StopIsFinal, Holders, Numbered, IdsGrow
  <2>. QED
    BY <2>1, <2>2, <2>3, <2>4, <2>5, <2>6 DEF Accounts
<1>12. ASSUME Deliver
      PROVE  Accounts'
  <2>1. TypeOK'
    BY <1>0, <1>12 DEF Deliver
  <2>2. Holders'
    BY <1>0, <1>12 DEF Deliver, Holders
  <2>3. Numbered'
    BY <1>0, <1>12 DEF Deliver, Numbered, Holders
  <2>4. IdsGrow'
    BY <1>0, <1>12 DEF Deliver, IdsGrow, Holders, Numbered, IdsMatchEvents
  <2>5. IdsMatchEvents'
    BY <1>0, <1>12 DEF Deliver, IdsMatchEvents, Holders, Numbered, IdsGrow
  <2>6. StopIsFinal'
    BY <1>0, <1>12 DEF Deliver, StopIsFinal, Holders, Numbered, IdsGrow
  <2>. QED
    BY <2>1, <2>2, <2>3, <2>4, <2>5, <2>6 DEF Accounts
<1>13. CASE UNCHANGED vars
  BY <1>0, <1>13 DEF vars, Accounts, Holders, Numbered, IdsGrow, IdsMatchEvents, StopIsFinal
<1>. QED
  BY <1>1, <1>2, <1>3, <1>4, <1>5, <1>6, <1>7, <1>8, <1>9, <1>10, <1>11, <1>12, <1>13
  DEF Next, Caller, SchedulerThread, WakeFromWait, SpuriousWake, Timeout

(* An event's id stands for that event alone, in every reachable state; no *)
(* event that stopEvent stopped is run, none is deleted unless stopped:    *)
(* EventsAccounted, for any number of threads, events and ids.             *)
THEOREM AccountsInvariant == Spec => []EventsAccounted
<1>1. Spec => []Accounts
  BY AccountsInit, AccountsNext, PTL DEF Spec
<1>2. Accounts => EventsAccounted
  BY DEF Accounts, EventsAccounted
<1>. QED
  BY <1>1, <1>2, PTL
-----------------------------------------------------------------------------
(* The steps of an invariant that follows from Accounts.                   *)
LEMMA OversleepInit == Init => NoOversleep /\ SleepHasReason
BY DEF Init, NoOversleep, SleepHasReason

LEMMA OversleepNext ==
  Accounts /\ NoOversleep /\ [Next]_vars => NoOversleep'
<1>. SUFFICES ASSUME Accounts, NoOversleep, [Next]_vars
              PROVE  NoOversleep'
  OBVIOUS
<1>0. TypeOK /\ Holders
  BY DEF Accounts
<1>. USE DEF TypeOK, NoOversleep
<1>1. CASE Tick
  BY <1>0, <1>1 DEF Tick
<1>2. ASSUME NEW th \in Threads, NEW e \in Events, NEW delay \in Delays,
             CreateTask(th, e, delay)
      PROVE  NoOversleep'
  BY <1>0, <1>2 DEF CreateTask, Holders
<1>3. ASSUME NEW th \in Threads, AddEvent(th)
      PROVE  NoOversleep'
  <2>. DEFINE e == arg[th]
  <2>1. e \in Events /\ UNCHANGED <<cycle, spc, deadline, signalled>>
    BY <1>0, <1>3 DEF AddEvent, Holders
  <2>2. CASE Accepts /\ SignalIfFirst(e)
    <3>1. pc'[th] = "notify"
      BY <1>0, <1>3, <2>2 DEF AddEvent
    <3>. QED
      BY <3>1
  <2>3. CASE Accepts /\ ~SignalIfFirst(e)
    <3>1. eventList' = eventList \cup {e} /\ pc' = [pc EXCEPT ![th] = "idle"]
      BY <1>3, <2>3 DEF AddEvent
    <3>2. PICK f \in eventList : cycle[f] <= cycle[e]
      BY <1>0, <2>1, <2>3 DEF SignalIfFirst
    <3>3. \A th2 \in Threads : pc[th2] = "notify" => pc'[th2] = "notify"
      BY <1>0, <1>3, <3>1 DEF AddEvent
    <3>4. ASSUME spc = "timedWait", ~signalled, NEW g \in eventList', cycle[g] < deadline
          PROVE  \E th2 \in Threads : pc[th2] = "notify"
      BY <1>0, <2>1, <3>1, <3>2, <3>4
    <3>. QED
      BY <2>1, <3>2, <3>3, <3>4
  <2>4. CASE ~Accepts
    BY <1>0, <1>3, <2>4 DEF AddEvent
  <2>. QED
    BY <2>2, <2>3, <2>4
<1>4. ASSUME NEW th \in Threads, Notify(th)
      PROVE  NoOversleep'
  BY <1>0, <1>4 DEF Notify
<1>5. ASSUME NEW e \in Events, StopEvent(e)
      PROVE  NoOversleep'
  BY <1>0, <1>5 DEF StopEvent
<1>6. CASE Stop
  BY <1>0, <1>6 DEF Stop
<1>7. CASE Shutdown
  BY <1>0, <1>7 DEF Shutdown
<1>8. CASE TestState
  BY <1>0, <1>8 DEF TestState
<1>9. CASE StartWait
  <2>1. UNCHANGED <<eventList, cycle>>
    BY <1>9 DEF StartWait
  <2>2. CASE eventList = {}
    BY <1>9, <2>1, <2>2 DEF StartWait
  <2>3. CASE eventList # {}
    <3>1. spc' = "timedWait" /\ \E e \in Tops : deadline' = cycle[e]
      BY <1>9, <2>3 DEF StartWait
    <3>2. \A e \in eventList : ~(cycle[e] < deadline')
      BY <1>0, <3>1, TopsProperties
    <3>. QED
      BY <2>1, <3>1, <3>2
  <2>. QED
    BY <2>2, <2>3
<1>10. CASE EndWait
  BY <1>10 DEF EndWait, TakeTop
<1>11. CASE WakeFromTimedWait
  BY <1>11 DEF WakeFromTimedWait
<1>12. CASE Deliver
  BY <1>12 DEF Deliver
<1>13. CASE UNCHANGED vars
  BY <1>13 DEF vars
<1>. QED
  BY <1>1, <1>2, <1>3, <1>4, <1>5, <1>6, <1>7, <1>8, <1>9, <1>10, <1>11, <1>12, <1>13
  DEF Next, Caller, SchedulerThread, WakeFromWait, SpuriousWake, Timeout

(* A pending event whose time comes before the scheduler thread will wake  *)
(* by itself is about to be notified: NoOversleep, for any number of       *)
(* threads that add events while the thread sleeps.                        *)
THEOREM OversleepInvariant == Spec => []NoOversleep
<1>1. Spec => []Accounts
  BY AccountsInit, AccountsNext, PTL DEF Spec
<1>. QED
  BY <1>1, OversleepInit, OversleepNext, PTL DEF Spec
-----------------------------------------------------------------------------
LEMMA SleepNext ==
  Accounts /\ SleepHasReason /\ [Next]_vars => SleepHasReason'
<1>. SUFFICES ASSUME Accounts, SleepHasReason, [Next]_vars,
                     spc' = "timedWait", threadState' # "terminated"
              PROVE  \E e \in eventList' : cycle'[e] <= deadline'
  BY DEF SleepHasReason
<1>0. TypeOK /\ Holders
  BY DEF Accounts
<1>1. CASE StartWait
  <2>1. eventList' = eventList /\ cycle' = cycle
    BY <1>1 DEF StartWait
  <2>2. PICK e \in Tops : deadline' = cycle[e]
    BY <1>1 DEF StartWait
  <2>3. e \in eventList /\ cycle[e] \in Nat
    BY <1>0, TopsProperties
  <2>. QED
    BY <2>1, <2>2, <2>3
<1>2. CASE ~StartWait
  <2>1. spc = "timedWait"
    BY <1>2 DEF Next, Caller, SchedulerThread, WakeFromWait, SpuriousWake, Timeout,
      Tick, CreateTask, AddEvent, Notify, StopEvent, Stop, Shutdown, TestState,
      EndWait, TakeTop, WakeFromTimedWait, Deliver, vars
  <2>2. /\ threadState # "terminated" /\ deadline' = deadline
        /\ eventList \subseteq eventList'
    BY <1>2, <2>1 DEF Next, Caller, SchedulerThread, WakeFromWait, SpuriousWake, Timeout,
      Tick, CreateTask, AddEvent, Notify, StopEvent, Stop, Shutdown, TestState,
      EndWait, TakeTop, WakeFromTimedWait, Deliver, vars
  <2>3. \A e \in eventList : cycle'[e] = cycle[e]
    <3>1. ASSUME NEW th \in Threads, NEW f \in Events, NEW delay \in Delays,
                 CreateTask(th, f, delay)
          PROVE  \A e \in eventList : cycle'[e] = cycle[e]
      BY <1>0, <3>1 DEF CreateTask, Holders, TypeOK
    <3>2. CASE cycle' = cycle
      BY <3>2
    <3>3. \/ cycle' = cycle
          \/ \E th \in Threads, f \in Events, delay \in Delays : CreateTask(th, f, delay)
      BY DEF Next, Caller, SchedulerThread, WakeFromWait, SpuriousWake, Timeout,
        Tick, AddEvent, Notify, StopEvent, Stop, Shutdown, TestState, StartWait,
        EndWait, WakeFromTimedWait, Deliver, vars
    <3>. QED
      BY <3>1, <3>2, <3>3
  <2>. QED
    BY <2>1, <2>2, <2>3 DEF SleepHasReason
<1>. QED
  BY <1>1, <1>2

(* An event is taken before it is due only by a thread that went to sleep  *)
(* on an empty list: a timed_wait that times out takes due events alone,   *)
(* whatever was added, stopped or lost while it slept.                     *)
THEOREM EarlyOnlyFromWait == Spec => EarlyOnlyFromEmptyWait
<1>. DEFINE Early(e) == status[e] = "pending" /\ status'[e] = "taken" /\ now < cycle[e]
<1>1. Spec => []Accounts
  BY AccountsInit, AccountsNext, PTL DEF Spec
<1>2. Spec => []SleepHasReason
  BY <1>1, OversleepInit, SleepNext, PTL DEF Spec
<1>3. ASSUME Accounts, SleepHasReason, [Next]_vars
      PROVE  [\A e \in Events : Early(e) => spc = "wait"]_vars
  <2>. SUFFICES ASSUME NEW e \in Events, Early(e), Next
                PROVE  spc = "wait"
    BY <1>3
  <2>0. TypeOK /\ Holders
    BY <1>3 DEF Accounts
  <2>1. EndWait /\ (spc = "wait" \/ (spc = "timedWait" /\ now >= deadline))
    BY <2>0 DEF Next, Caller, SchedulerThread, WakeFromWait, SpuriousWake, Timeout, TypeOK,
      Statuses, Holders,
      Tick, CreateTask, AddEvent, Notify, StopEvent, Stop, Shutdown, TestState, StartWait,
      WakeFromTimedWait, Deliver
  <2>2. CASE spc = "timedWait" /\ now >= deadline
    <3>1. threadState # "terminated" /\ e \in Tops
      BY <2>0, <2>1 DEF EndWait, TakeTop, TypeOK, Statuses
    <3>2. PICK f \in eventList : cycle[f] <= deadline
      BY <1>3, <2>2, <3>1 DEF SleepHasReason
    <3>3. cycle[e] <= cycle[f] /\ e \in eventList
      BY <2>0, <3>1, TopsProperties
    <3>. QED
      BY <2>0, <2>2, <3>2, <3>3 DEF TypeOK
  <2>. QED
    BY <2>1, <2>2
<1>. QED
  BY <1>1, <1>2, <1>3, PTL DEF Spec, EarlyOnlyFromEmptyWait
-----------------------------------------------------------------------------
(* The events that were given an id. *)
Given == {e \in Events : eventId[e] # 0}

(* As many ids were given out as m_lastEvent says.                         *)
IdsCounted == ~wrapped /\ lastEvent = Cardinality(Given)

(* The ids do not wrap before more events were added than there are ids:   *)
(* what the theorems say "until the ids wrap" holds without that condition *)
(* of a server that adds fewer than 2^32 events.                           *)
THEOREM IdsSuffice ==
  ASSUME IsFiniteSet(Events), Cardinality(Events) <= MaxId
  PROVE  Spec => []~wrapped
<1>. USE ConstantsAssumption
<1>1. Init => IdsCounted
  <2>. SUFFICES ASSUME Init
                PROVE  IdsCounted
    OBVIOUS
  <2>1. Given = {}
    BY DEF Init, Given
  <2>. QED
    BY <2>1, FS_EmptySet DEF Init, IdsCounted
<1>2. Accounts /\ IdsCounted /\ [Next]_vars => IdsCounted'
  <2>. SUFFICES ASSUME Accounts, IdsCounted, [Next]_vars
                PROVE  IdsCounted'
    OBVIOUS
  <2>0. TypeOK /\ Holders /\ Numbered
    BY DEF Accounts
  <2>1. ASSUME NEW th \in Threads, AddEvent(th), Accepts
        PROVE  IdsCounted'
    <3>. DEFINE e == arg[th]
    <3>1. e \in Events /\ eventId[e] = 0
      BY <2>0, <2>1 DEF AddEvent, Holders, Numbered
    <3>2. Given \subseteq Events /\ IsFiniteSet(Given)
      BY FS_Subset DEF Given
    <3>3. IsFiniteSet(Given \cup {e}) /\ Cardinality(Given \cup {e}) = Cardinality(Given) + 1
      BY <3>1, <3>2, FS_AddElement DEF Given
    <3>4. Cardinality(Given \cup {e}) <= Cardinality(Events)
      BY <3>1, <3>2, FS_Subset
    <3>5. Cardinality(Given) \in Nat /\ Cardinality(Events) \in Nat
      BY <3>2, FS_CardinalityType
    <3>6. lastEvent < MaxId /\ ~wrapped
      BY <3>3, <3>4, <3>5 DEF IdsCounted
    <3>7. NextId = lastEvent + 1
      BY <2>0, <3>6, NextIdProperties
    <3>8. lastEvent' = lastEvent + 1 /\ eventId' = [eventId EXCEPT ![e] = lastEvent + 1]
      BY <2>1, <3>7 DEF AddEvent
    <3>9. wrapped' = (wrapped \/ lastEvent >= MaxId)
      BY <2>1 DEF AddEvent
    <3>10. ~(lastEvent >= MaxId)
      BY <2>0, <3>6 DEF TypeOK
    <3>11. ~wrapped'
      BY <3>6, <3>9, <3>10, Zenon
    <3>12. Given' = Given \cup {e}
      BY <2>0, <3>1, <3>8 DEF Given, TypeOK
    <3>. QED
      BY <3>3, <3>8, <3>11, <3>12 DEF IdsCounted
  <2>2. ASSUME UNCHANGED <<wrapped, lastEvent, eventId>>
        PROVE  IdsCounted'
    BY <2>2 DEF IdsCounted, Given
  <2>3. \/ UNCHANGED <<wrapped, lastEvent, eventId>>
        \/ \E th \in Threads : AddEvent(th) /\ Accepts
    BY DEF Next, Caller, SchedulerThread, WakeFromWait, SpuriousWake, Timeout,
      Tick, CreateTask, AddEvent, Notify, StopEvent, Stop, Shutdown, TestState, StartWait,
      EndWait, WakeFromTimedWait, Deliver, vars
  <2>. QED
    BY <2>1, <2>2, <2>3
<1>3. Spec => []Accounts
  BY AccountsInit, AccountsNext, PTL DEF Spec
<1>4. IdsCounted => ~wrapped
  BY DEF IdsCounted
<1>. QED
  BY <1>1, <1>2, <1>3, <1>4, PTL DEF Spec
-----------------------------------------------------------------------------
(* Scheduler implements EventService.  Each step of Scheduler is mapped to *)
(* the step of EventService that decides about the event it concerns, or   *)
(* to a stutter.                                                           *)
Outcomes == [e \in Events |-> Outcome(e)]

LEMMA OutcomeSame ==
  ASSUME \A e \in Events : Outcome(e)' = Outcome(e)
  PROVE  Outcomes' = Outcomes
BY DEF Outcomes

LEMMA OutcomeChanged ==
  ASSUME NEW e \in Events, NEW v, Outcome(e)' = v,
         \A f \in Events : f # e => Outcome(f)' = Outcome(f)
  PROVE  Outcomes' = [Outcomes EXCEPT ![e] = v]
BY DEF Outcomes

LEMMA ServiceInit == Init => CallerView!Init
<1>. SUFFICES ASSUME Init
              PROVE  CallerView!Init
  OBVIOUS
<1>1. \A e \in Events : Outcome(e) = "new"
  BY DEF Init, Outcome
<1>. QED
  BY <1>1 DEF Init, CallerView!Init

LEMMA ServiceNext ==
  Accounts /\ ~wrapped /\ [Next]_vars => [CallerView!Next]_(CallerView!serviceVars)
<1>. SUFFICES ASSUME Accounts, ~wrapped, [Next]_vars
              PROVE  CallerView!Next \/ (Outcomes' = Outcomes /\ UNCHANGED (threadState = "running"))
  BY DEF CallerView!serviceVars, Outcomes
<1>0. TypeOK /\ Holders /\ Numbered /\ IdsGrow /\ IdsMatchEvents
  BY DEF Accounts
<1>. USE DEF TypeOK, Statuses
<1>1. CASE UNCHANGED <<threadState, status, run, stopped>>
  BY <1>1, OutcomeSame DEF Outcome
<1>2. ASSUME NEW th \in Threads, NEW e \in Events, NEW delay \in Delays,
             CreateTask(th, e, delay)
      PROVE  Outcomes' = Outcomes /\ UNCHANGED (threadState = "running")
  <2>1. \A f \in Events : Outcome(f)' = Outcome(f)
    BY <1>0, <1>2 DEF CreateTask, Outcome
  <2>. QED
    BY <1>2, <2>1, OutcomeSame DEF CreateTask
<1>3. ASSUME NEW th \in Threads, AddEvent(th)
      PROVE  CallerView!Next
  <2>1. PICK e \in Events : e = arg[th] /\ status[e] = "adding" /\ e \notin stopped
    BY <1>0, <1>3 DEF AddEvent, Holders, Numbered
  <2>2. Outcome(e) = "new" /\ UNCHANGED <<threadState, stopped, run>>
    BY <1>3, <2>1 DEF AddEvent, Outcome
  <2>3. CASE Accepts
    <3>1. status' = [status EXCEPT ![e] = "pending"]
      BY <1>3, <2>1, <2>3 DEF AddEvent
    <3>2. Outcome(e)' = "pending" /\ \A f \in Events : f # e => Outcome(f)' = Outcome(f)
      BY <1>0, <2>1, <2>2, <3>1 DEF Outcome
    <3>3. CallerView!Accept(e)
      BY <2>1, <2>2, <2>3, <3>2, OutcomeChanged
      DEF Accepts, Outcomes, CallerView!Accept, CallerView!Becomes
    <3>. QED
      BY <2>1, <3>3 DEF CallerView!Next
  <2>4. CASE ~Accepts
    <3>1. status' = [status EXCEPT ![e] = "refused"]
      BY <1>3, <2>1, <2>4 DEF AddEvent
    <3>2. Outcome(e)' = "refused" /\ \A f \in Events : f # e => Outcome(f)' = Outcome(f)
      BY <1>0, <2>1, <2>2, <3>1 DEF Outcome
    <3>3. CallerView!Refuse(e)
      BY <2>1, <2>2, <2>4, <3>2, OutcomeChanged
      DEF Accepts, Outcomes, CallerView!Refuse, CallerView!Becomes
    <3>. QED
      BY <2>1, <3>3 DEF CallerView!Next
  <2>. QED
    BY <2>3, <2>4
<1>4. ASSUME NEW e \in Events, StopEvent(e)
      PROVE  CallerView!Next
  <2>1. eventId[e] \in eventIds /\ stopped' = stopped \cup {e}
        /\ UNCHANGED <<threadState, status, run>>
    BY <1>4 DEF StopEvent
  <2>2. PICK f \in Events : f \notin stopped /\ status[f] = "pending" /\ eventId[f] = eventId[e]
    BY <1>0, <2>1 DEF IdsMatchEvents
  <2>3. f = e
    BY <1>0, <2>2 DEF IdsMatchEvents, Numbered
  <2>4. Outcome(e) = "pending" /\ Outcome(e)' = "cancelled"
        /\ \A g \in Events : g # e => Outcome(g)' = Outcome(g)
    BY <2>1, <2>2, <2>3 DEF Outcome
  <2>5. CallerView!Cancel(e)
    BY <2>1, <2>4, OutcomeChanged DEF Outcomes, CallerView!Cancel, CallerView!Becomes
  <2>. QED
    BY <2>5 DEF CallerView!Next
<1>5. CASE Stop
  <2>1. \A e \in Events : Outcome(e)' = Outcome(e)
    BY <1>5 DEF Stop, Outcome
  <2>2. CallerView!Close
    BY <1>5, <2>1, OutcomeSame DEF Stop, Outcomes, CallerView!Close
  <2>. QED
    BY <2>2 DEF CallerView!Next
<1>6. CASE Shutdown
  <2>1. /\ threadState' = "terminated" /\ UNCHANGED <<run, stopped>>
        /\ status' = [e \in Events |-> IF status[e] = "pending" THEN "dropped" ELSE status[e]]
    BY <1>6 DEF Shutdown
  <2>2. \A e \in Events :
          Outcome(e)' = IF Outcome(e) = "pending" THEN "dropped" ELSE Outcome(e)
    BY <1>0, <2>1 DEF Outcome
  <2>3. CallerView!Drop
    BY <2>1, <2>2 DEF CallerView!Drop
  <2>. QED
    BY <2>3 DEF CallerView!Next
<1>7. CASE spc \in {"wait", "timedWait"} /\ EndWait /\ spc' = "taken"
  <2>1. PICK e \in Tops : /\ run' = NotStopped(e)
                          /\ status' = [status EXCEPT ![e] = "taken"]
    BY <1>7 DEF EndWait, TakeTop
  <2>2. e \in Events /\ status[e] = "pending" /\ UNCHANGED <<threadState, stopped>>
    BY <1>0, <1>7, TopsProperties DEF Holders, EndWait
  <2>3. eventId[e] # 0
    BY <1>0, <2>2 DEF Numbered
  <2>4. eventId[e] \in eventIds <=> e \notin stopped
    BY <1>0, <2>2, <2>3 DEF IdsMatchEvents
  <2>5. run' <=> e \notin stopped
    BY <2>1, <2>4 DEF NotStopped
  <2>6. \A f \in Events : f # e => Outcome(f)' = Outcome(f)
    <3>1. \A f \in Events : status[f] # "taken"
      BY <1>0, <1>7 DEF Holders, EndWait, TakeTop
    <3>. QED
      BY <1>0, <2>1, <2>2, <3>1 DEF Outcome
  <2>7. CASE e \in stopped
    <3>1. Outcome(e) = "cancelled" /\ Outcome(e)' = "cancelled"
      BY <1>0, <2>1, <2>2, <2>5, <2>7 DEF Outcome
    <3>. QED
      BY <2>2, <2>6, <3>1, OutcomeSame
  <2>8. CASE e \notin stopped
    <3>1. Outcome(e) = "pending" /\ Outcome(e)' = "fired"
      BY <1>0, <2>1, <2>2, <2>5, <2>8 DEF Outcome
    <3>2. CallerView!Fire(e)
      BY <2>2, <2>6, <3>1, OutcomeChanged DEF Outcomes, CallerView!Fire, CallerView!Becomes
    <3>. QED
      BY <2>2, <3>2 DEF CallerView!Next
  <2>. QED
    BY <2>7, <2>8
<1>8. CASE Deliver
  <2>1. /\ status' = [status EXCEPT ![task] = IF run THEN "passed" ELSE "deleted"]
        /\ UNCHANGED <<threadState, run, stopped>>
        /\ task \in Events /\ status[task] = "taken"
        /\ \A e \in Events : e # task => status[e] # "taken"
    BY <1>0, <1>8 DEF Deliver, Holders
  <2>2. \A e \in Events : Outcome(e)' = Outcome(e)
    BY <1>0, <2>1 DEF Outcome
  <2>. QED
    BY <2>1, <2>2, OutcomeSame
<1>. QED
  <2>1. \/ UNCHANGED <<threadState, status, run, stopped>>
        \/ \E th \in Threads, e \in Events, delay \in Delays : CreateTask(th, e, delay)
        \/ \E th \in Threads : AddEvent(th)
        \/ \E e \in Events : StopEvent(e)
        \/ Stop \/ Shutdown \/ Deliver
        \/ spc \in {"wait", "timedWait"} /\ EndWait /\ spc' = "taken"
    BY DEF Next, Caller, SchedulerThread, WakeFromWait, SpuriousWake, Timeout,
      Tick, Notify, TestState, StartWait, EndWait, TakeTop, WakeFromTimedWait, vars
  <2>. QED
    BY <1>1, <1>2, <1>3, <1>4, <1>5, <1>6, <1>7, <1>8, <2>1

(* What callers rely on, EventService, is what the threads, the queue and  *)
(* the ids of Scheduler implement as long as the ids do not wrap: whether  *)
(* an event fires or is stopped is decided in one step, and stopEvent says *)
(* which.                                                                  *)
THEOREM ServiceImplemented == Spec /\ []~wrapped => ImplementsEventService
<1>1. Spec => []Accounts
  BY AccountsInit, AccountsNext, PTL DEF Spec
<1>. QED
  BY <1>1, ServiceInit, ServiceNext, PTL
  DEF Spec, ImplementsEventService, CallerView!Spec

(* The same without the condition: fewer events than ids.                  *)
THEOREM ServiceImplementedBelowMaxId ==
  ASSUME IsFiniteSet(Events), Cardinality(Events) <= MaxId
  PROVE  Spec => ImplementsEventService
BY IdsSuffice, ServiceImplemented, PTL
=============================================================================
