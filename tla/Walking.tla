------------------------------- MODULE Walking -------------------------------
(***************************************************************************)
(* How a player walks and acts on timers: startAutoWalk, addEventWalk,     *)
(* stopEventWalk and onWalk of Creature (800/creature.cpp, creature.h), the *)
(* tasks that wait for the end of a walk or for the next action            *)
(* (800/player.cpp), and the requests of a client to walk, stop and use    *)
(* things (800/game.cpp, actions.cpp).                                     *)
(*                                                                         *)
(* The scheduler may have passed an event to the queue of the dispatcher   *)
(* when stopEvent is called: it runs all the same, and onWalk cannot tell. *)
(* Where the player walks is left out, how many steps he has to go is not. *)
(* Who may not move (getNoMove) is refused a walk, and it is open who may; *)
(* a gamemaster who jumps instead of walking does a Teleport.              *)
(***************************************************************************)
EXTENDS Naturals, SequencesExt

CONSTANTS
  MaxSteps,   \* bound: of the path of a walk
  MaxEvents,  \* bound: events of the player at a time
  MaxQueue    \* bound: of his tasks in the queue

ASSUME WalkingAssumption == MaxSteps \in Nat \ {0} /\ MaxEvents \in Nat /\ MaxQueue \in Nat

VARIABLES
  walker,     \* the player
  scheduled,  \* his events in the scheduler
  queue       \* his tasks in the dispatcher

walkVars == <<walker, scheduled, queue>>

EventIds == 1 .. MaxEvents
Event(id, what) == [id |-> id, what |-> what]

WalkInit ==
  /\ walker = [list |-> 0,             \* steps left in listWalkDir
               eventWalk |-> 0,
               cancelNextWalk |-> FALSE,
               fast |-> TRUE,          \* getSpeed() > 0
               walkTask |-> FALSE,     \* there is one
               walkTaskEvent |-> 0,
               actionTaskEvent |-> 0,
               stopped |-> FALSE,      \* told to stop, and not to walk since
               stepsSince |-> 0,       \* since he was told to stop
               strandedBy |-> ""]      \* what left him without eventWalk
  /\ scheduled = {}
  /\ queue = <<>>

(* The functions work on all of it. *)
Now == [walker |-> walker, scheduled |-> scheduled, queue |-> queue]

WalkBecomes(w) ==
  /\ walker' = w.walker
  /\ scheduled' = w.scheduled
  /\ queue' = w.queue

(* The ids the scheduler or the player know. *)
Known(w) ==
  {e.id : e \in w.scheduled \cup ToSet(w.queue)}
  \cup {w.walker.eventWalk, w.walker.walkTaskEvent, w.walker.actionTaskEvent}

Room(n) == Cardinality(EventIds \ Known(Now)) >= n

(* Scheduler::addEvent, its id kept in field; Scheduler::stopEvent.        *)
EventAdded(w, field, what) ==
  LET id == CHOOSE i \in EventIds : i \notin Known(w) IN
  [w EXCEPT !.scheduled = @ \cup {Event(id, what)}, !.walker[field] = id]

EventStopped(w, field) ==
  [w EXCEPT !.scheduled = {e \in @ : e.id # w.walker[field]}, !.walker[field] = 0]
-----------------------------------------------------------------------------
(* Creature and Player.                                                    *)

(* Who had an event to walk by is left without one: by a leap, which is a  *)
(* step or a teleport to another floor, two tiles away or to where no      *)
(* ground is (onCreatureMove), or since his speed fell to nothing.         *)
StopEventWalk(w, why) ==
  IF w.walker.eventWalk = 0 THEN w
  ELSE [EventStopped(w, "eventWalk") EXCEPT !.walker.strandedBy = why]

ArmWalk(w) == EventAdded([w EXCEPT !.walker.strandedBy = ""], "eventWalk", "walk")

StopWalk(w) ==
  [w EXCEPT !.walker.cancelNextWalk = TRUE, !.walker.stopped = TRUE, !.walker.stepsSince = 0]

SetNextWalkActionTask(w, task) ==
  [EventStopped(w, "walkTaskEvent") EXCEPT !.walker.walkTask = task]

SetNextActionTaskAdds(w, task) == IF task THEN EventAdded(w, "actionTaskEvent", "action") ELSE w
SetNextActionTask(w, task) ==
  LET v == EventStopped(w, "actionTaskEvent") IN
  IF task THEN EventAdded(v, "actionTaskEvent", "action") ELSE v

OnWalkComplete(w) ==
  IF w.walker.walkTask
  THEN EventAdded([w EXCEPT !.walker.walkTask = FALSE], "walkTaskEvent", "task")
  ELSE w

OnWalkAborted(w) == SetNextWalkActionTask(w, FALSE)

(* setSpeed, with the speed falling to nothing, and its coming back with   *)
(* steps to go.                                                            *)
Halt(w) ==
  [StopEventWalk(w, "speed") EXCEPT !.walker.fast = FALSE, !.walker.cancelNextWalk = TRUE]
Reset(w) == [w EXCEPT !.walker.cancelNextWalk = FALSE, !.walker.stopped = FALSE]

(* The rest of a step: the leap it is, or what a script it runs does.  An  *)
(* event that the script adds is not to be run at once (addEventWalk).     *)
Scripted(w, script) ==
  LET halted == Halt(w)
      back == [halted EXCEPT !.walker.fast = TRUE] IN
  CASE script = "none" -> w
    [] script = "leap" -> StopEventWalk(w, "leap")
    [] script = "halt" -> halted
    [] script = "shake" -> IF w.walker.list > 0 THEN ArmWalk(Reset(back)) ELSE back

(* The part of onWalk that is done when getWalkDelay() <= 0. *)
StepOrEnd(w, script) ==
  IF w.walker.list = 0 THEN StopEventWalk(OnWalkComplete(w), "")
  ELSE Scripted(SetNextActionTask(
         [w EXCEPT !.walker.list = @ - 1,
                   !.walker.stepsSince = IF w.walker.stopped THEN @ + 1 ELSE 0], FALSE), script)

Aborted(w) ==
  IF w.walker.cancelNextWalk
  THEN OnWalkAborted([w EXCEPT !.walker.cancelNextWalk = FALSE, !.walker.list = 0])
  ELSE w

(* The time until the next step is none where there is no ground, or a     *)
(* step takes no time; mostly it is later.  When it is 1 it is now: onWalk *)
(* is called, and if the 1 ms has passed by then there is a step, or the   *)
(* end of the walk.  It adds no event without eventWalk, and a leap does   *)
(* no more than a step does then; a script of that step is left out.       *)
Times == {"never", "now", "later"}

AddEventWalk(w, time) ==
  LET v == [w EXCEPT !.walker.cancelNextWalk = FALSE] IN
  CASE v.walker.eventWalk # 0 -> v
    [] v.walker.eventWalk = 0 /\ time = "never" -> [v EXCEPT !.walker.strandedBy = "ground"]
    [] v.walker.eventWalk = 0 /\ time = "now" -> ArmWalk(StepOrEnd(v, "none"))
    [] v.walker.eventWalk = 0 /\ time = "later" -> ArmWalk(v)

StartAutoWalk(w, n, time) ==
  AddEventWalk([w EXCEPT !.walker.list = n, !.walker.stopped = FALSE], time)

ResumeAlone(w, time) == [w EXCEPT !.walker.fast = TRUE]
Resume(w, time) ==
  LET v == [w EXCEPT !.walker.fast = TRUE] IN
  IF v.walker.list > 0 THEN AddEventWalk(Reset(v), time) ELSE v

GoesOnFirst(w, time) ==
  Aborted(IF w.walker.eventWalk # 0 THEN AddEventWalk([w EXCEPT !.walker.eventWalk = 0], time) ELSE w)
GoesOn(w, time) ==
  LET v == Aborted(w) IN
  IF v.walker.eventWalk # 0 THEN AddEventWalk([v EXCEPT !.walker.eventWalk = 0], time) ELSE v

OnWalk(w, how, time) == GoesOn(IF how = "wait" THEN w ELSE StepOrEnd(w, how), time)

(* playerUseItem and its like: the thing is too far and must be walked to, *)
(* it is too early, or it is done (useItem), which stops a walk.           *)
Use(w, how) ==
  CASE how = "far" ->
         SetNextWalkActionTask([w EXCEPT !.queue = Append(@, Event(0, "autoWalk"))], TRUE)
    [] how = "early" -> SetNextActionTask(w, TRUE)
    [] how = "done" -> StopWalk(SetNextActionTask(w, FALSE))
-----------------------------------------------------------------------------
(* The scheduler and the dispatcher.                                       *)

PassEvent ==
  Len(queue) < MaxQueue /\ \E e \in scheduled :
    /\ scheduled' = scheduled \ {e}
    /\ queue' = Append(queue, e)
    /\ UNCHANGED walker

Taken(what) == queue # <<>> /\ Head(queue).what \in what
Popped == [Now EXCEPT !.queue = Tail(@)]

RoomFor(time) == Room(IF time = "now" THEN 2 ELSE 1)

(* checkCreatureWalk; whether the player may step already depends on when  *)
(* he did his last one.                                                    *)
RunWalk ==
  /\ Taken({"walk"})
  /\ \E how \in {"wait", "none", "leap", "halt", "shake"}, time \in Times :
       /\ RoomFor(time) /\ (how = "shake" => Room(3))
       /\ WalkBecomes(OnWalk(Popped, how, time))

RunAction ==
  /\ Taken({"task", "action"}) /\ Room(1)
  /\ \E how \in {"far", "early", "done"} : WalkBecomes(Use(Popped, how))

(* playerAutoWalk; startAutoWalk may refuse him. *)
RunAutoWalk ==
  /\ Taken({"autoWalk"})
  /\ \/ WalkBecomes(Popped)
     \/ \E n \in 1 .. MaxSteps, time \in Times :
          RoomFor(time) /\ WalkBecomes(StartAutoWalk(Popped, n, time))
-----------------------------------------------------------------------------
(* The client and others; their tasks are run when they come.              *)

(* playerAutoWalk and playerMove *)
AskWalk ==
  \E n \in 1 .. MaxSteps, time \in Times :
    RoomFor(time) /\ WalkBecomes(StartAutoWalk(Now, n, time))

(* playerStopAutoWalk; setNoMove does the same, whatever it sets. *)
AskStop == WalkBecomes(StopWalk(Now))

AskUse ==
  /\ Room(1) /\ Len(queue) < MaxQueue
  /\ \E how \in {"far", "early", "done"} : WalkBecomes(Use(Now, how))

(* A condition or a script changes the speed. *)
ChangeSpeed ==
  \/ WalkBecomes(Halt(Now))
  \/ ~walker.fast /\ \E time \in Times : RoomFor(time) /\ WalkBecomes(Resume(Now, time))

(* internalTeleport, by whomever. *)
Teleport == WalkBecomes(StopEventWalk(Now, "leap"))

WalkNext ==
  \/ PassEvent \/ RunWalk \/ RunAction \/ RunAutoWalk
  \/ AskWalk \/ AskStop \/ AskUse \/ ChangeSpeed \/ Teleport

WalkSpec == WalkInit /\ [][WalkNext]_walkVars
-----------------------------------------------------------------------------
(* Properties.                                                             *)

Pending(what) == {e.id : e \in {d \in scheduled : d.what = what}}
Coming(what) == Pending(what) \cup {queue[n].id : n \in {m \in DOMAIN queue : queue[m].what = what}}

WalkTypeOK ==
  /\ walker.list \in 0 .. MaxSteps
  /\ walker.eventWalk \in EventIds \cup {0}
  /\ \A f \in {"cancelNextWalk", "fast", "walkTask", "stopped"} : walker[f] \in BOOLEAN
  /\ walker.strandedBy \in {"", "leap", "speed", "ground"}
  /\ scheduled \subseteq [id : EventIds, what : {"walk", "task", "action"}]
  /\ \A n \in DOMAIN queue : queue[n].id \in EventIds \cup {0}

(* Who has steps to go gets there, although events are stopped that have   *)
(* been passed on already, and a stray one may end or replace the one the  *)
(* player knows: an event is on its way, unless a leap stopped it, none    *)
(* could be added for want of ground, or he has no speed, and then only    *)
(* until that comes back.  A leap leaves the steps and no event: the       *)
(* client has to ask again.                                                *)
WalkersWalk ==
  /\ walker.list > 0 /\ walker.strandedBy = "" => Coming("walk") # {}
  /\ walker.list > 0 /\ walker.strandedBy = "speed" => ~walker.fast
  /\ walker.strandedBy # "" => walker.eventWalk = 0
  /\ walker.eventWalk # 0 => walker.eventWalk \in Coming("walk")

(* The scheduler never holds an action but the last one the player was     *)
(* given: one that was replaced, or whose walk was aborted, runs only if   *)
(* it had been passed on before.                                           *)
OnlyLatestAction ==
  /\ Pending("action") \subseteq {walker.actionTaskEvent}
  /\ Pending("task") \subseteq {walker.walkTaskEvent}

(* After a stop at most one more step is made, until the player is told to *)
(* walk or his speed comes back; then addEventWalk has forgotten the stop. *)
StopsSoon == walker.stopped => walker.stepsSince <= 1

(* Events that are stopped too late neither keep a walker from walking,    *)
(* nor a stop from stopping, nor bring back an action that was replaced.   *)
WalksKept == WalkTypeOK /\ WalkersWalk /\ OnlyLatestAction /\ StopsSoon
=============================================================================
