------------------------------ MODULE GameState ------------------------------
(***************************************************************************)
(* The state of the game and those who change it: setGameState,            *)
(* saveGameState, cleanMapEx, prepareGlobalSave, globalSave and shutdown   *)
(* of Game (800/game.cpp), the handler of signals (800/otserv.cpp), which  *)
(* posts some orders as tasks and carries out others by itself, at any     *)
(* point of a task, and scripts (800/luascript.cpp).  Who may log in, and  *)
(* who is kicked when the game closes, is in module Session; here somebody *)
(* may always be playing.                                                  *)
(*                                                                         *)
(* The dispatcher thread and the handler each run a sequence of steps; a   *)
(* step reads or writes the shared state once.                             *)
(***************************************************************************)
EXTENDS Naturals, SequencesExt

CONSTANT MaxOrders  \* bound: of administrators and scripts

ASSUME GameStateAssumption == MaxOrders \in Nat

VARIABLES
  gameState,
  code,         \* what a thread has still to do of its task or signal
  taskQueue,    \* the queue of the dispatcher
  accepting,    \* the queue takes tasks
  saveEvent,    \* the stage of the global save that is due next
  unsaved,      \* somebody has played since the last save
  orders,       \* how many orders were given
  wanted,       \* the state ordered last, as seen by the dispatcher thread
  exclusive,    \* the threads have never been in setGameState at once
  power         \* "on", "off", or "terminated": off by SIGTERM

stateVars == <<gameState, code, taskQueue, accepting, saveEvent, unsaved,
               orders, wanted, exclusive, power>>

States == {"normal", "maintain", "closed", "closing", "shutdown"}
ThreadNames == {"dispatcher", "handler"}
Stages == {"in5", "in3", "in1", "in0"}  \* of prepareGlobalSave
None == "none"

Step(op, arg) == [op |-> op, arg |-> arg]

(* Game::start has armed the global save. *)
StateInit ==
  /\ gameState = "normal"
  /\ code = [t \in ThreadNames |-> <<>>]
  /\ taskQueue = <<>> /\ accepting = TRUE
  /\ saveEvent = "in5"
  /\ unsaved = FALSE
  /\ orders = 0 /\ wanted = "normal" /\ exclusive = TRUE
  /\ power = "on"
-----------------------------------------------------------------------------
(* The functions, as steps.                                                *)

SetState(s) == <<Step("check", s)>>
Save == <<Step("enter", "maintain"), Step("write", "all"), Step("leave", "normal")>>
CleanMap == <<Step("enter", "maintain"), Step("leave", "normal")>>

EffectsUnsaved(s) ==
  CASE s = "closed" -> Save
    [] s = "shutdown" -> <<Step("post", "exit"), Step("stop", "all")>>
    [] OTHER -> <<>>

(* What setGameState does once the state is another. *)
Effects(s) ==
  CASE s = "closed" -> Save
    [] s = "shutdown" -> Save \o <<Step("post", "exit"), Step("stop", "all")>>
    [] OTHER -> <<>>

(* globalSave: rent is paid and the map cleaned before the posted close. *)
GlobalSave(down, clean) ==
  IF down THEN <<Step("post", "shutdown")>>
  ELSE <<Step("post", "closed")>> \o (IF clean THEN CleanMap ELSE <<>>)
       \o <<Step("arm", "in5"), Step("post", "normal")>>

(* prepareGlobalSave but for its last stage; it knows no stage "in2". *)
FollowingEven == [in5 |-> "in4", in4 |-> "in2", in2 |-> "in0"]
Following == [in5 |-> "in3", in3 |-> "in1", in1 |-> "in0"]
PrepareOff(m) == IF m = "in3" THEN <<>> ELSE <<Step("arm", Following[m])>>
Prepare(m) ==
  (IF m = "in5" THEN <<Step("check", "closing")>> ELSE <<>>) \o <<Step("arm", Following[m])>>

(* A state ordered last; nothing is ordered after shutdown. *)
Order(s) == IF wanted = "shutdown" THEN wanted ELSE s
-----------------------------------------------------------------------------
(* The steps of a thread.                                                  *)

Idle(t) == code[t] = <<>>

(* In setGameState, or about to call it because of what was read.          *)
Setting(c) == c # <<>> /\ Head(c).op \in {"check", "assign"}

(* t goes on with these steps. *)
GoesOnWith(t, steps) ==
  /\ code' = [code EXCEPT ![t] = steps]
  /\ exclusive' = (exclusive /\ ~(Setting(steps) /\ \E u \in ThreadNames \ {t} : Setting(code[u])))

(* t does the step at its head and goes on with what follows. *)
Does(t, op, following) ==
  /\ power = "on" /\ ~Idle(t) /\ Head(code[t]).op = op
  /\ GoesOnWith(t, following)
  /\ UNCHANGED <<orders, wanted, power>>

Arg(t) == Head(code[t]).arg
Rest(t) == Tail(code[t])

Posts(task) == taskQueue' = IF accepting THEN Append(taskQueue, task) ELSE taskQueue

(* setGameState; "shutdown" cannot be stopped. *)
AcceptsAny(s) == gameState # s
Accepts(s) == gameState \notin {"shutdown", s}

Check(t) ==
  /\ Does(t, "check",
       IF Accepts(Arg(t)) THEN <<Step("assign", Arg(t))>> \o Effects(Arg(t)) \o Rest(t)
       ELSE Rest(t))
  /\ UNCHANGED <<gameState, taskQueue, accepting, saveEvent, unsaved>>

Assign(t) ==
  /\ Does(t, "assign", Rest(t))
  /\ gameState' = Arg(t)
  /\ UNCHANGED <<taskQueue, accepting, saveEvent, unsaved>>

(* saveGameState and cleanMapEx take the game from normal to maintain, and *)
(* from maintain to normal when they are done.                             *)
Enter(t) ==
  /\ Does(t, "enter",
       IF gameState = "normal" THEN SetState("maintain") \o Rest(t) ELSE Rest(t))
  /\ UNCHANGED <<gameState, taskQueue, accepting, saveEvent, unsaved>>

LeaveStateAlways(t) ==
  /\ Does(t, "leave", SetState("normal") \o Rest(t))
  /\ UNCHANGED <<gameState, taskQueue, accepting, saveEvent, unsaved>>
LeaveState(t) ==
  /\ Does(t, "leave",
       IF gameState = "maintain" THEN SetState("normal") \o Rest(t) ELSE Rest(t))
  /\ UNCHANGED <<gameState, taskQueue, accepting, saveEvent, unsaved>>

WriteAll(t) ==
  /\ Does(t, "write", Rest(t))
  /\ unsaved' = FALSE
  /\ UNCHANGED <<gameState, taskQueue, accepting, saveEvent>>

(* addEvent takes nothing once the scheduler was stopped. *)
ArmSave(t) ==
  /\ Does(t, "arm", Rest(t))
  /\ saveEvent' = IF accepting THEN Arg(t) ELSE saveEvent
  /\ UNCHANGED <<gameState, taskQueue, accepting, unsaved>>

(* Game::shutdown is posted if closeInstanceOnShutdown is set. *)
PostTask(t) ==
  /\ Does(t, "post", Rest(t))
  /\ Posts(Arg(t)) \/ (Arg(t) = "exit" /\ UNCHANGED taskQueue)
  /\ UNCHANGED <<gameState, accepting, saveEvent, unsaved>>

StopThreads(t) ==
  /\ Does(t, "stop", Rest(t))
  /\ accepting' = FALSE /\ saveEvent' = None
  /\ UNCHANGED <<gameState, taskQueue, unsaved>>
-----------------------------------------------------------------------------
(* The tasks of the dispatcher.                                            *)

Begin(Which, steps) ==
  /\ power = "on" /\ Idle("dispatcher")
  /\ taskQueue # <<>> /\ Head(taskQueue) \in Which
  /\ taskQueue' = Tail(taskQueue)
  /\ GoesOnWith("dispatcher", steps)
  /\ UNCHANGED <<gameState, accepting, saveEvent, unsaved, orders>>

StateTask ==
  /\ Begin(States, SetState(Head(taskQueue)))
  /\ wanted' = Order(Head(taskQueue))
  /\ UNCHANGED power

SaveTask == Begin({"save"}, Save) /\ UNCHANGED <<wanted, power>>
CleanTask == Begin({"clean"}, CleanMap) /\ UNCHANGED <<wanted, power>>

(* A stage of the global save; shutdownAtGlobalSave and                    *)
(* cleanMapAtGlobalSave are read from the configuration, which may change. *)
PrepareTask ==
  /\ \/ Begin(DOMAIN Following, Prepare(Head(taskQueue)))
     \/ \E down, clean \in BOOLEAN : Begin({"in0"}, GlobalSave(down, clean))
  /\ wanted' = IF Head(taskQueue) = "in5" THEN Order("closing") ELSE wanted
  /\ UNCHANGED power

(* Game::shutdown *)
ExitTask ==
  /\ Begin({"exit", "term"}, <<>>)
  /\ power' = IF Head(taskQueue) = "term" THEN "terminated" ELSE "off"
  /\ UNCHANGED wanted
-----------------------------------------------------------------------------
(* Others.                                                                 *)

(* The scheduler posts the stage that is due. *)
SaveDue ==
  /\ power = "on" /\ saveEvent # None
  /\ saveEvent' = None
  /\ Posts(saveEvent)
  /\ UNCHANGED <<gameState, code, accepting, unsaved, orders, wanted,
                 exclusive, power>>

Ordered == power = "on" /\ orders < MaxOrders /\ orders' = orders + 1

(* SIGHUP, SIGUSR1, SIGQUIT and SIGTERM, doSetGameState, doSaveServer, and *)
(* a task whose script calls doCleanMap.                                   *)
PostOrder(task) ==
  /\ Ordered /\ Posts(task)
  /\ UNCHANGED <<gameState, code, accepting, saveEvent, unsaved, wanted,
                 exclusive, power>>

(* SIGUSR2 and SIGTRAP are carried out by the handler. *)
Signal(steps, s) ==
  /\ Ordered /\ Idle("handler")
  /\ GoesOnWith("handler", steps)
  /\ wanted' = s
  /\ UNCHANGED <<gameState, taskQueue, accepting, saveEvent, unsaved, power>>

(* parsePacket is deaf in GAMESTATE_SHUTDOWN. *)
Play ==
  /\ power = "on" /\ Idle("dispatcher")
  /\ ~unsaved /\ gameState # "shutdown"
  /\ unsaved' = TRUE
  /\ UNCHANGED <<gameState, code, taskQueue, accepting, saveEvent, orders, wanted,
                 exclusive, power>>

ThreadStep(t) ==
  \/ Check(t) \/ Assign(t) \/ Enter(t) \/ LeaveState(t) \/ WriteAll(t)
  \/ ArmSave(t) \/ PostTask(t) \/ StopThreads(t)

TaskBegins == StateTask \/ SaveTask \/ CleanTask \/ PrepareTask \/ ExitTask

StateNext ==
  \/ \E t \in ThreadNames : ThreadStep(t)
  \/ TaskBegins \/ SaveDue
  \/ \E task \in States \cup {"save", "clean", "term"} : PostOrder(task)
  \/ Signal(SetState("normal"), Order("normal")) \/ Signal(CleanMap, wanted)
  \/ Play

StateSpec == StateInit /\ [][StateNext]_stateVars
-----------------------------------------------------------------------------
(* Properties.                                                             *)

StateTypeOK ==
  /\ gameState \in States /\ wanted \in States
  /\ \A t \in ThreadNames : \A n \in DOMAIN code[t] : DOMAIN code[t][n] = {"op", "arg"}
  /\ saveEvent \in Stages \cup {None}
  /\ accepting \in BOOLEAN /\ unsaved \in BOOLEAN /\ exclusive \in BOOLEAN
  /\ orders \in 0 .. MaxOrders
  /\ power \in {"on", "off", "terminated"}


(* Nothing else stops it: neither a save nor a clean that began before it  *)
(* and ends after it, in either thread, nor an order that comes at any     *)
(* point of it.                                                            *)
ShutdownIsFinal == [][exclusive /\ gameState = "shutdown" => gameState' = "shutdown"]_stateVars

(* Even a shutdown that was stopped is gone through with: when the         *)
(* dispatcher thread is done with it, whatever the handler did to the      *)
(* state meanwhile, no task is accepted and no save is due any more.       *)
ShutdownGoesThrough ==
  wanted = "shutdown" /\ Idle("dispatcher") => ~accepting /\ saveEvent = None

(* When no thread has anything to do, the state is the one ordered last,   *)
(* whatever saves, cleanings, orders and stages of the global save of the  *)
(* two threads came between each other's steps; only maintain may have     *)
(* been lifted by one of them.                                             *)
OrdersKept ==
  exclusive /\ (\A t \in ThreadNames : Idle(t)) =>
    gameState = wanted \/ (wanted = "maintain" /\ gameState = "normal")

(* A server that shut down on order, and not by SIGTERM, has saved what    *)
(* was played, unless a handler stopped the shutdown and left the game     *)
(* open: then it goes down with people in it.                              *)
NothingLost == power = "off" /\ (exclusive \/ gameState = "shutdown") => ~unsaved

(* The game is closed for a global save again and again.                   *)
SavesGoOn == []<>(gameState = "closed" \/ ~accepting \/ power # "on")

(* The handler of signals may come between any two steps of the dispatcher *)
(* thread, and the reverse.  As long as not both are in setGameState at    *)
(* once, the order that was given last is the one the server is left in,   *)
(* and a shutdown stays; and then too a shutdown is gone through with, and *)
(* what was played is saved before.                                        *)
StateKept ==
  [](StateTypeOK /\ OrdersKept /\ NothingLost /\ ShutdownGoesThrough) /\ ShutdownIsFinal
=============================================================================
