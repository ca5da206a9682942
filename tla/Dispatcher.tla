------------------------------ MODULE Dispatcher ------------------------------
(***************************************************************************)
(* The game's task queue, Dispatcher (800/tasks.cpp).  One thread takes    *)
(* tasks off m_taskList and runs them; every other thread - the network    *)
(* thread, the scheduler thread - and the running task itself may call     *)
(* addTask.                                                                *)
(*                                                                         *)
(* A critical section of m_taskLock that neither blocks nor runs a task is *)
(* one step.  The lock is a variable only because shutdown() keeps it      *)
(* while flush() runs tasks.  addTask signals after it has released the    *)
(* lock, so the notification is a step of its own.                         *)
(***************************************************************************)
EXTENDS Naturals, Sequences

CONSTANTS
  Threads,        \* threads other than the dispatcher's that call addTask
  Dis,            \* the dispatcher thread
  NoThread,
  Tasks,          \* Task objects; each is created at most once
  NoTask,
  Expiring,       \* tasks created with DISPATCHER_TASK_EXPIRATION
  StopTasks,      \* tasks whose body is setGameState(GAMESTATE_SHUTDOWN)
  ShutdownTasks   \* tasks whose body is Game::shutdown

ASSUME ConstantsAssumption ==
  /\ Dis \notin Threads
  /\ NoThread \notin Threads \cup {Dis}
  /\ NoTask \notin Tasks
  /\ Expiring \subseteq Tasks
  /\ StopTasks \subseteq Tasks
  /\ ShutdownTasks \subseteq Tasks
  /\ StopTasks \cap ShutdownTasks = {}

VARIABLES
  threadState,    \* m_threadState
  taskLock,       \* the thread that keeps m_taskLock across steps
  taskList,       \* m_taskList
  pc,             \* where each thread is
  arg,            \* the task a thread is passing to addTask
  toFront,        \* the front argument of that call
  signalled,      \* the waiting dispatcher thread has been notified
  current,        \* the task the dispatcher thread is executing
  status,         \* what has become of each Task object
  stamp,          \* history: the position of a task among those pushed to the back
  pushes          \* history: the number of tasks pushed to the back

vars == <<threadState, taskLock, taskList, pc, arg, toFront, signalled,
          current, status, stamp, pushes>>

AllThreads == Threads \cup {Dis}

ThreadStates == {"running", "closing", "terminated"}

(* "queued": owned by m_taskList; "running": taken and not yet deleted;    *)
(* "leaked": refused by addTask, which neither queues nor deletes it.      *)
Statuses == {"free", "posting", "queued", "running", "deleted", "leaked"}

ThreadPcs == {"idle", "addTask", "notify"}
DispatcherPcs == {"loop", "wait", "taken", "exec", "addTask", "notify",
                  "flush", "exited"}

TypeOK ==
  /\ threadState \in ThreadStates
  /\ taskLock \in {NoThread, Dis}
  /\ taskList \in Seq(Tasks)
  /\ pc \in [AllThreads -> ThreadPcs \cup DispatcherPcs]
  /\ pc[Dis] \in DispatcherPcs
  /\ \A th \in Threads : pc[th] \in ThreadPcs
  /\ arg \in [AllThreads -> Tasks \cup {NoTask}]
  /\ toFront \in [AllThreads -> BOOLEAN]
  /\ signalled \in BOOLEAN
  /\ current \in Tasks \cup {NoTask}
  /\ status \in [Tasks -> Statuses]
  /\ stamp \in [Tasks -> Nat]
  /\ pushes \in Nat

Init ==
  /\ threadState = "running"
  /\ taskLock = NoThread
  /\ taskList = <<>>
  /\ pc = [th \in AllThreads |-> IF th = Dis THEN "loop" ELSE "idle"]
  /\ arg = [th \in AllThreads |-> NoTask]
  /\ toFront = [th \in AllThreads |-> FALSE]
  /\ signalled = FALSE
  /\ current = NoTask
  /\ status = [t \in Tasks |-> "free"]
  /\ stamp = [t \in Tasks |-> 0]
  /\ pushes = 0

Alive == pc[Dis] # "exited"

(* Where a thread is when it calls addTask. *)
CallsFrom(th) == IF th = Dis THEN "exec" ELSE "idle"

(* A definition may be preceded by mutated forms of it, which nothing in   *)
(* the model uses: the properties are tried against them.                  *)
ResumeIdle(th) == "idle"

(* Where a thread goes on after a call of addTask. *)
Resume(th) == IF th = Dis THEN "exec" ELSE "idle"

-----------------------------------------------------------------------------
(* addTask, called by any thread.                                          *)

(* createTask: the task object exists from here on. *)
CallAddTask(th, t, front) ==
  /\ Alive
  /\ pc[th] = CallsFrom(th)
  /\ status[t] = "free"
  /\ pc' = [pc EXCEPT ![th] = "addTask"]
  /\ arg' = [arg EXCEPT ![th] = t]
  /\ toFront' = [toFront EXCEPT ![th] = front]
  /\ status' = [status EXCEPT ![t] = "posting"]
  /\ UNCHANGED <<threadState, taskLock, taskList, signalled, current, stamp, pushes>>

PushReversed(t, front) == IF front THEN Append(taskList, t) ELSE <<t>> \o taskList
PushTwice(t, front) == IF front THEN <<t, t>> \o taskList ELSE Append(taskList, t)

Push(t, front) == IF front THEN <<t>> \o taskList ELSE Append(taskList, t)

NeverSignals == FALSE

SignalsUnlessEmpty == taskList # <<>>

(* signal = m_taskList.empty(), read before the push. *)
MustSignal == taskList = <<>>

Accepts == threadState = "running"

AddTask(th) ==
  LET t == arg[th] IN
  /\ Alive
  /\ pc[th] = "addTask"
  /\ taskLock = NoThread
  /\ IF Accepts
     THEN /\ taskList' = Push(t, toFront[th])
          /\ status' = [status EXCEPT ![t] = "queued"]
          /\ pc' = [pc EXCEPT ![th] = IF MustSignal THEN "notify" ELSE Resume(th)]
          /\ IF toFront[th]
             THEN UNCHANGED <<stamp, pushes>>
             ELSE /\ stamp' = [stamp EXCEPT ![t] = pushes + 1]
                  /\ pushes' = pushes + 1
     ELSE /\ status' = [status EXCEPT ![t] = "leaked"]
          /\ pc' = [pc EXCEPT ![th] = Resume(th)]
          /\ UNCHANGED <<taskList, stamp, pushes>>
  /\ arg' = [arg EXCEPT ![th] = NoTask]
  /\ UNCHANGED <<threadState, taskLock, toFront, signalled, current>>

(* m_taskSignal.notify_one(): lost unless the dispatcher thread waits. *)
Notify(th) ==
  /\ Alive
  /\ pc[th] = "notify"
  /\ pc' = [pc EXCEPT ![th] = Resume(th)]
  /\ signalled' = (signalled \/ pc[Dis] = "wait")
  /\ UNCHANGED <<threadState, taskLock, taskList, arg, toFront, current,
                 status, stamp, pushes>>

-----------------------------------------------------------------------------
(* The dispatcher thread.                                                  *)

(* The first task leaves the list; the caller has seen that there is one. *)
TakeFirst ==
  /\ taskList' = Tail(taskList)
  /\ current' = Head(taskList)
  /\ status' = [status EXCEPT ![Head(taskList)] = "running"]

(* The loop finds the list empty and waits on m_taskSignal. *)
StartWait ==
  /\ pc[Dis] = "loop"
  /\ threadState # "terminated"
  /\ taskLock = NoThread
  /\ taskList = <<>>
  /\ pc' = [pc EXCEPT ![Dis] = "wait"]
  /\ signalled' = FALSE
  /\ UNCHANGED <<threadState, taskLock, taskList, arg, toFront, current,
                 status, stamp, pushes>>

Take ==
  /\ pc[Dis] = "loop"
  /\ threadState # "terminated"
  /\ taskLock = NoThread
  /\ taskList # <<>>
  /\ TakeFirst
  /\ pc' = [pc EXCEPT ![Dis] = "taken"]
  /\ UNCHANGED <<threadState, taskLock, arg, toFront, signalled, stamp, pushes>>

(* wait() returns with the lock, after a notification or spuriously; the   *)
(* list is looked at again.                                                *)
ReturnFromWait ==
  /\ pc[Dis] = "wait"
  /\ taskLock = NoThread
  /\ IF taskList # <<>> /\ threadState # "terminated"
     THEN /\ TakeFirst
          /\ pc' = [pc EXCEPT ![Dis] = "taken"]
     ELSE /\ pc' = [pc EXCEPT ![Dis] = "loop"]
          /\ UNCHANGED <<taskList, current, status>>
  /\ signalled' = FALSE
  /\ UNCHANGED <<threadState, taskLock, arg, toFront, stamp, pushes>>

Wake == signalled /\ ReturnFromWait
SpuriousWake == ~signalled /\ ReturnFromWait

(* hasExpired() is false: the task is called. *)
Begin ==
  /\ pc[Dis] = "taken"
  /\ pc' = [pc EXCEPT ![Dis] = "exec"]
  /\ UNCHANGED <<threadState, taskLock, taskList, arg, toFront, signalled,
                 current, status, stamp, pushes>>

(* Only a task with an expiration can be dropped for its age. *)
Expire ==
  /\ pc[Dis] = "taken"
  /\ current \in Expiring
  /\ status' = [status EXCEPT ![current] = "deleted"]
  /\ current' = NoTask
  /\ pc' = [pc EXCEPT ![Dis] = "loop"]
  /\ UNCHANGED <<threadState, taskLock, taskList, arg, toFront, signalled,
                 stamp, pushes>>

(* setGameState(GAMESTATE_SHUTDOWN) ends in Dispatcher::stop. *)
Stop ==
  /\ pc[Dis] = "exec"
  /\ current \in StopTasks
  /\ taskLock = NoThread
  /\ threadState' = "closing"
  /\ UNCHANGED <<taskLock, taskList, pc, arg, toFront, signalled, current,
                 status, stamp, pushes>>

(* A body is over when it has made its obligatory calls: a stop task has    *)
(* stopped the dispatcher, and Game::shutdown never returns.               *)
BodyDone ==
  /\ current \notin ShutdownTasks
  /\ current \in StopTasks => threadState # "running"

(* The body returns, sendAll has run, and the task is deleted. *)
Finish ==
  /\ pc[Dis] = "exec"
  /\ BodyDone
  /\ status' = [status EXCEPT ![current] = "deleted"]
  /\ current' = NoTask
  /\ pc' = [pc EXCEPT ![Dis] = IF taskLock = Dis THEN "flush" ELSE "loop"]
  /\ UNCHANGED <<threadState, taskLock, taskList, arg, toFront, signalled,
                 stamp, pushes>>

(* Dispatcher::shutdown, called by Game::shutdown: the lock is taken and    *)
(* kept for the flush.                                                     *)
Shutdown ==
  /\ pc[Dis] = "exec"
  /\ current \in ShutdownTasks
  /\ taskLock = NoThread
  /\ taskLock' = Dis
  /\ threadState' = "terminated"
  /\ pc' = [pc EXCEPT ![Dis] = "flush"]
  /\ UNCHANGED <<taskList, arg, toFront, signalled, current, status, stamp, pushes>>

(* flush() takes the next task and calls it, expired or not. *)
FlushNext ==
  /\ pc[Dis] = "flush"
  /\ taskList # <<>>
  /\ TakeFirst
  /\ pc' = [pc EXCEPT ![Dis] = "exec"]
  /\ UNCHANGED <<threadState, taskLock, arg, toFront, signalled, stamp, pushes>>

(* flush() is over, shutdown() unlocks and Game::shutdown calls exit(1). *)
Exit ==
  /\ pc[Dis] = "flush"
  /\ taskList = <<>>
  /\ taskLock' = NoThread
  /\ pc' = [pc EXCEPT ![Dis] = "exited"]
  /\ UNCHANGED <<threadState, taskList, arg, toFront, signalled, current,
                 status, stamp, pushes>>

Poster(th) ==
  \/ \E t \in Tasks, front \in BOOLEAN : CallAddTask(th, t, front)
  \/ AddTask(th)
  \/ Notify(th)

DispatcherThread ==
  \/ StartWait
  \/ Take
  \/ Wake
  \/ SpuriousWake
  \/ Begin
  \/ Expire
  \/ Stop
  \/ Finish
  \/ Shutdown
  \/ FlushNext
  \/ Exit

Next == DispatcherThread \/ \E th \in AllThreads : Poster(th)

Spec == Init /\ [][Next]_vars

(* A thread inside addTask goes on, a woken dispatcher thread runs, and    *)
(* the body of a task returns.  Nobody has to post a task and nothing has  *)
(* to wake spuriously.                                                     *)
Fairness ==
  /\ \A th \in AllThreads : WF_vars(AddTask(th)) /\ WF_vars(Notify(th))
  /\ WF_vars(StartWait) /\ WF_vars(Take) /\ WF_vars(Wake)
  /\ WF_vars(Begin) /\ WF_vars(Stop) /\ WF_vars(Shutdown)
  /\ WF_vars(Finish) /\ WF_vars(FlushNext) /\ WF_vars(Exit)

FairSpec == Spec /\ Fairness

-----------------------------------------------------------------------------
(* Properties.                                                             *)

InList(t) == \E i \in 1 .. Len(taskList) : taskList[i] = t

(* Every Task object has one owner: it is in m_taskList exactly while it is *)
(* "queued", never twice, and a task that was taken, deleted or refused is *)
(* not in the list - no task runs twice and none is used after its delete. *)
OneOwner ==
  /\ \A i, j \in 1 .. Len(taskList) : taskList[i] = taskList[j] => i = j
  /\ \A t \in Tasks : InList(t) <=> status[t] = "queued"

(* addTask signals only when the list was empty, after it has unlocked.    *)
(* That is enough: a dispatcher thread that waits un-notified while tasks   *)
(* are queued is about to be notified by a thread that is past its push.   *)
NoLostWakeup ==
  pc[Dis] = "wait" /\ ~signalled /\ taskList # <<>>
    => \E th \in Threads : pc[th] = "notify"

Back(t) == stamp[t] > 0

(* The tasks posted to the back run in the order of their posting, however *)
(* many tasks are posted to the front in between: the list keeps the order *)
(* and what was taken or deleted was posted before all that is queued.     *)
(* Connection::closeConnectionTask relies on it to run before the release. *)
FifoOrder ==
  /\ \A i, j \in 1 .. Len(taskList) :
       i < j /\ Back(taskList[i]) /\ Back(taskList[j])
         => stamp[taskList[i]] < stamp[taskList[j]]
  /\ \A t \in Tasks, i \in 1 .. Len(taskList) :
       status[t] \in {"running", "deleted"} /\ Back(t) /\ Back(taskList[i])
         => stamp[t] < stamp[taskList[i]]

(* A task that addTask accepted is run, or dropped for its age, whatever   *)
(* the other threads post meanwhile and although the queue may be closed,  *)
(* unless Game::shutdown begins before.                                    *)
AcceptedTaskEnds ==
  \A t \in Tasks :
    status[t] = "queued" ~> status[t] = "deleted" \/ threadState = "terminated"

(* doc/SIGNALS.txt says of TERM that it shuts down the server: once         *)
(* Game::shutdown has begun, the process exits.                            *)
ShutdownExits == threadState = "terminated" ~> pc[Dis] = "exited"
=============================================================================
