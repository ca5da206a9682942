--------------------------- MODULE DispatcherProofs ---------------------------
(***************************************************************************)
(* Machine-checked proofs about the task queue of module Dispatcher, for   *)
(* any set of threads and tasks.                                           *)
(***************************************************************************)
EXTENDS Dispatcher, SequenceTheorems, TLAPS

(* What a push does to the list, at either end.                            *)
LEMMA PushFront ==
  ASSUME NEW S, NEW s \in Seq(S), NEW t \in S
  PROVE  /\ <<t>> \o s \in Seq(S)
         /\ Len(<<t>> \o s) = Len(s) + 1
         /\ (<<t>> \o s)[1] = t
         /\ \A i \in 1 .. Len(s) + 1 : i # 1 => (<<t>> \o s)[i] = s[i - 1]
<1>1. <<t>> \in Seq(S) /\ Len(<<t>>) = 1 /\ <<t>>[1] = t
  OBVIOUS
<1>2. /\ <<t>> \o s \in Seq(S)
      /\ Len(<<t>> \o s) = Len(<<t>>) + Len(s)
      /\ \A i \in 1 .. Len(<<t>>) + Len(s) :
           (<<t>> \o s)[i] = IF i <= Len(<<t>>) THEN <<t>>[i] ELSE s[i - Len(<<t>>)]
  BY <1>1, ConcatProperties
<1>3. Len(s) \in Nat
  OBVIOUS
<1>. QED
  BY <1>1, <1>2, <1>3

LEMMA PushBack ==
  ASSUME NEW S, NEW s \in Seq(S), NEW t \in S
  PROVE  /\ Append(s, t) \in Seq(S)
         /\ Len(Append(s, t)) = Len(s) + 1
         /\ Append(s, t)[Len(s) + 1] = t
         /\ \A i \in 1 .. Len(s) : Append(s, t)[i] = s[i]
  OBVIOUS

LEMMA TakeProperties ==
  ASSUME NEW S, NEW s \in Seq(S), s # <<>>
  PROVE  /\ Head(s) \in S
         /\ Head(s) = s[1]
         /\ 1 \in 1 .. Len(s)
         /\ Tail(s) \in Seq(S)
         /\ Len(Tail(s)) = Len(s) - 1
         /\ \A i \in 1 .. Len(s) - 1 : Tail(s)[i] = s[i + 1]
  OBVIOUS

(* The list keeps its type under every push. *)
LEMMA PushType ==
  ASSUME TypeOK, NEW t \in Tasks, NEW front \in BOOLEAN
  PROVE  Push(t, front) \in Seq(Tasks)
  BY PushFront, PushBack DEF TypeOK, Push

(* A thread inside addTask is passing a task that nobody else owns yet.    *)
ArgOwned ==
  /\ \A th \in AllThreads :
       pc[th] = "addTask" => arg[th] \in Tasks /\ status[arg[th]] = "posting"
  /\ \A th, th2 \in AllThreads :
       pc[th] = "addTask" /\ pc[th2] = "addTask" /\ arg[th] = arg[th2] => th = th2

(* While the dispatcher thread is busy with a task, that task is running.  *)
CurrentRuns ==
  pc[Dis] \in {"taken", "exec", "addTask", "notify"}
    => current \in Tasks /\ status[current] = "running"

(* The inductive invariant: OneOwner needs that what addTask pushes is not *)
(* in the list, and ArgOwned that what is taken off the list is not being  *)
(* passed to addTask.                                                      *)
Ownership == TypeOK /\ ArgOwned /\ CurrentRuns /\ OneOwner
-----------------------------------------------------------------------------
(* How the two changes of the list, and a step that leaves it alone, keep  *)
(* the ownership of the tasks.                                             *)
LEMMA PushOwner ==
  ASSUME TypeOK, OneOwner, NEW t \in Tasks, NEW front \in BOOLEAN,
         status[t] # "queued",
         taskList' = Push(t, front),
         status' = [status EXCEPT ![t] = "queued"]
  PROVE  OneOwner'
<1>1. \A i \in 1 .. Len(taskList) : taskList[i] # t
  BY DEF OneOwner, InList
<1>2. taskList \in Seq(Tasks) /\ status \in [Tasks -> Statuses]
  BY DEF TypeOK
<1>3. CASE front
  <2>1. taskList' = <<t>> \o taskList
    BY <1>3 DEF Push
  <2>2. /\ Len(taskList') = Len(taskList) + 1
        /\ taskList'[1] = t
        /\ \A i \in 1 .. Len(taskList) + 1 : i # 1 => taskList'[i] = taskList[i - 1]
    BY <1>2, <2>1, PushFront
  <2>3. Len(taskList) \in Nat
    BY <1>2
  <2>4. \A i \in 1 .. Len(taskList) : i + 1 \in 1 .. Len(taskList') /\ taskList'[i + 1] = taskList[i]
    BY <2>2, <2>3
  <2>5. ASSUME NEW i \in 1 .. Len(taskList'), NEW j \in 1 .. Len(taskList'),
               taskList'[i] = taskList'[j]
        PROVE  i = j
    BY <1>1, <2>2, <2>3, <2>5 DEF OneOwner
  <2>6. ASSUME NEW u \in Tasks
        PROVE  InList(u)' <=> status'[u] = "queued"
    <3>1. InList(u)' => u = t \/ InList(u)
      BY <2>2, <2>3 DEF InList
    <3>2. InList(u) => InList(u)'
      BY <2>4 DEF InList
    <3>3. InList(t)'
      BY <2>2, <2>3 DEF InList
    <3>. QED
      BY <1>2, <3>1, <3>2, <3>3 DEF OneOwner
  <2>. QED
    BY <2>5, <2>6 DEF OneOwner
<1>4. CASE ~front
  <2>1. taskList' = Append(taskList, t)
    BY <1>4 DEF Push
  <2>2. /\ Len(taskList') = Len(taskList) + 1
        /\ taskList'[Len(taskList) + 1] = t
        /\ \A i \in 1 .. Len(taskList) : taskList'[i] = taskList[i]
    BY <1>2, <2>1, PushBack
  <2>3. Len(taskList) \in Nat
    BY <1>2
  <2>5. ASSUME NEW i \in 1 .. Len(taskList'), NEW j \in 1 .. Len(taskList'),
               taskList'[i] = taskList'[j]
        PROVE  i = j
    BY <1>1, <2>2, <2>3, <2>5 DEF OneOwner
  <2>6. ASSUME NEW u \in Tasks
        PROVE  InList(u)' <=> status'[u] = "queued"
    <3>1. InList(u)' <=> u = t \/ InList(u)
      BY <2>2, <2>3 DEF InList
    <3>. QED
      BY <1>2, <3>1 DEF OneOwner
  <2>. QED
    BY <2>5, <2>6 DEF OneOwner
<1>. QED
  BY <1>3, <1>4

(* What is first in the list is owned by it. *)
LEMMA HeadQueued ==
  ASSUME TypeOK, OneOwner, taskList # <<>>
  PROVE  /\ Head(taskList) \in Tasks
         /\ Tail(taskList) \in Seq(Tasks)
         /\ status[Head(taskList)] = "queued"
<1>1. taskList \in Seq(Tasks)
  BY DEF TypeOK
<1>2. /\ Head(taskList) \in Tasks
      /\ Head(taskList) = taskList[1]
      /\ 1 \in 1 .. Len(taskList)
      /\ Tail(taskList) \in Seq(Tasks)
  BY <1>1, TakeProperties
<1>. QED
  BY <1>2 DEF OneOwner, InList

LEMMA TakeOwner ==
  ASSUME TypeOK, OneOwner, taskList # <<>>, TakeFirst
  PROVE  OneOwner'
<1>1. taskList \in Seq(Tasks) /\ status \in [Tasks -> Statuses]
  BY DEF TypeOK
<1>2. /\ Head(taskList) \in Tasks
      /\ Head(taskList) = taskList[1]
      /\ 1 \in 1 .. Len(taskList)
      /\ Len(taskList') = Len(taskList) - 1
      /\ \A i \in 1 .. Len(taskList) - 1 : taskList'[i] = taskList[i + 1]
  BY <1>1, TakeProperties DEF TakeFirst
<1>3. Len(taskList) \in Nat
  BY <1>1
<1>4. \A i \in 1 .. Len(taskList) : i # 1 => taskList[i] # Head(taskList)
  BY <1>2 DEF OneOwner
<1>5. ASSUME NEW i \in 1 .. Len(taskList'), NEW j \in 1 .. Len(taskList'),
             taskList'[i] = taskList'[j]
      PROVE  i = j
  <2>1. i + 1 \in 1 .. Len(taskList) /\ j + 1 \in 1 .. Len(taskList)
    BY <1>2, <1>3
  <2>2. taskList[i + 1] = taskList[j + 1]
    BY <1>2, <1>5
  <2>3. i + 1 = j + 1
    BY <2>1, <2>2 DEF OneOwner
  <2>. QED
    BY <1>2, <1>3, <2>3
<1>6. ASSUME NEW u \in Tasks
      PROVE  InList(u)' <=> status'[u] = "queued"
  <2>1. InList(u)' => InList(u) /\ u # Head(taskList)
    BY <1>2, <1>3, <1>4 DEF InList
  <2>2. ASSUME InList(u), u # Head(taskList)
        PROVE  InList(u)'
    <3>1. PICK i \in 1 .. Len(taskList) : taskList[i] = u
      BY <2>2 DEF InList
    <3>2. i # 1
      BY <1>2, <2>2, <3>1
    <3>3. i - 1 \in 1 .. Len(taskList') /\ taskList'[i - 1] = u
      BY <1>2, <1>3, <3>1, <3>2
    <3>. QED
      BY <3>3 DEF InList
  <2>3. status'[u] = "queued" <=> u # Head(taskList) /\ status[u] = "queued"
    BY <1>1, <1>2 DEF TakeFirst
  <2>. QED
    BY <2>1, <2>2, <2>3 DEF OneOwner
<1>. QED
  BY <1>5, <1>6 DEF OneOwner

LEMMA KeepOwner ==
  ASSUME OneOwner, taskList' = taskList,
         \A t \in Tasks : status'[t] = "queued" <=> status[t] = "queued"
  PROVE  OneOwner'
BY DEF OneOwner, InList
-----------------------------------------------------------------------------
LEMMA OwnershipInit == Init => Ownership
<1>. SUFFICES ASSUME Init
              PROVE  Ownership
  OBVIOUS
<1>. USE ConstantsAssumption
<1>1. /\ threadState \in ThreadStates
      /\ taskLock \in {NoThread, Dis}
      /\ signalled \in BOOLEAN
      /\ current \in Tasks \cup {NoTask}
      /\ pushes \in Nat
  BY DEF Init, ThreadStates
<1>2. /\ taskList \in Seq(Tasks)
      /\ Len(taskList) = 0
  BY DEF Init
<1>3. /\ pc \in [AllThreads -> ThreadPcs \cup DispatcherPcs]
      /\ pc[Dis] = "loop"
      /\ \A th \in Threads : pc[th] = "idle"
  BY DEF Init, AllThreads, ThreadPcs, DispatcherPcs
<1>4. /\ arg \in [AllThreads -> Tasks \cup {NoTask}]
      /\ toFront \in [AllThreads -> BOOLEAN]
  BY DEF Init
<1>5. /\ status \in [Tasks -> Statuses]
      /\ stamp \in [Tasks -> Nat]
      /\ \A t \in Tasks : status[t] # "queued"
  BY DEF Init, Statuses
<1>6. TypeOK
  BY <1>1, <1>2, <1>3, <1>4, <1>5 DEF TypeOK, ThreadPcs, DispatcherPcs
<1>7. ArgOwned /\ CurrentRuns
  BY <1>3 DEF ArgOwned, CurrentRuns, AllThreads
<1>8. OneOwner
  BY <1>2, <1>5 DEF OneOwner, InList
<1>. QED
  BY <1>6, <1>7, <1>8 DEF Ownership

LEMMA OwnershipNext == Ownership /\ [Next]_vars => Ownership'
<1>. SUFFICES ASSUME Ownership, [Next]_vars
              PROVE  Ownership'
  OBVIOUS
<1>. USE ConstantsAssumption
<1>0. TypeOK /\ ArgOwned /\ CurrentRuns /\ OneOwner
  BY DEF Ownership
<1>. USE DEF TypeOK, ArgOwned, CurrentRuns, AllThreads, ThreadStates, Statuses,
             ThreadPcs, DispatcherPcs
<1>1. ASSUME NEW th \in AllThreads, NEW t \in Tasks, NEW front \in BOOLEAN,
             CallAddTask(th, t, front)
      PROVE  Ownership'
  <2>1. TypeOK'
    BY <1>0, <1>1 DEF CallAddTask, CallsFrom
  <2>2. ArgOwned'
    BY <1>0, <1>1 DEF CallAddTask, CallsFrom
  <2>3. CurrentRuns'
    BY <1>0, <1>1 DEF CallAddTask, CallsFrom
  <2>4. OneOwner'
    BY <1>0, <1>1, KeepOwner DEF CallAddTask, CallsFrom
  <2>. QED
    BY <2>1, <2>2, <2>3, <2>4 DEF Ownership
<1>2. ASSUME NEW th \in AllThreads, AddTask(th)
      PROVE  Ownership'
  <2>1. /\ arg[th] \in Tasks
        /\ toFront[th] \in BOOLEAN
        /\ status[arg[th]] = "posting"
    BY <1>0, <1>2 DEF AddTask
  <2>2. Push(arg[th], toFront[th]) \in Seq(Tasks)
    BY <1>0, <2>1, PushType
  <2>3. TypeOK'
    <3>1. /\ taskList' \in Seq(Tasks)
          /\ pushes' \in Nat
          /\ stamp' \in [Tasks -> Nat]
      <4>1. CASE Accepts /\ toFront[th]
        BY <1>0, <1>2, <2>1, <2>2, <4>1 DEF AddTask
      <4>2. CASE Accepts /\ ~toFront[th]
        BY <1>0, <1>2, <2>1, <2>2, <4>2 DEF AddTask
      <4>3. CASE ~Accepts
        BY <1>0, <1>2, <2>1, <4>3 DEF AddTask
      <4>. QED
        BY <4>1, <4>2, <4>3
    <3>2. /\ pc' \in [AllThreads -> ThreadPcs \cup DispatcherPcs]
          /\ pc'[Dis] \in DispatcherPcs
          /\ \A thr \in Threads : pc'[thr] \in ThreadPcs
      <4>1. \E v \in {"notify", Resume(th)} : pc' = [pc EXCEPT ![th] = v]
        BY <1>2 DEF AddTask
      <4>. QED
        BY <1>0, <4>1 DEF Resume
    <3>3. /\ arg' \in [AllThreads -> Tasks \cup {NoTask}]
          /\ status' \in [Tasks -> Statuses]
      BY <1>0, <1>2 DEF AddTask
    <3>4. UNCHANGED <<threadState, taskLock, toFront, signalled, current>>
      BY <1>2 DEF AddTask
    <3>. QED
      BY <1>0, <3>1, <3>2, <3>3, <3>4
  <2>4. ArgOwned'
    BY <1>0, <1>2, <2>1 DEF AddTask, Resume
  <2>5. CurrentRuns'
    BY <1>0, <1>2, <2>1 DEF AddTask, Resume
  <2>6. OneOwner'
    <3>1. CASE Accepts
      BY <1>0, <1>2, <2>1, <3>1, PushOwner DEF AddTask
    <3>2. CASE ~Accepts
      BY <1>0, <1>2, <2>1, <3>2, KeepOwner DEF AddTask
    <3>. QED
      BY <3>1, <3>2
  <2>. QED
    BY <2>3, <2>4, <2>5, <2>6 DEF Ownership
<1>3. ASSUME NEW th \in AllThreads, Notify(th)
      PROVE  Ownership'
  <2>1. TypeOK'
    BY <1>0, <1>3 DEF Notify, Resume
  <2>2. ArgOwned'
    BY <1>0, <1>3 DEF Notify, Resume
  <2>3. CurrentRuns'
    BY <1>0, <1>3 DEF Notify, Resume
  <2>4. OneOwner'
    BY <1>0, <1>3, KeepOwner DEF Notify, Resume
  <2>. QED
    BY <2>1, <2>2, <2>3, <2>4 DEF Ownership
<1>4. CASE StartWait
  <2>1. TypeOK'
    BY <1>0, <1>4 DEF StartWait
  <2>2. ArgOwned'
    BY <1>0, <1>4 DEF StartWait
  <2>3. CurrentRuns'
    BY <1>0, <1>4 DEF StartWait
  <2>4. OneOwner'
    BY <1>0, <1>4, KeepOwner DEF StartWait
  <2>. QED
    BY <2>1, <2>2, <2>3, <2>4 DEF Ownership
<1>5. CASE Take
  <2>1. /\ Head(taskList) \in Tasks
        /\ Tail(taskList) \in Seq(Tasks)
        /\ status[Head(taskList)] = "queued"
    BY <1>0, <1>5, HeadQueued DEF Take
  <2>2. TypeOK'
    BY <1>0, <1>5, <2>1 DEF Take, TakeFirst
  <2>3. ArgOwned'
    BY <1>0, <1>5, <2>1 DEF Take, TakeFirst
  <2>4. CurrentRuns'
    BY <1>0, <1>5, <2>1 DEF Take, TakeFirst
  <2>5. OneOwner'
    BY <1>0, <1>5, TakeOwner DEF Take
  <2>. QED
    BY <2>2, <2>3, <2>4, <2>5 DEF Ownership
<1>6. CASE ReturnFromWait
  <2>1. CASE taskList # <<>> /\ threadState # "terminated"
    <3>1. /\ Head(taskList) \in Tasks
          /\ Tail(taskList) \in Seq(Tasks)
          /\ status[Head(taskList)] = "queued"
      BY <1>0, <2>1, HeadQueued
    <3>2. /\ TakeFirst
          /\ pc' = [pc EXCEPT ![Dis] = "taken"]
          /\ signalled' = FALSE
          /\ UNCHANGED <<threadState, taskLock, arg, toFront, stamp, pushes>>
      BY <1>6, <2>1 DEF ReturnFromWait
    <3>3. TypeOK'
      BY <1>0, <3>1, <3>2 DEF TakeFirst
    <3>4. ArgOwned'
      BY <1>0, <3>1, <3>2 DEF TakeFirst
    <3>5. CurrentRuns'
      BY <1>0, <3>1, <3>2 DEF TakeFirst
    <3>6. OneOwner'
      BY <1>0, <2>1, <3>2, TakeOwner
    <3>. QED
      BY <3>3, <3>4, <3>5, <3>6 DEF Ownership
  <2>2. CASE ~(taskList # <<>> /\ threadState # "terminated")
    <3>1. /\ pc' = [pc EXCEPT ![Dis] = "loop"]
          /\ signalled' = FALSE
          /\ UNCHANGED <<threadState, taskLock, taskList, arg, toFront, current,
                         status, stamp, pushes>>
      BY <1>6, <2>2 DEF ReturnFromWait
    <3>2. TypeOK' /\ ArgOwned' /\ CurrentRuns'
      BY <1>0, <3>1
    <3>3. OneOwner'
      BY <1>0, <3>1, KeepOwner
    <3>. QED
      BY <3>2, <3>3 DEF Ownership
  <2>. QED
    BY <2>1, <2>2
<1>7. CASE Begin
  <2>1. TypeOK'
    BY <1>0, <1>7 DEF Begin
  <2>2. ArgOwned'
    BY <1>0, <1>7 DEF Begin
  <2>3. CurrentRuns'
    BY <1>0, <1>7 DEF Begin
  <2>4. OneOwner'
    BY <1>0, <1>7, KeepOwner DEF Begin
  <2>. QED
    BY <2>1, <2>2, <2>3, <2>4 DEF Ownership
<1>8. CASE Expire
  <2>0. current \in Tasks /\ status[current] = "running"
    BY <1>0, <1>8 DEF Expire
  <2>1. TypeOK'
    BY <1>0, <1>8 DEF Expire
  <2>2. ArgOwned'
    BY <1>0, <1>8, <2>0 DEF Expire
  <2>3. CurrentRuns'
    BY <1>0, <1>8 DEF Expire
  <2>4. OneOwner'
    BY <1>0, <1>8, <2>0, KeepOwner DEF Expire
  <2>. QED
    BY <2>1, <2>2, <2>3, <2>4 DEF Ownership
<1>9. CASE Stop
  <2>1. TypeOK'
    BY <1>0, <1>9 DEF Stop
  <2>2. ArgOwned'
    BY <1>0, <1>9 DEF Stop
  <2>3. CurrentRuns'
    BY <1>0, <1>9 DEF Stop
  <2>4. OneOwner'
    BY <1>0, <1>9, KeepOwner DEF Stop
  <2>. QED
    BY <2>1, <2>2, <2>3, <2>4 DEF Ownership
<1>10. CASE Finish
  <2>0. current \in Tasks /\ status[current] = "running"
    BY <1>0, <1>10 DEF Finish
  <2>1. TypeOK'
    BY <1>0, <1>10 DEF Finish
  <2>2. ArgOwned'
    BY <1>0, <1>10, <2>0 DEF Finish
  <2>3. CurrentRuns'
    BY <1>0, <1>10 DEF Finish
  <2>4. OneOwner'
    BY <1>0, <1>10, <2>0, KeepOwner DEF Finish
  <2>. QED
    BY <2>1, <2>2, <2>3, <2>4 DEF Ownership
<1>11. CASE Shutdown
  <2>1. TypeOK'
    BY <1>0, <1>11 DEF Shutdown
  <2>2. ArgOwned'
    BY <1>0, <1>11 DEF Shutdown
  <2>3. CurrentRuns'
    BY <1>0, <1>11 DEF Shutdown
  <2>4. OneOwner'
    BY <1>0, <1>11, KeepOwner DEF Shutdown
  <2>. QED
    BY <2>1, <2>2, <2>3, <2>4 DEF Ownership
<1>12. CASE FlushNext
  <2>1. /\ Head(taskList) \in Tasks
        /\ Tail(taskList) \in Seq(Tasks)
        /\ status[Head(taskList)] = "queued"
    BY <1>0, <1>12, HeadQueued DEF FlushNext
  <2>2. TypeOK'
    BY <1>0, <1>12, <2>1 DEF FlushNext, TakeFirst
  <2>3. ArgOwned'
    BY <1>0, <1>12, <2>1 DEF FlushNext, TakeFirst
  <2>4. CurrentRuns'
    BY <1>0, <1>12, <2>1 DEF FlushNext, TakeFirst
  <2>5. OneOwner'
    BY <1>0, <1>12, TakeOwner DEF FlushNext
  <2>. QED
    BY <2>2, <2>3, <2>4, <2>5 DEF Ownership
<1>13. CASE Exit
  <2>1. TypeOK'
    BY <1>0, <1>13 DEF Exit
  <2>2. ArgOwned'
    BY <1>0, <1>13 DEF Exit
  <2>3. CurrentRuns'
    BY <1>0, <1>13 DEF Exit
  <2>4. OneOwner'
    BY <1>0, <1>13, KeepOwner DEF Exit
  <2>. QED
    BY <2>1, <2>2, <2>3, <2>4 DEF Ownership
<1>14. CASE UNCHANGED vars
  <2>1. TypeOK'
    BY <1>0, <1>14 DEF vars
  <2>2. ArgOwned'
    BY <1>0, <1>14 DEF vars
  <2>3. CurrentRuns'
    BY <1>0, <1>14 DEF vars
  <2>4. OneOwner'
    BY <1>0, <1>14, KeepOwner DEF vars
  <2>. QED
    BY <2>1, <2>2, <2>3, <2>4 DEF Ownership
<1>. QED
  BY <1>1, <1>2, <1>3, <1>4, <1>5, <1>6, <1>7, <1>8, <1>9, <1>10, <1>11, <1>12,
     <1>13, <1>14
  DEF Next, DispatcherThread, Poster, Wake, SpuriousWake

LEMMA OwnershipInvariant == Spec => []Ownership
  BY OwnershipInit, OwnershipNext, PTL DEF Spec

(* Every variable keeps its type, for any number of threads and tasks.     *)
THEOREM TypeCorrect == Spec => []TypeOK
<1>1. Ownership => TypeOK
  BY DEF Ownership
<1>. QED
  BY <1>1, OwnershipInvariant, PTL

(* No task is ever in the list twice, or in it after it was taken: none is *)
(* run twice or used after its delete.                                     *)
THEOREM OwnersUnique == Spec => []OneOwner
<1>1. Ownership => OneOwner
  BY DEF Ownership
<1>. QED
  BY <1>1, OwnershipInvariant, PTL
-----------------------------------------------------------------------------
LEMMA WakeupInit == Init => NoLostWakeup
BY DEF Init, NoLostWakeup

LEMMA WakeupNext == TypeOK /\ NoLostWakeup /\ [Next]_vars => NoLostWakeup'
<1>. SUFFICES ASSUME TypeOK, NoLostWakeup, [Next]_vars,
                     pc'[Dis] = "wait", ~signalled', taskList' # <<>>
              PROVE  \E th \in Threads : pc'[th] = "notify"
  BY DEF NoLostWakeup
<1>. USE ConstantsAssumption
<1>0. pc \in [AllThreads -> ThreadPcs \cup DispatcherPcs]
  BY DEF TypeOK
<1>1. ASSUME NEW th \in AllThreads, NEW t \in Tasks, NEW front \in BOOLEAN,
             CallAddTask(th, t, front)
      PROVE  \E thr \in Threads : pc'[thr] = "notify"
  <2>1. /\ pc[Dis] = "wait" /\ ~signalled /\ taskList # <<>>
        /\ pc[th] # "notify"
    BY <1>0, <1>1 DEF CallAddTask, CallsFrom, AllThreads
  <2>2. PICK thr \in Threads : pc[thr] = "notify"
    BY <2>1 DEF NoLostWakeup
  <2>3. pc'[thr] = "notify"
    BY <1>0, <1>1, <2>1, <2>2 DEF CallAddTask, AllThreads
  <2>. QED
    BY <2>3
<1>2. ASSUME NEW th \in AllThreads, AddTask(th)
      PROVE  \E thr \in Threads : pc'[thr] = "notify"
  <2>1. th # Dis /\ pc[Dis] = "wait" /\ ~signalled /\ pc[th] = "addTask"
    BY <1>0, <1>2 DEF AddTask, Resume, AllThreads
  <2>2. CASE taskList = <<>>
    <3>1. Accepts /\ MustSignal
      BY <1>2, <2>2 DEF AddTask, MustSignal
    <3>2. pc'[th] = "notify" /\ th \in Threads
      BY <1>0, <1>2, <2>1, <3>1 DEF AddTask, AllThreads
    <3>. QED
      BY <3>2
  <2>3. CASE taskList # <<>>
    <3>1. PICK thr \in Threads : pc[thr] = "notify"
      BY <2>1, <2>3 DEF NoLostWakeup
    <3>2. pc'[thr] = "notify"
      BY <1>0, <1>2, <2>1, <3>1 DEF AddTask, AllThreads
    <3>. QED
      BY <3>2
  <2>. QED
    BY <2>2, <2>3
<1>3. ASSUME NEW th \in AllThreads, Notify(th)
      PROVE  FALSE
  <2>1. pc[Dis] # "wait"
    BY <1>3 DEF Notify
  <2>. QED
    BY <1>0, <1>3, <2>1 DEF Notify, Resume, AllThreads
<1>4. CASE StartWait
  BY <1>4 DEF StartWait
<1>5. ASSUME pc' = [pc EXCEPT ![Dis] = "taken"]
             \/ pc' = [pc EXCEPT ![Dis] = "loop"]
             \/ pc' = [pc EXCEPT ![Dis] = "exec"]
             \/ pc' = [pc EXCEPT ![Dis] = "flush"]
             \/ pc' = [pc EXCEPT ![Dis] = "exited"]
      PROVE  FALSE
  BY <1>0, <1>5 DEF AllThreads
<1>6. CASE Take \/ ReturnFromWait \/ Begin \/ Expire \/ Finish \/ Shutdown
           \/ FlushNext \/ Exit
  BY <1>5, <1>6 DEF Take, ReturnFromWait, Begin, Expire, Finish, Shutdown, FlushNext, Exit
<1>7. CASE Stop
  BY <1>7 DEF Stop
<1>8. CASE UNCHANGED vars
  BY <1>8 DEF vars, NoLostWakeup
<1>. QED
  BY <1>1, <1>2, <1>3, <1>4, <1>6, <1>7, <1>8
  DEF Next, DispatcherThread, Poster, Wake, SpuriousWake

(* addTask's test of the empty list before its push is enough: whenever    *)
(* the dispatcher thread waits while tasks are queued, a notification is    *)
(* under way.                                                              *)
THEOREM WakeupNeverLost == Spec => []NoLostWakeup
BY WakeupInit, WakeupNext, TypeCorrect, PTL DEF Spec
-----------------------------------------------------------------------------
(* The stamps are positions in the order of posting; a task that was not   *)
(* accepted, or not yet, has none.                                         *)
Stamped ==
  /\ \A t \in Tasks : stamp[t] <= pushes
  /\ \A t \in Tasks : status[t] \in {"free", "posting", "leaked"} => stamp[t] = 0

(* FifoOrder is inductive together with what the stamps are.               *)
Queueing == Stamped /\ FifoOrder

LEMMA TakeFifo ==
  ASSUME TypeOK, OneOwner, Queueing, taskList # <<>>, TakeFirst,
         UNCHANGED <<stamp, pushes>>
  PROVE  Queueing'
<1>1. taskList \in Seq(Tasks) /\ status \in [Tasks -> Statuses] /\ stamp \in [Tasks -> Nat]
  BY DEF TypeOK
<1>2. /\ Head(taskList) \in Tasks
      /\ Head(taskList) = taskList[1]
      /\ 1 \in 1 .. Len(taskList)
      /\ Len(taskList') = Len(taskList) - 1
      /\ \A i \in 1 .. Len(taskList) - 1 : taskList'[i] = taskList[i + 1]
  BY <1>1, TakeProperties DEF TakeFirst
<1>3. Len(taskList) \in Nat
  BY <1>1
<1>4. \A i \in 1 .. Len(taskList') :
        i + 1 \in 1 .. Len(taskList) /\ taskList'[i] = taskList[i + 1] /\ 1 < i + 1
  BY <1>2, <1>3
<1>5. Stamped'
  BY <1>1, <1>2 DEF TakeFirst, Queueing, Stamped, Statuses
<1>6. ASSUME NEW i \in 1 .. Len(taskList'), NEW j \in 1 .. Len(taskList'), i < j,
             stamp[taskList'[i]] > 0, stamp[taskList'[j]] > 0
      PROVE  stamp[taskList'[i]] < stamp[taskList'[j]]
  <2>1. i + 1 < j + 1
    BY <1>2, <1>3, <1>6
  <2>. QED
    BY <1>4, <1>6, <2>1 DEF Queueing, FifoOrder, Back
<1>7. ASSUME NEW t \in Tasks, NEW i \in 1 .. Len(taskList'),
             status'[t] \in {"running", "deleted"}, stamp[t] > 0, stamp[taskList'[i]] > 0
      PROVE  stamp[t] < stamp[taskList'[i]]
  <2>1. CASE t = Head(taskList)
    BY <1>2, <1>4, <1>7, <2>1 DEF Queueing, FifoOrder, Back
  <2>2. CASE t # Head(taskList)
    <3>1. status'[t] = status[t]
      BY <1>1, <1>2, <2>2 DEF TakeFirst
    <3>. QED
      BY <1>4, <1>7, <3>1 DEF Queueing, FifoOrder, Back
  <2>. QED
    BY <2>1, <2>2
<1>. QED
  BY <1>5, <1>6, <1>7 DEF Queueing, FifoOrder, Back

LEMMA KeepFifo ==
  ASSUME Queueing, UNCHANGED <<taskList, stamp, pushes>>,
         \A t \in Tasks :
           \/ status'[t] = status[t]
           \/ status[t] = "free" /\ status'[t] = "posting"
           \/ status[t] = "posting" /\ status'[t] = "leaked"
           \/ status[t] = "running" /\ status'[t] = "deleted"
  PROVE  Queueing'
BY DEF Queueing, Stamped, FifoOrder, Back

LEMMA PushFifo ==
  ASSUME TypeOK, Queueing, NEW t \in Tasks, NEW front \in BOOLEAN,
         status[t] = "posting", ~InList(t),
         taskList' = Push(t, front),
         status' = [status EXCEPT ![t] = "queued"],
         IF front THEN UNCHANGED <<stamp, pushes>>
                  ELSE /\ stamp' = [stamp EXCEPT ![t] = pushes + 1]
                       /\ pushes' = pushes + 1
  PROVE  Queueing'
<1>1. /\ taskList \in Seq(Tasks) /\ status \in [Tasks -> Statuses]
      /\ stamp \in [Tasks -> Nat] /\ pushes \in Nat
  BY DEF TypeOK
<1>2. Len(taskList) \in Nat /\ \A i \in 1 .. Len(taskList) : taskList[i] \in Tasks
  BY <1>1
<1>3. CASE front
  <2>1. /\ Len(taskList') = Len(taskList) + 1
        /\ taskList'[1] = t
        /\ \A i \in 1 .. Len(taskList) + 1 : i # 1 => taskList'[i] = taskList[i - 1]
    BY <1>1, <1>3, PushFront DEF Push
  <2>2. stamp' = stamp /\ pushes' = pushes /\ stamp[t] = 0
    BY <1>3 DEF Queueing, Stamped
  <2>3. \A i \in 1 .. Len(taskList') :
          stamp[taskList'[i]] > 0
            => i - 1 \in 1 .. Len(taskList) /\ taskList'[i] = taskList[i - 1]
    BY <1>2, <2>1, <2>2
  <2>4. Stamped'
    BY <1>1, <2>2 DEF Queueing, Stamped
  <2>5. ASSUME NEW i \in 1 .. Len(taskList'), NEW j \in 1 .. Len(taskList'), i < j,
               stamp[taskList'[i]] > 0, stamp[taskList'[j]] > 0
        PROVE  stamp[taskList'[i]] < stamp[taskList'[j]]
    <3>1. i - 1 < j - 1
      BY <1>2, <2>1, <2>5
    <3>. QED
      BY <2>3, <2>5, <3>1 DEF Queueing, FifoOrder, Back
  <2>6. ASSUME NEW u \in Tasks, NEW i \in 1 .. Len(taskList'),
               status'[u] \in {"running", "deleted"}, stamp[u] > 0, stamp[taskList'[i]] > 0
        PROVE  stamp[u] < stamp[taskList'[i]]
    BY <1>1, <2>3, <2>6 DEF Queueing, FifoOrder, Back
  <2>. QED
    BY <2>2, <2>4, <2>5, <2>6 DEF Queueing, FifoOrder, Back
<1>4. CASE ~front
  <2>1. /\ Len(taskList') = Len(taskList) + 1
        /\ taskList'[Len(taskList) + 1] = t
        /\ \A i \in 1 .. Len(taskList) : taskList'[i] = taskList[i]
    BY <1>1, <1>4, PushBack DEF Push
  <2>2. stamp' = [stamp EXCEPT ![t] = pushes + 1] /\ pushes' = pushes + 1
    BY <1>4
  <2>3. \A i \in 1 .. Len(taskList) : taskList[i] # t
    BY DEF InList
  <2>4. Stamped'
    BY <1>1, <2>2 DEF Queueing, Stamped
  <2>5. ASSUME NEW u \in Tasks, u # t
        PROVE  stamp'[u] = stamp[u] /\ stamp[u] < stamp'[t] /\ status'[u] = status[u]
    BY <1>1, <2>2, <2>5 DEF Queueing, Stamped
  <2>6. \A i \in 1 .. Len(taskList') :
          IF i = Len(taskList) + 1
          THEN taskList'[i] = t
          ELSE /\ i \in 1 .. Len(taskList) /\ taskList'[i] = taskList[i]
               /\ stamp'[taskList[i]] = stamp[taskList[i]]
               /\ stamp[taskList[i]] < stamp'[t]
    BY <1>2, <2>1, <2>3, <2>5
  <2>7. ASSUME NEW i \in 1 .. Len(taskList'), NEW j \in 1 .. Len(taskList'), i < j,
               stamp'[taskList'[i]] > 0, stamp'[taskList'[j]] > 0
        PROVE  stamp'[taskList'[i]] < stamp'[taskList'[j]]
    <3>1. i # Len(taskList) + 1
      BY <1>2, <2>1, <2>7
    <3>2. CASE j = Len(taskList) + 1
      BY <2>6, <3>1, <3>2
    <3>3. CASE j # Len(taskList) + 1
      BY <2>6, <2>7, <3>1, <3>3 DEF Queueing, FifoOrder, Back
    <3>. QED
      BY <3>2, <3>3
  <2>8. ASSUME NEW u \in Tasks, NEW i \in 1 .. Len(taskList'),
               status'[u] \in {"running", "deleted"}, stamp'[u] > 0, stamp'[taskList'[i]] > 0
        PROVE  stamp'[u] < stamp'[taskList'[i]]
    <3>1. u # t
      BY <1>1, <2>8
    <3>2. stamp'[u] = stamp[u] /\ stamp[u] < stamp'[t] /\ status'[u] = status[u]
      BY <2>5, <3>1
    <3>. QED
      BY <2>6, <2>8, <3>2 DEF Queueing, FifoOrder, Back
  <2>. QED
    BY <2>4, <2>7, <2>8 DEF Queueing, FifoOrder, Back
<1>. QED
  BY <1>3, <1>4

LEMMA QueueingInit == Init => Queueing
BY DEF Init, Queueing, Stamped, FifoOrder

LEMMA QueueingNext == Ownership /\ Queueing /\ [Next]_vars => Queueing'
<1>. SUFFICES ASSUME Ownership, Queueing, [Next]_vars
              PROVE  Queueing'
  OBVIOUS
<1>0. TypeOK /\ ArgOwned /\ CurrentRuns /\ OneOwner
  BY DEF Ownership
<1>a. status \in [Tasks -> Statuses] /\ toFront \in [AllThreads -> BOOLEAN]
  BY <1>0 DEF TypeOK
<1>1. ASSUME NEW th \in AllThreads, NEW t \in Tasks, NEW front \in BOOLEAN,
             CallAddTask(th, t, front)
      PROVE  Queueing'
  BY <1>a, <1>1, KeepFifo DEF CallAddTask
<1>2. ASSUME NEW th \in AllThreads, AddTask(th)
      PROVE  Queueing'
  <2>1. arg[th] \in Tasks /\ status[arg[th]] = "posting" /\ toFront[th] \in BOOLEAN
    BY <1>0, <1>a, <1>2 DEF AddTask, ArgOwned
  <2>2. ~InList(arg[th])
    BY <1>0, <2>1 DEF OneOwner
  <2>3. CASE Accepts
    BY <1>0, <1>2, <2>1, <2>2, <2>3, PushFifo DEF AddTask
  <2>4. CASE ~Accepts
    BY <1>a, <1>2, <2>1, <2>4, KeepFifo DEF AddTask
  <2>. QED
    BY <2>3, <2>4
<1>3. ASSUME NEW th \in AllThreads, Notify(th)
      PROVE  Queueing'
  BY <1>3, KeepFifo DEF Notify
<1>4. CASE StartWait \/ Begin \/ Stop \/ Shutdown \/ Exit
  BY <1>4, KeepFifo DEF StartWait, Begin, Stop, Shutdown, Exit
<1>5. CASE Take \/ FlushNext
  BY <1>0, <1>5, TakeFifo DEF Take, FlushNext
<1>6. CASE ReturnFromWait
  <2>1. CASE taskList # <<>> /\ threadState # "terminated"
    BY <1>0, <1>6, <2>1, TakeFifo DEF ReturnFromWait
  <2>2. CASE ~(taskList # <<>> /\ threadState # "terminated")
    BY <1>6, <2>2, KeepFifo DEF ReturnFromWait
  <2>. QED
    BY <2>1, <2>2
<1>7. CASE Expire \/ Finish
  <2>1. current \in Tasks /\ status[current] = "running"
    BY <1>0, <1>7 DEF Expire, Finish, CurrentRuns
  <2>. QED
    BY <1>a, <1>7, <2>1, KeepFifo DEF Expire, Finish
<1>8. CASE UNCHANGED vars
  BY <1>8, KeepFifo DEF vars
<1>. QED
  BY <1>1, <1>2, <1>3, <1>4, <1>5, <1>6, <1>7, <1>8
  DEF Next, DispatcherThread, Poster, Wake, SpuriousWake

(* Tasks posted to the back run in the order of their posting, whatever is *)
(* posted to the front in between: closeConnectionTask runs before the     *)
(* release that is posted after it, on a queue of any length.              *)
THEOREM PostedOrderKept == Spec => []FifoOrder
<1>1. Queueing => FifoOrder
  BY DEF Queueing
<1>. QED
  BY <1>1, OwnershipInvariant, QueueingInit, QueueingNext, PTL DEF Spec
=============================================================================
