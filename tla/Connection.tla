------------------------------ MODULE Connection ------------------------------
(***************************************************************************)
(* The life of one network connection: Connection (800/connection.cpp),    *)
(* its Protocol (800/protocol.cpp, protocolgame.cpp) and the messages it   *)
(* takes from OutputMessagePool (800/outputmessage.cpp).                   *)
(*                                                                         *)
(* The network thread runs the completion handlers, the dispatcher thread  *)
(* the tasks, and after every task OutputMessagePool::sendAll.  The two    *)
(* share m_connectionLock, a recursive lock, and m_outputPoolLock.  A      *)
(* section that takes one lock and gives it back is one step; the lock is  *)
(* state where a thread keeps it while it asks for the other, or for ever. *)
(*                                                                         *)
(* tasks holds the tasks of this connection in the order of module         *)
(* Dispatcher (FifoOrder there): the rest of the server's tasks appear as   *)
(* the actions Game... and Other.                                          *)
(***************************************************************************)
EXTENDS Naturals, Sequences, FiniteSets

CONSTANTS
  Msgs,      \* OutputMessage objects; the pool grows on demand, up to Msgs
  NoMsg,
  CanPlay,   \* a login may succeed
  NetSends,  \* the player's packets make parsePacket send, not only the game
  WriteFails \* a write may fail

ASSUME ConstantsAssumption ==
  /\ IsFiniteSet(Msgs)
  /\ NoMsg \notin Msgs
  /\ CanPlay \in BOOLEAN
  /\ NetSends \in BOOLEAN
  /\ WriteFails \in BOOLEAN

VARIABLES
  closeState,    \* m_closeState
  reading,       \* the read under way; m_pendingRead is 1 unless it is "none"
  pendingWrite,  \* m_pendingWrite
  writing,       \* the message async_write is sending
  outputQueue,   \* m_outputQueue
  socketClosed,  \* m_socketClosed
  writeError,    \* m_writeError
  connRefs,      \* Connection::m_refCount
  connection,    \* "alive" or "deleted"
  hasProtocol,   \* Connection::m_protocol # NULL
  protocol,      \* "none", "alive" or "deleted"
  protoRefs,     \* Protocol::m_refCount
  hasConnection, \* Protocol::m_connection # NULL
  outputBuffer,  \* Protocol::m_outputBuffer
  playing,       \* a player's client is this protocol
  pool,          \* m_outputMessages
  autoSend,      \* m_autoSend
  old,           \* the messages that have waited for more than 10 ms
  tasks,         \* the dispatcher's tasks that concern this connection
  timers,        \* its events in the scheduler
  netHolds,      \* how often the network thread holds m_connectionLock
  poolHeld,      \* the dispatcher thread holds m_outputPoolLock
  netPc, disPc,  \* where the two threads are
  todo,          \* what sendAll has still to look at
  accepted       \* history: the messages that Connection::send took and whose
                 \* write has not ended, in the order of the calls

connVars == <<closeState, reading, pendingWrite, writing, outputQueue, socketClosed,
              writeError, connection>>
protoVars == <<hasProtocol, protocol, hasConnection, playing>>
msgVars == <<connRefs, protoRefs, outputBuffer, pool, autoSend, old>>
threadVars == <<netHolds, poolHeld, netPc, disPc, todo>>
vars == <<connVars, protoVars, msgVars, threadVars, tasks, timers, accepted>>

Kinds == {"login", "close", "releaseProtocol", "releaseConnection", "releaseMessage"}
Task(kind) == [kind |-> kind, msg |-> NoMsg]
Release(m) == [kind |-> "releaseMessage", msg |-> m]

TypeOK ==
  /\ closeState \in {"none", "requested", "closing"}
  /\ reading \in {"none", "header", "body"}
  /\ pendingWrite \in Nat
  /\ writing \in Msgs \cup {NoMsg}
  /\ outputQueue \in Seq(Msgs)
  /\ socketClosed \in BOOLEAN
  /\ writeError \in BOOLEAN
  /\ connRefs \in Nat
  /\ connection \in {"alive", "deleted"}
  /\ hasProtocol \in BOOLEAN
  /\ protocol \in {"none", "alive", "deleted"}
  /\ protoRefs \in Nat
  /\ hasConnection \in BOOLEAN
  /\ outputBuffer \in Msgs \cup {NoMsg}
  /\ playing \in BOOLEAN
  /\ pool \subseteq Msgs
  /\ autoSend \in Seq(Msgs)
  /\ old \subseteq Msgs
  /\ tasks \in Seq([kind : Kinds, msg : Msgs \cup {NoMsg}])
  /\ timers \subseteq {"releaseProtocol", "releaseConnection"}
  /\ netHolds \in Nat
  /\ poolHeld \in BOOLEAN
  /\ netPc \in {"idle", "refuse", "output"}
  /\ disPc \in {"idle", "output", "frame", "sending"}
  /\ todo \in Seq(Msgs)
  /\ accepted \in Seq(Msgs)

(* Server::onAccept has called accept(): the first header is being read. *)
Init ==
  /\ closeState = "none"
  /\ reading = "header"
  /\ pendingWrite = 0
  /\ writing = NoMsg
  /\ outputQueue = <<>>
  /\ socketClosed = FALSE
  /\ writeError = FALSE
  /\ connRefs = 0
  /\ connection = "alive"
  /\ hasProtocol = FALSE
  /\ protocol = "none"
  /\ protoRefs = 0
  /\ hasConnection = FALSE
  /\ outputBuffer = NoMsg
  /\ playing = FALSE
  /\ pool = Msgs
  /\ autoSend = <<>>
  /\ old = {}
  /\ tasks = <<>>
  /\ timers = {}
  /\ netHolds = 0
  /\ poolHeld = FALSE
  /\ netPc = "idle"
  /\ disPc = "idle"
  /\ todo = <<>>
  /\ accepted = <<>>

-----------------------------------------------------------------------------
(* What the operations share.  A definition may be preceded by mutated     *)
(* forms of it, which nothing in the model uses: the properties are tried  *)
(* against them.                                                           *)

CloseTaskInFront(ts) == IF closeState = "none" THEN <<Task("close")>> \o ts ELSE ts

(* Connection::close, called with or without the lock by either thread: the *)
(* task queue ts and the state after it.                                   *)
CloseTask(ts) == IF closeState = "none" THEN Append(ts, Task("close")) ELSE ts
CloseRequested == IF closeState = "none" THEN "requested" ELSE closeState

MayCloseAlways(pw, err) == TRUE

(* closingConnection closes the socket when no write is pending, and lets  *)
(* the connection be released when no read is pending either.              *)
MayClose(pw, err) == pw = 0 \/ err

ReleasableEarly(pw, err, rd) == MayClose(pw, err)

Releasable(pw, err, rd) == MayClose(pw, err) /\ rd = "none"

ClosingConnection(pw, err, rd, ts) ==
  /\ socketClosed' = (socketClosed \/ MayClose(pw, err))
  /\ tasks' = IF Releasable(pw, err, rd) THEN Append(ts, Task("releaseConnection")) ELSE ts

(* Connection::send takes m: it is written now or queued. *)
SendRefused == closeState = "closing" \/ writeError

QueueReversed(m) == <<m>> \o outputQueue

Queue(m) == Append(outputQueue, m)

Transmit(m) ==
  /\ accepted' = Append(accepted, m)
  /\ IF pendingWrite = 0
     THEN writing' = m /\ pendingWrite' = 1 /\ UNCHANGED outputQueue
     ELSE outputQueue' = Queue(m) /\ UNCHANGED <<writing, pendingWrite>>

AllocateUnref(m) ==
  m \in pool /\ pool' = pool \ {m} /\ connRefs' = connRefs - 1 /\ protoRefs' = protoRefs - 1

AllocateOneRef(m) ==
  m \in pool /\ pool' = pool \ {m} /\ connRefs' = connRefs + 1 /\ UNCHANGED protoRefs

(* getOutputMessage and configureOutputMessage: m leaves the pool and      *)
(* refers to the connection and the protocol.                              *)
Allocate(m) ==
  /\ m \in pool
  /\ pool' = pool \ {m}
  /\ connRefs' = connRefs + 1
  /\ protoRefs' = protoRefs + 1

(* Protocol::getOutputBuffer, without a lock, finds no buffer ...          *)
NeedsBuffer == outputBuffer = NoMsg /\ hasConnection

(* ... and takes one from the pool, whatever the other thread has done in  *)
(* between; it takes none if the protocol has lost its connection.         *)
NewOutputBuffer ==
  IF hasConnection
  THEN \E m \in pool :
         /\ Allocate(m)
         /\ outputBuffer' = m
         /\ autoSend' = Append(autoSend, m)
         /\ UNCHANGED old
  ELSE /\ outputBuffer' = NoMsg
       /\ UNCHANGED <<connRefs, protoRefs, pool, autoSend, old>>

(* OutputMessagePool::send and then close(), as in disconnectClient, with  *)
(* the task queue ts; a message that is refused is released at once.       *)
DisconnectClient(ts) ==
  \E m \in pool :
    /\ Allocate(m)
    /\ IF SendRefused
       THEN /\ tasks' = CloseTask(<<Release(m)>> \o ts)
            /\ UNCHANGED <<writing, pendingWrite, outputQueue, accepted>>
       ELSE /\ Transmit(m)
            /\ tasks' = CloseTask(ts)
    /\ closeState' = CloseRequested
    /\ UNCHANGED <<outputBuffer, autoSend, old>>

(* The pool grows on demand: its bound is no reason for a thread to wait    *)
(* for ever, so what needs a message begins while there is one to spare.   *)
PoolSuffices ==
  Cardinality(pool) > (IF netPc = "idle" THEN 0 ELSE 1)
                      + (IF disPc = "output" THEN 1 ELSE 0)

-----------------------------------------------------------------------------
(* The network thread.  It never waits for m_connectionLock, which the     *)
(* dispatcher thread keeps within its steps only.                          *)

(* A read ends: with the bytes asked for, with an error, or, once the      *)
(* socket is closed, because it was aborted.  Both handlers begin alike:   *)
(* a connection that is closing reads no more.                             *)
ReadWhileClosing ==
  /\ netPc = "idle"
  /\ reading # "none"
  /\ closeState = "closing"
  /\ reading' = "none"
  /\ ClosingConnection(pendingWrite, writeError, "none", tasks)
  /\ UNCHANGED <<closeState, pendingWrite, writing, outputQueue, writeError, connection,
                 protoVars, msgVars, threadVars, timers, accepted>>

(* handleReadError; a header with an impossible size ends here too.        *)
(* operation_aborted, which does not close, needs a socket this side has   *)
(* closed: closingConnection has, and ReadWhileClosing takes that read.    *)
ReadError ==
  /\ netPc = "idle"
  /\ reading # "none"
  /\ closeState # "closing"
  /\ reading' = "none"
  /\ tasks' = CloseTask(tasks)
  /\ closeState' = CloseRequested
  /\ UNCHANGED <<pendingWrite, writing, outputQueue, socketClosed, writeError, connection,
                 protoVars, msgVars, threadVars, timers, accepted>>

ParseHeader ==
  /\ netPc = "idle"
  /\ reading = "header"
  /\ closeState # "closing"
  /\ reading' = "body"
  /\ UNCHANGED <<closeState, pendingWrite, writing, outputQueue, socketClosed, writeError,
                 connection, protoVars, msgVars, threadVars, tasks, timers, accepted>>

PacketRead ==
  /\ netPc = "idle"
  /\ reading = "body"
  /\ closeState # "closing"

(* The first byte of the first packet names no protocol. *)
ParseUnknownProtocol ==
  /\ PacketRead
  /\ ~hasProtocol
  /\ reading' = "none"
  /\ tasks' = CloseTask(tasks)
  /\ closeState' = CloseRequested
  /\ UNCHANGED <<pendingWrite, writing, outputQueue, socketClosed, writeError, connection,
                 protoVars, msgVars, threadVars, timers, accepted>>

NewProtocol ==
  /\ ~hasProtocol
  /\ hasProtocol' = TRUE
  /\ protocol' = "alive"
  /\ hasConnection' = TRUE
  /\ UNCHANGED playing

(* parseFirstPacket of ProtocolGame accepts: login is up to the dispatcher. *)
ParseLogin ==
  /\ PacketRead
  /\ NewProtocol
  /\ tasks' = Append(tasks, Task("login"))
  /\ reading' = "header"
  /\ UNCHANGED <<closeState, pendingWrite, writing, outputQueue, socketClosed, writeError,
                 connection, msgVars, threadVars, timers, accepted>>

(* parseFirstPacket closes the connection without a word. *)
ParseAndClose ==
  /\ PacketRead
  /\ NewProtocol
  /\ tasks' = CloseTask(tasks)
  /\ closeState' = CloseRequested
  /\ reading' = "header"
  /\ UNCHANGED <<pendingWrite, writing, outputQueue, socketClosed, writeError, connection,
                 msgVars, threadVars, timers, accepted>>

(* parseFirstPacket refuses: it holds the connection's lock and asks for    *)
(* the pool's.                                                             *)
ParseAndRefuse ==
  /\ PacketRead
  /\ NewProtocol
  /\ PoolSuffices
  /\ netPc' = "refuse"
  /\ netHolds' = netHolds + 1
  /\ UNCHANGED <<connVars, msgVars, poolHeld, disPc, todo, tasks, timers, accepted>>

FinishRefuse ==
  /\ netPc = "refuse"
  /\ ~poolHeld
  /\ DisconnectClient(tasks)
  /\ reading' = "header"
  /\ netPc' = "idle"
  /\ netHolds' = netHolds - 1
  /\ UNCHANGED <<socketClosed, writeError, connection, protoVars, poolHeld, disPc, todo,
                 timers>>

(* A later packet that leads to tasks of the game, or whose answer goes    *)
(* into the output buffer there is.                                        *)
ParsePacket ==
  /\ PacketRead
  /\ hasProtocol
  /\ reading' = "header"
  /\ UNCHANGED <<closeState, pendingWrite, writing, outputQueue, socketClosed, writeError,
                 connection, protoVars, msgVars, threadVars, tasks, timers, accepted>>

(* parsePacket answers an account manager's packet itself, sendCancelWalk:  *)
(* the connection's lock is held and, unless there is an output buffer, the *)
(* pool's is asked for.                                                    *)
ParseAndAnswer ==
  /\ NetSends
  /\ PacketRead
  /\ hasProtocol
  /\ playing
  /\ NeedsBuffer
  /\ PoolSuffices
  /\ netPc' = "output"
  /\ netHolds' = netHolds + 1
  /\ UNCHANGED <<connVars, protoVars, msgVars, poolHeld, disPc, todo, tasks, timers,
                 accepted>>

FinishAnswer ==
  /\ netPc = "output"
  /\ ~poolHeld
  /\ NewOutputBuffer
  /\ reading' = "header"
  /\ netPc' = "idle"
  /\ netHolds' = netHolds - 1
  /\ UNCHANGED <<closeState, pendingWrite, writing, outputQueue, socketClosed, writeError,
                 connection, protoVars, poolHeld, disPc, todo, tasks, timers, accepted>>

LockNeverGivenBack(pw, err) ==
  IF closeState = "closing" /\ ~Releasable(pw, err, reading) THEN 2 ELSE 1

(* How often onWriteOperation has the lock when it returns: where          *)
(* closingConnection has not released the connection it locks a second     *)
(* time.                                                                   *)
LockKept(pw, err) ==
  IF closeState = "closing" /\ ~Releasable(pw, err, reading) THEN 2 ELSE 0

(* The end of onWriteOperation, with m_pendingWrite = pw, m_writeError =   *)
(* err and the task queue ts.                                              *)
AfterWrite(pw, err, ts) ==
  /\ netHolds' = netHolds + LockKept(pw, err)
  /\ IF closeState = "closing"
     THEN ClosingConnection(pw, err, reading, ts)
     ELSE tasks' = ts /\ UNCHANGED socketClosed

WriteDone ==
  /\ netPc = "idle"
  /\ writing # NoMsg
  /\ LET ts == <<Release(writing)>> \o tasks IN
     IF outputQueue # <<>>
     THEN /\ writing' = Head(outputQueue)
          /\ outputQueue' = Tail(outputQueue)
          /\ UNCHANGED pendingWrite
          /\ AfterWrite(pendingWrite, writeError, ts)
     ELSE /\ writing' = NoMsg
          /\ pendingWrite' = pendingWrite - 1
          /\ UNCHANGED outputQueue
          /\ AfterWrite(pendingWrite - 1, writeError, ts)
  /\ accepted' = Tail(accepted)
  /\ UNCHANGED <<closeState, reading, writeError, connection, protoVars, msgVars, poolHeld,
                 netPc, disPc, todo, timers>>

(* handleWriteError closes the connection; m_outputQueue stays as it is.   *)
(* No write is aborted: closingConnection waits for it to end before it    *)
(* closes the socket.                                                      *)
WriteError ==
  /\ WriteFails
  /\ netPc = "idle"
  /\ writing # NoMsg
  /\ writing' = NoMsg
  /\ pendingWrite' = pendingWrite - 1
  /\ writeError' = TRUE
  /\ accepted' = Tail(accepted)
  /\ closeState' = CloseRequested
  /\ AfterWrite(pendingWrite - 1, TRUE, CloseTask(<<Release(writing)>> \o tasks))
  /\ UNCHANGED <<reading, outputQueue, connection, protoVars, msgVars, poolHeld, netPc,
                 disPc, todo, timers>>

-----------------------------------------------------------------------------
(* The dispatcher thread.                                                  *)

LockFree == netHolds = 0

(* The next task of this connection; sendAll follows every task. *)
Run(kind) ==
  /\ disPc = "idle"
  /\ tasks # <<>>
  /\ Head(tasks).kind = kind
  /\ disPc' = "frame"
  /\ UNCHANGED <<netHolds, poolHeld, netPc, todo>>

CloseConnectionTask ==
  /\ Run("close")
  /\ LockFree
  /\ IF closeState = "requested"
     THEN /\ closeState' = "closing"
          /\ IF hasProtocol
             THEN /\ hasProtocol' = FALSE
                  /\ hasConnection' = FALSE
                  /\ ClosingConnection(pendingWrite, writeError, reading,
                                       Append(Tail(tasks), Task("releaseProtocol")))
             ELSE /\ UNCHANGED <<hasProtocol, hasConnection>>
                  /\ ClosingConnection(pendingWrite, writeError, reading, Tail(tasks))
     ELSE /\ tasks' = Tail(tasks)
          /\ UNCHANGED <<closeState, hasProtocol, hasConnection, socketClosed>>
  /\ UNCHANGED <<reading, pendingWrite, writing, outputQueue, writeError, connection,
                 protocol, playing, msgVars, timers, accepted>>

ProtocolDeletedAtOnce == TRUE

MayDeleteProtocol == protoRefs = 0

ReleaseProtocol ==
  /\ Run("releaseProtocol")
  /\ tasks' = Tail(tasks)
  /\ playing' = FALSE
  /\ IF MayDeleteProtocol
     THEN protocol' = "deleted" /\ hasConnection' = FALSE /\ UNCHANGED timers
     ELSE timers' = timers \cup {"releaseProtocol"} /\ UNCHANGED <<protocol, hasConnection>>
  /\ UNCHANGED <<connVars, hasProtocol, msgVars, accepted>>

DeletesAtOnce == TRUE

DeletesIfReferenced == connRefs > 0

MayDelete == connRefs = 0

ReleaseConnection ==
  /\ Run("releaseConnection")
  /\ tasks' = Tail(tasks)
  /\ IF MayDelete
     THEN connection' = "deleted" /\ UNCHANGED timers
     ELSE timers' = timers \cup {"releaseConnection"} /\ UNCHANGED connection
  /\ UNCHANGED <<closeState, reading, pendingWrite, writing, outputQueue, socketClosed,
                 writeError, protoVars, msgVars, accepted>>

InternalReleaseMessage ==
  /\ Run("releaseMessage")
  /\ tasks' = Tail(tasks)
  /\ protoRefs' = protoRefs - 1
  /\ connRefs' = connRefs - 1
  /\ pool' = pool \cup {Head(tasks).msg}
  /\ old' = old \ {Head(tasks).msg}
  /\ UNCHANGED <<connVars, protoVars, outputBuffer, autoSend, timers, accepted>>

(* SCHEDULER_MINTICKS later the release is tried again. *)
Timer ==
  \E kind \in timers :
    /\ timers' = timers \ {kind}
    /\ tasks' = Append(tasks, Task(kind))
    /\ UNCHANGED <<connVars, protoVars, msgVars, threadVars, accepted>>

(* ProtocolGame::login lets the player in. *)
LoginAccepted ==
  /\ CanPlay
  /\ Run("login")
  /\ tasks' = Tail(tasks)
  /\ playing' = TRUE
  /\ UNCHANGED <<connVars, hasProtocol, protocol, hasConnection, msgVars, timers, accepted>>

(* ... or refuses, with a message and getConnection()->close(). *)
LoginRefused ==
  /\ Run("login")
  /\ LockFree
  /\ hasConnection
  /\ PoolSuffices
  /\ DisconnectClient(Tail(tasks))
  /\ UNCHANGED <<reading, socketClosed, writeError, connection, protoVars, timers>>

(* A task of the game writes to the player's client, which has no output   *)
(* buffer yet.                                                             *)
GameOutput ==
  /\ disPc = "idle"
  /\ playing
  /\ NeedsBuffer
  /\ PoolSuffices
  /\ disPc' = "output"
  /\ UNCHANGED <<connVars, protoVars, msgVars, netHolds, poolHeld, netPc, todo, tasks,
                 timers, accepted>>

FinishOutput ==
  /\ disPc = "output"
  /\ NewOutputBuffer
  /\ disPc' = "frame"
  /\ UNCHANGED <<connVars, protoVars, netHolds, poolHeld, netPc, todo, tasks, timers,
                 accepted>>

(* A task of the game logs the player out or kicks him. *)
GameClose ==
  /\ disPc = "idle"
  /\ playing
  /\ hasConnection
  /\ LockFree
  /\ tasks' = CloseTask(tasks)
  /\ closeState' = CloseRequested
  /\ disPc' = "frame"
  /\ UNCHANGED <<reading, pendingWrite, writing, outputQueue, socketClosed, writeError,
                 connection, protoVars, msgVars, netHolds, poolHeld, netPc, todo, timers,
                 accepted>>

(* Any other task: what matters here is the sendAll after it. *)
Other ==
  /\ disPc = "idle"
  /\ disPc' = "frame"
  /\ UNCHANGED <<connVars, protoVars, msgVars, netHolds, poolHeld, netPc, todo, tasks,
                 timers, accepted>>

BeginSendAll ==
  /\ disPc = "frame"
  /\ poolHeld' = TRUE
  /\ todo' = autoSend
  /\ disPc' = "sending"
  /\ UNCHANGED <<connVars, protoVars, msgVars, netHolds, netPc, tasks, timers, accepted>>

(* A message no older than 10 ms and no longer than 1 kb stays. *)
SkipMessage ==
  /\ disPc = "sending"
  /\ todo # <<>>
  /\ Head(todo) \notin old
  /\ todo' = Tail(todo)
  /\ UNCHANGED <<connVars, protoVars, msgVars, netHolds, poolHeld, netPc, disPc, tasks,
                 timers, accepted>>

(* m_autoSend.erase(it) for the iterator that points to m. *)
Erased(m) ==
  LET i == CHOOSE j \in 1 .. Len(autoSend) : autoSend[j] = m IN
  [j \in 1 .. Len(autoSend) - 1 |-> IF j < i THEN autoSend[j] ELSE autoSend[j + 1]]

(* Any other is sent, by Connection::send under the pool's lock, and       *)
(* leaves the list whether or not it was taken.                            *)
SendMessage ==
  /\ disPc = "sending"
  /\ todo # <<>>
  /\ LockFree
  /\ LET m == Head(todo) IN
     /\ outputBuffer' = IF outputBuffer = m THEN NoMsg ELSE outputBuffer
     /\ autoSend' = Erased(m)
     /\ todo' = Tail(todo)
     /\ IF SendRefused
        THEN /\ tasks' = <<Release(m)>> \o tasks
             /\ UNCHANGED <<writing, pendingWrite, outputQueue, accepted>>
        ELSE /\ Transmit(m)
             /\ UNCHANGED tasks
  /\ UNCHANGED <<closeState, reading, socketClosed, writeError, connection, protoVars,
                 connRefs, protoRefs, pool, old, netHolds, poolHeld, netPc, disPc, timers>>

EndSendAll ==
  /\ disPc = "sending"
  /\ todo = <<>>
  /\ poolHeld' = FALSE
  /\ disPc' = "idle"
  /\ UNCHANGED <<connVars, protoVars, msgVars, netHolds, netPc, todo, tasks, timers,
                 accepted>>

(* Ten milliseconds pass. *)
Age ==
  \E i \in 1 .. Len(autoSend) :
    /\ autoSend[i] \notin old
    /\ old' = old \cup {autoSend[i]}
    /\ UNCHANGED <<connVars, protoVars, connRefs, protoRefs, outputBuffer, pool, autoSend,
                   threadVars, tasks, timers, accepted>>

NetworkThread ==
  \/ ReadWhileClosing
  \/ ReadError
  \/ ParseHeader
  \/ ParseUnknownProtocol
  \/ ParseLogin
  \/ ParseAndClose
  \/ ParseAndRefuse
  \/ FinishRefuse
  \/ ParsePacket
  \/ ParseAndAnswer
  \/ FinishAnswer
  \/ WriteDone
  \/ WriteError

ConnectionTask ==
  \/ CloseConnectionTask
  \/ ReleaseProtocol
  \/ ReleaseConnection
  \/ InternalReleaseMessage
  \/ LoginAccepted
  \/ LoginRefused

SendAll ==
  \/ BeginSendAll
  \/ SkipMessage
  \/ SendMessage
  \/ EndSendAll

Next ==
  \/ NetworkThread
  \/ ConnectionTask
  \/ GameOutput
  \/ FinishOutput
  \/ GameClose
  \/ Other
  \/ SendAll
  \/ Timer
  \/ Age

Spec == Init /\ [][Next]_vars

(* A read of a closed socket is aborted; the network thread finishes what  *)
(* it has begun; the dispatcher thread runs the tasks it was given, and    *)
(* others, for ever, and gets a lock that is free again and again; timers   *)
(* expire and messages grow old.  Of the client only that a write ends.    *)
Fairness ==
  /\ WF_vars(socketClosed /\ ReadWhileClosing)
  /\ WF_vars(FinishRefuse) /\ WF_vars(FinishAnswer)
  /\ WF_vars(WriteDone \/ WriteError)
  /\ SF_vars(ConnectionTask) /\ WF_vars(Other) /\ WF_vars(FinishOutput)
  /\ WF_vars(SendAll) /\ SF_vars(SendMessage)
  /\ WF_vars(Timer) /\ WF_vars(Age)

FairSpec == Spec /\ Fairness

-----------------------------------------------------------------------------
(* Properties.                                                             *)

Count(kind) ==
  Cardinality({i \in 1 .. Len(tasks) : tasks[i].kind = kind})
    + (IF kind \in timers THEN 1 ELSE 0)

(* m_refCount of connection and protocol counts the messages that point to *)
(* them, whichever list, write or task holds the message.                  *)
RefsCountMessages ==
  connRefs = Cardinality(Msgs \ pool) /\ protoRefs = connRefs

(* closeConnectionTask, releaseConnection and releaseProtocol are each     *)
(* under way once at most, although close() and closingConnection are      *)
(* called from both threads and from every handler: nothing is deleted     *)
(* twice.                                                                  *)
ReleasedOnce ==
  /\ \A kind \in {"close", "releaseConnection", "releaseProtocol"} : Count(kind) <= 1
  /\ connection = "deleted" => Count("releaseConnection") = 0
  /\ protocol = "deleted" => Count("releaseProtocol") = 0

(* When the connection is deleted no read or write is under way whose      *)
(* handler would use it, no task is left that does, no message points to   *)
(* it and no protocol: the handshake of m_closeState, m_pendingRead and    *)
(* m_pendingWrite covers them all.                                         *)
NoUseAfterDelete ==
  connection = "deleted" =>
    /\ reading = "none" /\ writing = NoMsg /\ netPc = "idle"
    /\ Count("close") = 0
    /\ pool = Msgs
    /\ ~hasConnection

(* The same for the protocol: no task, no player and no connection uses it *)
(* after it was deleted, and it holds no message that points back to it.   *)
ProtocolUnusedAfterDelete ==
  protocol = "deleted" =>
    /\ ~hasProtocol /\ ~playing
    /\ Count("login") = 0
    /\ outputBuffer = NoMsg

(* ProtocolGame::login uses getConnection() unchecked.  It may, although   *)
(* the connection can be closed from the moment the task is posted, since  *)
(* the tasks run in order.                                                 *)
LoginFindsConnection == Count("login") > 0 => hasConnection

(* The messages are written in the order in which send() took them, one at *)
(* a time, whether written at once or queued.                              *)
WrittenInOrder ==
  /\ writing = NoMsg => pendingWrite = 0 /\ accepted = outputQueue
  /\ writing # NoMsg => pendingWrite = 1 /\ accepted = <<writing>> \o outputQueue

(* The socket is not closed before everything that send() took is written, *)
(* unless a write failed: the client gets the reason of its disconnection. *)
FlushedBeforeClose == socketClosed /\ ~writeError => accepted = <<>>

(* sendAll asks for m_connectionLock and keeps m_outputPoolLock, which the *)
(* network thread asks for and keeps m_connectionLock.                     *)
Blocked ==
  /\ netPc \in {"refuse", "output"} /\ poolHeld
  /\ disPc = "sending" /\ todo # <<>> /\ Head(todo) \in old

(* A connection that was asked to close is deleted in the end, unless a    *)
(* player has entered the game with it or the two threads block each       *)
(* other: nothing else can keep it.                                        *)
ConnectionReleased ==
  closeState = "requested" ~> connection = "deleted" \/ playing \/ Blocked

InAutoSend(m) == \E i \in 1 .. Len(autoSend) : autoSend[i] = m

(* The comment in sendAll: a message with a lifetime greater than 10 ms is *)
(* sent - while the connection is open and the threads are not blocked.    *)
OldMessagesLeaveWhileOpen ==
  \A m \in Msgs :
    m \in old /\ InAutoSend(m) ~> ~InAutoSend(m) \/ closeState = "closing" \/ Blocked

(* ... and whatever happens to the connection. *)
OldMessagesLeave == \A m \in Msgs : m \in old /\ InAutoSend(m) ~> ~InAutoSend(m)

(* Connection, protocol and messages are released once, when nobody counts *)
(* on them any more, and are not used afterwards, whichever of the two     *)
(* threads comes first.                                                    *)
DeletedWhenUnused ==
  /\ TypeOK /\ RefsCountMessages /\ ReleasedOnce
  /\ NoUseAfterDelete /\ ProtocolUnusedAfterDelete /\ LoginFindsConnection

(* What send() took reaches the client in order, and before the socket is  *)
(* closed.                                                                 *)
OutputComplete == WrittenInOrder /\ FlushedBeforeClose
=============================================================================
