--------------------------- MODULE ConnectionProofs ---------------------------
(***************************************************************************)
(* Machine-checked proofs about module Connection, for any finite set of   *)
(* messages: the order of the output, and that connection, protocol and    *)
(* messages are released once and not used afterwards.                     *)
(***************************************************************************)
EXTENDS Connection, SequenceTheorems, FiniteSetTheorems, TLAPS

(* At how many places of a sequence there is an element of a set.          *)
Places(s, V) == {i \in 1 .. Len(s) : s[i] \in V}
Occ(s, V) == Cardinality(Places(s, V))

(* A sequence without its element i. *)
Dropped(s, i) == [j \in 1 .. Len(s) - 1 |-> IF j < i THEN s[j] ELSE s[j + 1]]

LEMMA OccType ==
  ASSUME NEW S, NEW s \in Seq(S), NEW V
  PROVE  /\ IsFiniteSet(Places(s, V))
         /\ Occ(s, V) \in Nat
         /\ Occ(s, V) = 0 <=> \A i \in 1 .. Len(s) : s[i] \notin V
<1>1. IsFiniteSet(1 .. Len(s)) /\ Places(s, V) \subseteq 1 .. Len(s)
  BY FS_Interval DEF Places
<1>2. IsFiniteSet(Places(s, V)) /\ Occ(s, V) \in Nat
  BY <1>1, FS_Subset, FS_CardinalityType DEF Occ
<1>3. Occ(s, V) = 0 <=> Places(s, V) = {}
  BY <1>2, FS_EmptySet DEF Occ
<1>. QED
  BY <1>2, <1>3 DEF Places

(* Dropping an element takes its place away and moves those behind it.     *)
LEMMA OccDropped ==
  ASSUME NEW S, NEW s \in Seq(S), NEW V, NEW i \in 1 .. Len(s)
  PROVE  /\ Dropped(s, i) \in Seq(S)
         /\ Len(Dropped(s, i)) = Len(s) - 1
         /\ Occ(s, V) = Occ(Dropped(s, i), V) + (IF s[i] \in V THEN 1 ELSE 0)
<1>. DEFINE r == Dropped(s, i)
            n == Len(s)
            up(j) == IF j < i THEN j ELSE j + 1
            P == Places(r, V)
            Q == Places(s, V) \ {i}
            f == [j \in P |-> up(j)]
<1>0. n \in Nat /\ n - 1 \in Nat /\ i \in Nat
  OBVIOUS
<1>1. r \in Seq(S) /\ Len(r) = n - 1
  <2>1. \A j \in 1 .. n - 1 : (IF j < i THEN s[j] ELSE s[j + 1]) \in S
    BY <1>0
  <2>2. r \in [1 .. n - 1 -> S]
    BY <2>1 DEF Dropped
  <2>3. r \in Seq(S)
    BY <1>0, <2>2, SeqDef
  <2>. QED
    BY <1>0, <2>2, <2>3
<1>2. \A j \in 1 .. n - 1 : up(j) \in 1 .. n /\ up(j) # i /\ r[j] = s[up(j)]
  BY <1>0 DEF Dropped
<1>3. f \in [P -> Q]
  BY <1>0, <1>1, <1>2 DEF Places
<1>4. \A j, k \in P : f[j] = f[k] => j = k
  BY <1>0, <1>1 DEF Places
<1>5. \A k \in Q : \E j \in P : f[j] = k
  <2>1. ASSUME NEW k \in Q
        PROVE  \E j \in P : f[j] = k
    <3>. DEFINE d == IF k < i THEN k ELSE k - 1
    <3>1. d \in 1 .. n - 1 /\ up(d) = k
      BY <1>0 DEF Places
    <3>2. d \in P
      BY <1>1, <1>2, <3>1 DEF Places
    <3>. QED
      BY <3>1, <3>2
  <2>. QED
    BY <2>1
<1>6. f \in Bijection(P, Q)
  BY <1>3, <1>4, <1>5 DEF Bijection, Injection, Surjection, IsInjective
<1>7. IsFiniteSet(P) /\ Cardinality(Q) = Cardinality(P)
  BY <1>1, <1>6, OccType, FS_Bijection DEF ExistsBijection
<1>8. IsFiniteSet(Places(s, V)) /\ Cardinality(Places(s, V)) \in Nat
  BY OccType DEF Occ
<1>9. Cardinality(Q) = IF i \in Places(s, V) THEN Cardinality(Places(s, V)) - 1
                                             ELSE Cardinality(Places(s, V))
  BY <1>8, FS_RemoveElement
<1>10. Cardinality(P) \in Nat
  BY <1>7, FS_CardinalityType
<1>. QED
  BY <1>1, <1>7, <1>8, <1>9, <1>10 DEF Occ, Places

LEMMA OccEmpty ==
  ASSUME NEW V
  PROVE  Occ(<<>>, V) = 0
<1>1. Places(<<>>, V) = {}
  BY DEF Places
<1>. QED
  BY <1>1, FS_EmptySet DEF Occ

LEMMA OccAppend ==
  ASSUME NEW S, NEW s \in Seq(S), NEW x \in S, NEW V
  PROVE  /\ Append(s, x) \in Seq(S)
         /\ Occ(Append(s, x), V) = Occ(s, V) + (IF x \in V THEN 1 ELSE 0)
<1>. DEFINE t == Append(s, x)
            n == Len(s) + 1
<1>1. t \in Seq(S) /\ Len(t) = n /\ t[n] = x /\ n \in 1 .. Len(t)
  OBVIOUS
<1>2. Dropped(t, n) = s
  BY DEF Dropped
<1>. HIDE DEF t, n
<1>3. Occ(t, V) = Occ(Dropped(t, n), V) + (IF t[n] \in V THEN 1 ELSE 0)
  BY <1>1, OccDropped
<1>4. Occ(t, V) = Occ(s, V) + (IF x \in V THEN 1 ELSE 0)
  BY <1>1, <1>2, <1>3
<1>. QED
  BY <1>1, <1>4 DEF t

LEMMA OccCons ==
  ASSUME NEW S, NEW s \in Seq(S), NEW x \in S, NEW V
  PROVE  /\ <<x>> \o s \in Seq(S)
         /\ Len(<<x>> \o s) = Len(s) + 1
         /\ (<<x>> \o s)[1] = x
         /\ \A i \in 1 .. Len(s) : (<<x>> \o s)[i + 1] = s[i]
         /\ Occ(<<x>> \o s, V) = Occ(s, V) + (IF x \in V THEN 1 ELSE 0)
<1>. DEFINE t == <<x>> \o s
<1>0. Len(s) \in Nat /\ <<x>> \in Seq(S) /\ Len(<<x>>) = 1 /\ <<x>>[1] = x
  OBVIOUS
<1>1. /\ t \in Seq(S)
      /\ Len(t) = 1 + Len(s)
      /\ \A i \in 1 .. 1 + Len(s) : t[i] = IF i <= 1 THEN <<x>>[i] ELSE s[i - 1]
  BY <1>0, ConcatProperties
<1>2. t[1] = x /\ 1 \in 1 .. Len(t) /\ \A i \in 1 .. Len(s) : t[i + 1] = s[i]
  BY <1>0, <1>1
<1>3. Dropped(t, 1) = s
  BY <1>0, <1>1, <1>2 DEF Dropped
<1>. HIDE DEF t
<1>4. Occ(t, V) = Occ(Dropped(t, 1), V) + (IF t[1] \in V THEN 1 ELSE 0)
  BY <1>1, <1>2, OccDropped
<1>5. Occ(t, V) = Occ(s, V) + (IF x \in V THEN 1 ELSE 0)
  BY <1>2, <1>3, <1>4
<1>. QED
  BY <1>0, <1>1, <1>2, <1>5 DEF t

LEMMA OccTail ==
  ASSUME NEW S, NEW s \in Seq(S), s # <<>>, NEW V
  PROVE  /\ Head(s) \in S
         /\ Tail(s) \in Seq(S)
         /\ Occ(s, V) = Occ(Tail(s), V) + (IF Head(s) \in V THEN 1 ELSE 0)
<1>1. 1 \in 1 .. Len(s) /\ Head(s) = s[1] /\ Head(s) \in S /\ Tail(s) \in Seq(S)
  OBVIOUS
<1>2. /\ Dropped(s, 1) \in Seq(S) /\ Len(Dropped(s, 1)) = Len(s) - 1
      /\ Occ(s, V) = Occ(Dropped(s, 1), V) + (IF s[1] \in V THEN 1 ELSE 0)
  BY <1>1, OccDropped
<1>3. /\ Len(Tail(s)) = Len(s) - 1
      /\ \A i \in 1 .. Len(s) - 1 : Tail(s)[i] = s[i + 1] /\ Dropped(s, 1)[i] = s[i + 1]
  BY HeadTailProperties DEF Dropped
<1>4. Dropped(s, 1) = Tail(s)
  BY <1>1, <1>2, <1>3, SeqEqual
<1>. QED
  BY <1>1, <1>2, <1>4
-----------------------------------------------------------------------------
(* The tasks there can be, those of one kind, and how many of a kind are   *)
(* queued or waited for.                                                   *)
GoodTasks == {Task(kind) : kind \in Kinds \ {"releaseMessage"}} \cup {Release(m) : m \in Msgs}
Of(kind) == {t \in GoodTasks : t.kind = kind}
Queued(kind) == Occ(tasks, Of(kind))
UnderWay(kind) == Queued(kind) + (IF kind \in timers THEN 1 ELSE 0)

(* How often a message is in a place that will use it or release it. *)
Uses(m) ==
  (IF writing = m THEN 1 ELSE 0) + Occ(outputQueue, {m}) + Occ(autoSend, {m})
    + Occ(tasks, {Release(m)})

(* A connection without an error writes as long as there is something to   *)
(* write; one with an error writes no more.                                *)
Writes ==
  /\ writing = NoMsg /\ ~writeError => outputQueue = <<>>
  /\ writeError => writing = NoMsg
  /\ socketClosed => closeState = "closing"

(* Every message taken from the pool has one user; what sendAll has still  *)
(* to look at and the output buffer are among the messages to be sent.     *)
Owners ==
  /\ \A m \in Msgs : Uses(m) <= (IF m \in pool THEN 0 ELSE 1)
  /\ disPc = "sending" => \A m \in Msgs : Occ(todo, {m}) <= Occ(autoSend, {m})
  /\ outputBuffer # NoMsg => Occ(autoSend, {outputBuffer}) > 0

(* close() posts its task once.  The connection's release is under way, or *)
(* over, exactly when it is closing and neither reads nor writes; that of  *)
(* the protocol when the connection has let go of it.                      *)
Handshake ==
  /\ Queued("close") = (IF closeState = "requested" THEN 1 ELSE 0)
  /\ UnderWay("releaseConnection") + (IF connection = "deleted" THEN 1 ELSE 0)
       = (IF closeState = "closing" /\ reading = "none" /\ pendingWrite = 0 THEN 1 ELSE 0)
  /\ UnderWay("releaseProtocol") + (IF protocol = "deleted" THEN 1 ELSE 0)
       + (IF protocol = "none" THEN 1 ELSE 0) + (IF hasProtocol THEN 1 ELSE 0) = 1
  /\ hasConnection = hasProtocol
  /\ hasProtocol <=> protocol # "none" /\ closeState # "closing"

(* While there is no protocol yet nothing was sent, and a connection that  *)
(* was asked to close reads no first packet.                               *)
Early ==
  protocol = "none" => /\ netPc = "idle" /\ pool = Msgs
                       /\ closeState = "requested" => reading = "none"

Parsing == netPc # "idle" => reading = "body" /\ netHolds # 0

(* The close task is posted after the login task, and runs after it.       *)
LoginBeforeClose(ts) ==
  \A i, j \in 1 .. Len(ts) : i < j /\ ts[i].kind = "close" => ts[j].kind # "login"
Logins ==
  /\ tasks \in Seq(GoodTasks)
  /\ LoginBeforeClose(tasks)
  /\ Queued("login") > 0 => hasProtocol
  /\ playing => protocol = "alive"

(* What was deleted had nobody left, and gets nobody. *)
Afterwards ==
  /\ connection = "deleted" => pool = Msgs
  /\ protocol = "deleted" => outputBuffer = NoMsg

(* The inductive invariant. *)
Life ==
  /\ TypeOK /\ WrittenInOrder /\ FlushedBeforeClose /\ RefsCountMessages
  /\ Writes /\ Owners /\ Handshake /\ Early /\ Parsing /\ Logins /\ Afterwards
-----------------------------------------------------------------------------
(* The tasks of a connection: what posting one or taking the next does to   *)
(* their numbers and to their order.                                       *)
TaskKinds == Kinds \ {"releaseMessage"}

LEMMA TaskFacts ==
  /\ \A kind \in TaskKinds :
       /\ Task(kind) \in GoodTasks /\ Task(kind).kind = kind
       /\ \A m \in Msgs : Task(kind) # Release(m)
  /\ \A m \in Msgs :
       /\ Release(m) \in GoodTasks
       /\ Release(m).kind = "releaseMessage" /\ Release(m).msg = m
  /\ \A t \in GoodTasks : t.kind = "releaseMessage" => \E m \in Msgs : t = Release(m)
  /\ GoodTasks \subseteq [kind : Kinds, msg : Msgs \cup {NoMsg}]
  /\ "releaseMessage" \notin TaskKinds
<1>1. \A kind \in TaskKinds : Task(kind) \in GoodTasks /\ Task(kind).kind = kind
  BY DEF GoodTasks, Task, TaskKinds
<1>2. \A m \in Msgs : /\ Release(m) \in GoodTasks
                      /\ Release(m).kind = "releaseMessage" /\ Release(m).msg = m
  BY DEF GoodTasks, Release
<1>3. "releaseMessage" \notin TaskKinds
  BY DEF TaskKinds
<1>4. \A kind \in TaskKinds, m \in Msgs : Task(kind) # Release(m)
  BY <1>1, <1>2, <1>3
<1>5. \A t \in GoodTasks : \/ \E kind \in TaskKinds : t = Task(kind)
                           \/ \E m \in Msgs : t = Release(m)
  BY DEF GoodTasks, TaskKinds
<1>6. \A t \in GoodTasks : t.kind = "releaseMessage" => \E m \in Msgs : t = Release(m)
  BY <1>1, <1>3, <1>5
<1>7. \A t \in GoodTasks : t \in [kind : Kinds, msg : Msgs \cup {NoMsg}]
  BY <1>5 DEF Task, Release, TaskKinds, Kinds
<1>. QED
  BY <1>1, <1>2, <1>3, <1>4, <1>6, <1>7

LEMMA PostBehind ==
  ASSUME NEW ts \in Seq(GoodTasks), NEW kind \in TaskKinds
  PROVE  LET us == Append(ts, Task(kind)) IN
         /\ us \in Seq(GoodTasks)
         /\ \A k \in TaskKinds :
              Occ(us, Of(k)) = Occ(ts, Of(k)) + (IF k = kind THEN 1 ELSE 0)
         /\ \A m \in Msgs : Occ(us, {Release(m)}) = Occ(ts, {Release(m)})
         /\ LoginBeforeClose(ts) /\ (kind = "login" => Occ(ts, Of("close")) = 0)
              => LoginBeforeClose(us)
<1>. DEFINE us == Append(ts, Task(kind))
<1>1. Task(kind) \in GoodTasks /\ Task(kind).kind = kind
  BY TaskFacts
<1>2. us \in Seq(GoodTasks)
  BY <1>1, OccAppend
<1>3. \A k \in TaskKinds : Occ(us, Of(k)) = Occ(ts, Of(k)) + (IF k = kind THEN 1 ELSE 0)
  <2>1. ASSUME NEW k \in TaskKinds
        PROVE  Occ(us, Of(k)) = Occ(ts, Of(k)) + (IF k = kind THEN 1 ELSE 0)
    <3>1. Task(kind) \in Of(k) <=> k = kind
      BY <1>1 DEF Of
    <3>. QED
      BY <1>1, <3>1, OccAppend
  <2>. QED
    BY <2>1
<1>4. \A m \in Msgs : Occ(us, {Release(m)}) = Occ(ts, {Release(m)})
  <2>1. ASSUME NEW m \in Msgs
        PROVE  Occ(us, {Release(m)}) = Occ(ts, {Release(m)})
    <3>1. Task(kind) \notin {Release(m)} /\ Occ(ts, {Release(m)}) \in Nat
      BY TaskFacts, OccType
    <3>. QED
      BY <1>1, <3>1, OccAppend
  <2>. QED
    BY <2>1
<1>5. ASSUME LoginBeforeClose(ts), kind = "login" => Occ(ts, Of("close")) = 0
      PROVE  LoginBeforeClose(us)
  <2>1. kind = "login" => \A i \in 1 .. Len(ts) : ts[i].kind # "close"
    <3>1. \A i \in 1 .. Len(ts) : ts[i] \in GoodTasks
      OBVIOUS
    <3>2. kind = "login" => \A i \in 1 .. Len(ts) : ts[i] \notin Of("close")
      BY <1>5, OccType
    <3>. QED
      BY <3>1, <3>2 DEF Of
  <2>2. /\ Len(us) = Len(ts) + 1 /\ us[Len(us)] = Task(kind) /\ Len(ts) \in Nat
        /\ \A i \in 1 .. Len(ts) : us[i] = ts[i]
    BY <1>1
  <2>. QED
    BY <1>1, <1>5, <2>1, <2>2 DEF LoginBeforeClose
<1>. QED
  BY <1>2, <1>3, <1>4, <1>5

LEMMA PostInFront ==
  ASSUME NEW ts \in Seq(GoodTasks), NEW m \in Msgs
  PROVE  LET us == <<Release(m)>> \o ts IN
         /\ us \in Seq(GoodTasks)
         /\ \A k \in TaskKinds : Occ(us, Of(k)) = Occ(ts, Of(k))
         /\ \A n \in Msgs :
              Occ(us, {Release(n)}) = Occ(ts, {Release(n)}) + (IF n = m THEN 1 ELSE 0)
         /\ LoginBeforeClose(ts) => LoginBeforeClose(us)
<1>. DEFINE us == <<Release(m)>> \o ts
<1>1. /\ Release(m) \in GoodTasks /\ Release(m).kind = "releaseMessage"
      /\ "releaseMessage" \notin TaskKinds
  BY TaskFacts
<1>2. /\ us \in Seq(GoodTasks) /\ Len(us) = Len(ts) + 1 /\ us[1] = Release(m)
      /\ \A i \in 1 .. Len(ts) : us[i + 1] = ts[i]
  BY <1>1, OccCons
<1>3. \A k \in TaskKinds : Occ(us, Of(k)) = Occ(ts, Of(k))
  <2>1. ASSUME NEW k \in TaskKinds
        PROVE  Occ(us, Of(k)) = Occ(ts, Of(k))
    <3>1. Release(m) \notin Of(k) /\ Occ(ts, Of(k)) \in Nat
      BY <1>1, OccType DEF Of
    <3>. QED
      BY <1>1, <3>1, OccCons
  <2>. QED
    BY <2>1
<1>4. \A n \in Msgs :
        Occ(us, {Release(n)}) = Occ(ts, {Release(n)}) + (IF n = m THEN 1 ELSE 0)
  <2>1. ASSUME NEW n \in Msgs
        PROVE  Occ(us, {Release(n)}) = Occ(ts, {Release(n)}) + (IF n = m THEN 1 ELSE 0)
    <3>1. Release(m) \in {Release(n)} <=> n = m
      BY TaskFacts
    <3>. QED
      BY <1>1, <3>1, OccCons
  <2>. QED
    BY <2>1
<1>5. ASSUME LoginBeforeClose(ts)
      PROVE  LoginBeforeClose(us)
  <2>1. Len(ts) \in Nat /\ us[1].kind = "releaseMessage"
    BY <1>1, <1>2
  <2>2. \A i \in 1 .. Len(us) : i = 1 \/ (i - 1 \in 1 .. Len(ts) /\ us[i] = ts[i - 1])
    <3>1. \A i \in 1 .. Len(us) : i = 1 \/ i - 1 \in 1 .. Len(ts)
      BY <1>2, <2>1
    <3>2. \A i \in 1 .. Len(us) : i - 1 \in 1 .. Len(ts) => us[(i - 1) + 1] = ts[i - 1]
      BY <1>2
    <3>3. \A i \in 1 .. Len(us) : (i - 1) + 1 = i
      BY <2>1
    <3>. QED
      BY <3>1, <3>2, <3>3
  <2>3. ASSUME NEW i \in 1 .. Len(us), NEW j \in 1 .. Len(us), i < j, us[i].kind = "close"
        PROVE  us[j].kind # "login"
    <3>1. i # 1 /\ j # 1
      BY <2>1, <2>3
    <3>2. i - 1 < j - 1 /\ i - 1 \in 1 .. Len(ts) /\ j - 1 \in 1 .. Len(ts)
      BY <2>1, <2>2, <2>3, <3>1
    <3>. QED
      BY <1>5, <2>2, <2>3, <3>1, <3>2 DEF LoginBeforeClose
  <2>. QED
    BY <2>3 DEF LoginBeforeClose
<1>. QED
  BY <1>2, <1>3, <1>4, <1>5

LEMMA TakeFirst ==
  ASSUME NEW ts \in Seq(GoodTasks), ts # <<>>
  PROVE  LET us == Tail(ts) IN
         /\ Head(ts) \in GoodTasks
         /\ us \in Seq(GoodTasks)
         /\ \A k \in TaskKinds :
              Occ(ts, Of(k)) = Occ(us, Of(k)) + (IF k = Head(ts).kind THEN 1 ELSE 0)
         /\ \A m \in Msgs : Occ(ts, {Release(m)}) = Occ(us, {Release(m)})
                              + (IF Head(ts) = Release(m) THEN 1 ELSE 0)
         /\ LoginBeforeClose(ts) =>
              /\ LoginBeforeClose(us)
              /\ Head(ts).kind = "close" => Occ(us, Of("login")) = 0
<1>. DEFINE us == Tail(ts)
<1>1. /\ Head(ts) \in GoodTasks /\ us \in Seq(GoodTasks) /\ Head(ts) = ts[1]
      /\ Len(ts) \in Nat /\ Len(us) = Len(ts) - 1 /\ Len(ts) > 0
      /\ \A i \in 1 .. Len(us) : us[i] = ts[i + 1]
  BY HeadTailProperties
<1>2. \A k \in TaskKinds :
        Occ(ts, Of(k)) = Occ(us, Of(k)) + (IF k = Head(ts).kind THEN 1 ELSE 0)
  <2>1. ASSUME NEW k \in TaskKinds
        PROVE  Occ(ts, Of(k)) = Occ(us, Of(k)) + (IF k = Head(ts).kind THEN 1 ELSE 0)
    <3>1. Head(ts) \in Of(k) <=> k = Head(ts).kind
      BY <1>1 DEF Of
    <3>. QED
      BY <3>1, OccTail
  <2>. QED
    BY <2>1
<1>3. \A m \in Msgs : Occ(ts, {Release(m)}) = Occ(us, {Release(m)})
                        + (IF Head(ts) = Release(m) THEN 1 ELSE 0)
  <2>1. ASSUME NEW m \in Msgs
        PROVE  Occ(ts, {Release(m)}) = Occ(us, {Release(m)})
                 + (IF Head(ts) = Release(m) THEN 1 ELSE 0)
    <3>1. Head(ts) \in {Release(m)} <=> Head(ts) = Release(m)
      OBVIOUS
    <3>. QED
      BY <3>1, OccTail
  <2>. QED
    BY <2>1
<1>4. ASSUME LoginBeforeClose(ts)
      PROVE  LoginBeforeClose(us)
  <2>1. \A i \in 1 .. Len(us) : i + 1 \in 1 .. Len(ts)
    BY <1>1
  <2>. QED
    BY <1>1, <1>4, <2>1 DEF LoginBeforeClose
<1>5. ASSUME LoginBeforeClose(ts), Head(ts).kind = "close"
      PROVE  Occ(us, Of("login")) = 0
  <2>1. \A i \in 1 .. Len(us) : us[i].kind # "login"
    <3>1. \A i \in 1 .. Len(us) : i + 1 \in 1 .. Len(ts) /\ 1 < i + 1
      BY <1>1
    <3>. QED
      BY <1>1, <1>5, <3>1 DEF LoginBeforeClose
  <2>2. \A i \in 1 .. Len(us) : us[i] \notin Of("login")
    BY <2>1 DEF Of
  <2>. QED
    BY <1>1, <2>2, OccType
<1>. QED
  BY <1>1, <1>2, <1>3, <1>4, <1>5

(* close() posts its task unless it was called before; the release of the  *)
(* connection is posted when nothing is read or written.                   *)
LEMMA CloseTaskFacts ==
  ASSUME NEW ts \in Seq(GoodTasks)
  PROVE  LET us == CloseTask(ts) IN
         /\ us \in Seq(GoodTasks)
         /\ \A k \in TaskKinds : Occ(us, Of(k)) = Occ(ts, Of(k))
              + (IF k = "close" /\ closeState = "none" THEN 1 ELSE 0)
         /\ \A m \in Msgs : Occ(us, {Release(m)}) = Occ(ts, {Release(m)})
         /\ LoginBeforeClose(ts) => LoginBeforeClose(us)
<1>1. "close" \in TaskKinds /\ "close" # "login"
  BY DEF TaskKinds, Kinds
<1>2. \A k \in TaskKinds : Occ(ts, Of(k)) \in Nat
  BY OccType
<1>. QED
  BY <1>1, <1>2, PostBehind DEF CloseTask

LEMMA ClosingFacts ==
  ASSUME NEW ts \in Seq(GoodTasks), NEW pw, NEW err, NEW rd, ClosingConnection(pw, err, rd, ts)
  PROVE  /\ tasks' \in Seq(GoodTasks)
         /\ \A k \in TaskKinds : Occ(tasks', Of(k)) = Occ(ts, Of(k))
              + (IF k = "releaseConnection" /\ Releasable(pw, err, rd) THEN 1 ELSE 0)
         /\ \A m \in Msgs : Occ(tasks', {Release(m)}) = Occ(ts, {Release(m)})
         /\ LoginBeforeClose(ts) => LoginBeforeClose(tasks')
<1>1. "releaseConnection" \in TaskKinds /\ "releaseConnection" # "login"
  BY DEF TaskKinds, Kinds
<1>2. \A k \in TaskKinds : Occ(ts, Of(k)) \in Nat
  BY OccType
<1>. QED
  BY <1>1, <1>2, PostBehind DEF ClosingConnection
-----------------------------------------------------------------------------
(* The output.  What these proofs use of the invariant mentions neither the *)
(* tasks nor the references.                                               *)
Output == WrittenInOrder /\ FlushedBeforeClose /\ Writes

LEMMA QueueFacts ==
  ASSUME NEW w \in Msgs, NEW q \in Seq(Msgs), NEW m \in Msgs
  PROVE  /\ <<w>> \o q # <<>> /\ Tail(<<w>> \o q) = q /\ <<w>> \o q \in Seq(Msgs)
         /\ Append(<<w>> \o q, m) = <<w>> \o Append(q, m)
         /\ Append(<<>>, m) = <<m>> \o <<>>
         /\ q # <<>> => q = <<Head(q)>> \o Tail(q)
<1>1. /\ <<w>> \o q \in Seq(Msgs) /\ Len(<<w>> \o q) = 1 + Len(q)
      /\ \A i \in 1 .. 1 + Len(q) : (<<w>> \o q)[i] = IF i <= 1 THEN w ELSE q[i - 1]
  BY ConcatProperties
<1>2. <<w>> \o q # <<>>
  BY <1>1
<1>3. Tail(<<w>> \o q) = q
  <2>1. /\ Tail(<<w>> \o q) \in Seq(Msgs) /\ Len(Tail(<<w>> \o q)) = Len(q)
        /\ \A i \in 1 .. Len(q) : Tail(<<w>> \o q)[i] = (<<w>> \o q)[i + 1]
    BY <1>1, <1>2, HeadTailProperties
  <2>2. \A i \in 1 .. Len(q) : i + 1 \in 1 .. 1 + Len(q) /\ ~(i + 1 <= 1) /\ (i + 1) - 1 = i
    OBVIOUS
  <2>3. \A i \in 1 .. Len(q) : Tail(<<w>> \o q)[i] = q[i]
    BY <1>1, <2>1, <2>2
  <2>. QED
    BY <2>1, <2>3, SeqEqual
<1>4. Append(<<w>> \o q, m) = <<w>> \o Append(q, m)
  OBVIOUS
<1>5. Append(<<>>, m) = <<m>> \o <<>>
  OBVIOUS
<1>6. q # <<>> => q = <<Head(q)>> \o Tail(q)
  OBVIOUS
<1>. QED
  BY <1>1, <1>2, <1>3, <1>4, <1>5, <1>6

(* send() takes a message: it comes behind all those taken before.         *)
LEMMA TransmitOutput ==
  ASSUME TypeOK, Output, NEW m \in Msgs, ~SendRefused, Transmit(m),
         closeState' \in {closeState, CloseRequested}, UNCHANGED <<socketClosed, writeError>>
  PROVE  Output' /\ writing' \in Msgs /\ outputQueue' \in Seq(Msgs)
                 /\ pendingWrite' \in Nat /\ accepted' \in Seq(Msgs)
<1>1. closeState # "closing" /\ ~writeError /\ ~socketClosed
  BY DEF SendRefused, Output, Writes
<1>2. closeState' # "closing"
  BY <1>1 DEF CloseRequested
<1>3. /\ outputQueue \in Seq(Msgs) /\ accepted \in Seq(Msgs)
      /\ writing \in Msgs \cup {NoMsg} /\ NoMsg \notin Msgs
  BY ConstantsAssumption DEF TypeOK
<1>4. CASE writing = NoMsg
  <2>1. pendingWrite = 0 /\ outputQueue = <<>> /\ accepted = <<>>
    BY <1>1, <1>4 DEF Output, WrittenInOrder, Writes
  <2>2. /\ accepted' = Append(accepted, m) /\ writing' = m /\ pendingWrite' = 1
        /\ outputQueue' = outputQueue
    BY <2>1 DEF Transmit
  <2>3. accepted' = <<writing'>> \o outputQueue' /\ accepted' \in Seq(Msgs)
    BY <1>3, <2>1, <2>2, QueueFacts
  <2>. QED
    BY <1>1, <1>2, <1>3, <2>1, <2>2, <2>3
       DEF Output, WrittenInOrder, FlushedBeforeClose, Writes
<1>5. CASE writing # NoMsg
  <2>1. pendingWrite = 1 /\ accepted = <<writing>> \o outputQueue
    BY <1>1, <1>5 DEF Output, WrittenInOrder, Writes
  <2>2. /\ accepted' = Append(accepted, m) /\ writing' = writing
        /\ pendingWrite' = pendingWrite /\ outputQueue' = Append(outputQueue, m)
    BY <2>1 DEF Transmit, Queue
  <2>3. /\ accepted' = <<writing'>> \o outputQueue' /\ accepted' \in Seq(Msgs)
        /\ outputQueue' \in Seq(Msgs)
    <3>1. accepted' \in Seq(Msgs) /\ outputQueue' \in Seq(Msgs)
      BY <1>3, <2>2
    <3>2. Append(<<writing>> \o outputQueue, m) = <<writing>> \o Append(outputQueue, m)
      BY <1>3, <1>5, QueueFacts
    <3>. QED
      BY <2>1, <2>2, <3>1, <3>2
  <2>. QED
    BY <1>1, <1>2, <1>3, <1>5, <2>1, <2>2, <2>3
       DEF Output, WrittenInOrder, FlushedBeforeClose, Writes
<1>. QED
  BY <1>4, <1>5

(* A write ends: the queue moves up, or nothing is written any more.       *)
LEMMA WriteEnds ==
  ASSUME TypeOK, Output, writing # NoMsg
  PROVE  /\ pendingWrite = 1 /\ ~writeError /\ ~socketClosed
         /\ writing \in Msgs /\ Tail(accepted) = outputQueue
<1>1. /\ outputQueue \in Seq(Msgs) /\ writing \in Msgs
      /\ pendingWrite = 1 /\ accepted = <<writing>> \o outputQueue
  BY DEF TypeOK, Output, WrittenInOrder
<1>2. accepted # <<>> /\ Tail(accepted) = outputQueue
  BY <1>1, QueueFacts
<1>. QED
  BY <1>1, <1>2 DEF Output, FlushedBeforeClose, Writes

(* Releasing is possible exactly when nothing is read or written.          *)
LEMMA MayCloseFacts ==
  ASSUME TypeOK, Output
  PROVE  /\ MayClose(pendingWrite, writeError) <=> pendingWrite = 0
         /\ pendingWrite = 0 <=> writing = NoMsg
  BY DEF TypeOK, Output, WrittenInOrder, Writes, MayClose

LEMMA ClosingSocket ==
  ASSUME NEW pw, NEW err, NEW rd, NEW ts, ClosingConnection(pw, err, rd, ts)
  PROVE  socketClosed' \in BOOLEAN /\ (socketClosed' <=> socketClosed \/ MayClose(pw, err))
<1>1. socketClosed' = (socketClosed \/ MayClose(pw, err))
  BY DEF ClosingConnection
<1>2. (socketClosed \/ MayClose(pw, err)) \in BOOLEAN
  OBVIOUS
<1>. QED
  BY <1>1, <1>2, Zenon

LEMMA AfterWriteSocket ==
  ASSUME TypeOK, ~socketClosed, NEW pw, NEW err, NEW ts, AfterWrite(pw, err, ts)
  PROVE  /\ socketClosed' \in BOOLEAN
         /\ socketClosed' => closeState = "closing" /\ MayClose(pw, err)
<1>1. CASE closeState = "closing"
  BY <1>1, ClosingSocket DEF AfterWrite
<1>2. CASE closeState # "closing"
  BY <1>2 DEF AfterWrite, TypeOK
<1>. QED
  BY <1>1, <1>2

(* The two ends of a write keep the output, whatever else they do.         *)
LEMMA WriteDoneOutput ==
  ASSUME TypeOK, Output, WriteDone
  PROVE  Output' /\ writing' \in Msgs \cup {NoMsg} /\ outputQueue' \in Seq(Msgs)
                 /\ pendingWrite' \in Nat /\ accepted' \in Seq(Msgs) /\ socketClosed' \in BOOLEAN
<1>1. /\ pendingWrite = 1 /\ ~writeError /\ ~socketClosed
      /\ writing \in Msgs /\ Tail(accepted) = outputQueue
  BY WriteEnds DEF WriteDone
<1>2. /\ accepted' = outputQueue /\ closeState' = closeState /\ writeError' = writeError
      /\ outputQueue \in Seq(Msgs) /\ NoMsg \notin Msgs
  BY <1>1, ConstantsAssumption DEF WriteDone, TypeOK
<1>3. CASE outputQueue # <<>>
  <2>1. /\ writing' = Head(outputQueue) /\ outputQueue' = Tail(outputQueue)
        /\ pendingWrite' = pendingWrite
        /\ AfterWrite(pendingWrite, writeError, <<Release(writing)>> \o tasks)
    BY <1>3 DEF WriteDone
  <2>2. writing' \in Msgs /\ outputQueue' \in Seq(Msgs)
    BY <1>2, <1>3, <2>1
  <2>3. accepted' = <<writing'>> \o outputQueue'
    BY <1>2, <1>3, <2>1, QueueFacts
  <2>4. ~socketClosed' /\ socketClosed' \in BOOLEAN
    BY <1>1, <2>1, AfterWriteSocket DEF MayClose
  <2>. QED
    BY <1>1, <1>2, <2>1, <2>2, <2>3, <2>4
       DEF Output, WrittenInOrder, FlushedBeforeClose, Writes
<1>4. CASE outputQueue = <<>>
  <2>1. /\ writing' = NoMsg /\ outputQueue' = <<>> /\ pendingWrite' = 0
        /\ AfterWrite(pendingWrite - 1, writeError, <<Release(writing)>> \o tasks)
    BY <1>1, <1>4 DEF WriteDone
  <2>2. socketClosed' \in BOOLEAN /\ (socketClosed' => closeState = "closing")
    BY <1>1, <2>1, AfterWriteSocket
  <2>. QED
    BY <1>1, <1>2, <1>4, <2>1, <2>2
       DEF Output, WrittenInOrder, FlushedBeforeClose, Writes
<1>. QED
  BY <1>3, <1>4

LEMMA WriteErrorOutput ==
  ASSUME TypeOK, Output, WriteError
  PROVE  Output' /\ writing' \in Msgs \cup {NoMsg} /\ outputQueue' \in Seq(Msgs)
                 /\ pendingWrite' \in Nat /\ accepted' \in Seq(Msgs) /\ socketClosed' \in BOOLEAN
<1>1. /\ pendingWrite = 1 /\ ~writeError /\ ~socketClosed
      /\ writing \in Msgs /\ Tail(accepted) = outputQueue
  BY WriteEnds DEF WriteError
<1>2. /\ accepted' = outputQueue /\ writing' = NoMsg /\ writeError' = TRUE
      /\ outputQueue' = outputQueue /\ pendingWrite' = 0
      /\ closeState' = CloseRequested /\ outputQueue \in Seq(Msgs)
  BY <1>1 DEF WriteError, TypeOK
<1>3. socketClosed' \in BOOLEAN /\ (socketClosed' => closeState = "closing")
  BY <1>1, AfterWriteSocket DEF WriteError
<1>4. closeState = "closing" => closeState' = "closing"
  BY <1>2 DEF CloseRequested
<1>. QED
  BY <1>2, <1>3, <1>4 DEF Output, WrittenInOrder, FlushedBeforeClose, Writes

outVars == <<pendingWrite, writing, outputQueue, writeError, accepted>>

(* So does every step that closes the socket, or moves m_closeState on.    *)
LEMMA OtherOutput ==
  ASSUME TypeOK, Output, UNCHANGED outVars,
         closeState = "closing" => closeState' = "closing",
         \/ UNCHANGED socketClosed
         \/ /\ socketClosed' = (socketClosed \/ MayClose(pendingWrite, writeError))
            /\ closeState' = "closing"
  PROVE  Output'
<1>1. /\ pendingWrite' = pendingWrite /\ writing' = writing /\ outputQueue' = outputQueue
      /\ writeError' = writeError /\ accepted' = accepted
  BY DEF outVars
<1>2. WrittenInOrder' /\ (writeError => writing = NoMsg)
      /\ (writing = NoMsg /\ ~writeError => accepted = <<>> /\ outputQueue = <<>>)
      /\ (socketClosed => closeState = "closing")
      /\ (socketClosed /\ ~writeError => accepted = <<>>)
  BY <1>1 DEF Output, WrittenInOrder, Writes, FlushedBeforeClose
<1>3. CASE UNCHANGED socketClosed
  BY <1>1, <1>2, <1>3 DEF Output, Writes, FlushedBeforeClose
<1>4. CASE /\ socketClosed' = (socketClosed \/ MayClose(pendingWrite, writeError))
           /\ closeState' = "closing"
  <2>1. MayClose(pendingWrite, writeError) /\ ~writeError => writing = NoMsg
    BY MayCloseFacts
  <2>2. socketClosed' /\ ~writeError => accepted = <<>>
    BY <1>2, <1>4, <2>1
  <2>. QED
    BY <1>1, <1>2, <1>4, <2>2 DEF Output, Writes, FlushedBeforeClose
<1>. QED
  BY <1>3, <1>4

(* A message that says goodbye is sent like any other. *)
LEMMA DisconnectOutput ==
  ASSUME TypeOK, Output, NEW ts, DisconnectClient(ts), UNCHANGED <<socketClosed, writeError>>
  PROVE  Output' /\ writing' \in Msgs \cup {NoMsg} /\ outputQueue' \in Seq(Msgs)
                 /\ pendingWrite' \in Nat /\ accepted' \in Seq(Msgs)
<1>1. PICK m \in pool :
        /\ IF SendRefused
           THEN UNCHANGED <<writing, pendingWrite, outputQueue, accepted>>
           ELSE Transmit(m)
        /\ closeState' = CloseRequested
  BY DEF DisconnectClient
<1>2. CASE SendRefused
  BY <1>1, <1>2, OtherOutput DEF outVars, TypeOK, CloseRequested
<1>3. CASE ~SendRefused
  <2>1. m \in Msgs /\ Transmit(m)
    BY <1>1, <1>3 DEF TypeOK
  <2>. QED
    BY <1>1, <1>3, <2>1, TransmitOutput
<1>. QED
  BY <1>2, <1>3
-----------------------------------------------------------------------------
(* What the steps do to the tasks: how many more there are of each kind    *)
(* that is not about a message, and that no release of a message is added. *)
Change(login, close, proto, conn) ==
  /\ tasks' \in Seq(GoodTasks) /\ LoginBeforeClose(tasks')
  /\ Occ(tasks', Of("login")) = Queued("login") + login
  /\ Occ(tasks', Of("close")) = Queued("close") + close
  /\ Occ(tasks', Of("releaseProtocol")) = Queued("releaseProtocol") + proto
  /\ Occ(tasks', Of("releaseConnection")) = Queued("releaseConnection") + conn
NoneReleased == \A m \in Msgs : Occ(tasks', {Release(m)}) = Occ(tasks, {Release(m)})

LEMMA KindFacts ==
  /\ "login" \in TaskKinds /\ "close" \in TaskKinds
  /\ "releaseProtocol" \in TaskKinds /\ "releaseConnection" \in TaskKinds
  BY DEF TaskKinds, Kinds

LEMMA QueuedType ==
  ASSUME Logins
  PROVE  /\ Queued("login") \in Nat /\ Queued("close") \in Nat
         /\ Queued("releaseProtocol") \in Nat /\ Queued("releaseConnection") \in Nat
         /\ \A m \in Msgs : Occ(tasks, {Release(m)}) \in Nat
  BY OccType DEF Logins, Queued

LEMMA NoTaskChange ==
  ASSUME Logins, UNCHANGED tasks
  PROVE  Change(0, 0, 0, 0) /\ NoneReleased
  BY QueuedType DEF Logins, Change, NoneReleased, Queued

LEMMA CloseTaskChange ==
  ASSUME Logins, tasks' = CloseTask(tasks)
  PROVE  Change(0, IF closeState = "none" THEN 1 ELSE 0, 0, 0) /\ NoneReleased
<1>1. tasks \in Seq(GoodTasks) /\ LoginBeforeClose(tasks)
  BY DEF Logins
<1>. QED
  BY <1>1, KindFacts, QueuedType, CloseTaskFacts DEF Change, NoneReleased, Queued

LEMMA ReadWhileClosingChange ==
  ASSUME Logins, ReadWhileClosing
  PROVE  /\ Change(0, 0, 0, IF Releasable(pendingWrite, writeError, "none") THEN 1 ELSE 0)
         /\ NoneReleased
<1>1. tasks \in Seq(GoodTasks) /\ LoginBeforeClose(tasks)
  BY DEF Logins
<1>2. ClosingConnection(pendingWrite, writeError, "none", tasks)
  BY DEF ReadWhileClosing
<1>. QED
  BY <1>1, <1>2, KindFacts, QueuedType, ClosingFacts DEF Change, NoneReleased, Queued

LEMMA ParseLoginChange ==
  ASSUME Logins, ParseLogin, Queued("close") = 0
  PROVE  Change(1, 0, 0, 0) /\ NoneReleased
<1>1. tasks \in Seq(GoodTasks) /\ LoginBeforeClose(tasks) /\ Occ(tasks, Of("close")) = 0
  BY DEF Logins, Queued
<1>2. tasks' = Append(tasks, Task("login"))
  BY DEF ParseLogin
<1>3. /\ tasks' \in Seq(GoodTasks)
      /\ \A k \in TaskKinds : Occ(tasks', Of(k)) = Occ(tasks, Of(k)) + (IF k = "login" THEN 1 ELSE 0)
      /\ \A m \in Msgs : Occ(tasks', {Release(m)}) = Occ(tasks, {Release(m)})
      /\ LoginBeforeClose(tasks')
  BY <1>1, <1>2, KindFacts, PostBehind
<1>. QED
  BY <1>3, KindFacts, QueuedType DEF Change, NoneReleased, Queued

(* Taking the first task. *)
LEMMA TailChange ==
  ASSUME Logins, NEW kind, Run(kind)
  PROVE  LET us == Tail(tasks) IN
         /\ Head(tasks) \in GoodTasks /\ Head(tasks).kind = kind
         /\ us \in Seq(GoodTasks) /\ LoginBeforeClose(us)
         /\ \A k \in TaskKinds :
              Occ(us, Of(k)) = Occ(tasks, Of(k)) - (IF k = kind THEN 1 ELSE 0)
         /\ kind = "close" => Occ(us, Of("login")) = 0
         /\ \A m \in Msgs : Occ(us, {Release(m)}) = Occ(tasks, {Release(m)})
                              - (IF Head(tasks) = Release(m) THEN 1 ELSE 0)
         /\ kind # "releaseMessage" => \A m \in Msgs : Head(tasks) # Release(m)
<1>1. /\ tasks \in Seq(GoodTasks) /\ LoginBeforeClose(tasks) /\ tasks # <<>>
      /\ Head(tasks).kind = kind
  BY DEF Logins, Run
<1>2. /\ Head(tasks) \in GoodTasks /\ Tail(tasks) \in Seq(GoodTasks)
      /\ LoginBeforeClose(Tail(tasks))
      /\ kind = "close" => Occ(Tail(tasks), Of("login")) = 0
  BY <1>1, TakeFirst
<1>3. \A k \in TaskKinds :
        Occ(Tail(tasks), Of(k)) = Occ(tasks, Of(k)) - (IF k = kind THEN 1 ELSE 0)
  <2>1. \A k \in TaskKinds : Occ(tasks, Of(k)) \in Nat /\ Occ(Tail(tasks), Of(k)) \in Nat
    BY <1>1, <1>2, OccType
  <2>. QED
    BY <1>1, <2>1, TakeFirst
<1>4. \A m \in Msgs : Occ(Tail(tasks), {Release(m)}) = Occ(tasks, {Release(m)})
                        - (IF Head(tasks) = Release(m) THEN 1 ELSE 0)
  <2>1. \A m \in Msgs : /\ Occ(tasks, {Release(m)}) \in Nat
                        /\ Occ(Tail(tasks), {Release(m)}) \in Nat
    BY <1>1, <1>2, OccType
  <2>. QED
    BY <1>1, <2>1, TakeFirst
<1>5. \A m \in Msgs : Head(tasks) = Release(m) => kind = "releaseMessage"
  BY <1>1, TaskFacts
<1>. QED
  BY <1>1, <1>2, <1>3, <1>4, <1>5

LEMMA RunChange ==
  ASSUME Logins, NEW kind \in {"login", "releaseProtocol", "releaseConnection",
                               "releaseMessage"},
         Run(kind), tasks' = Tail(tasks)
  PROVE  /\ Change(IF kind = "login" THEN -1 ELSE 0, 0,
                   IF kind = "releaseProtocol" THEN -1 ELSE 0,
                   IF kind = "releaseConnection" THEN -1 ELSE 0)
         /\ kind # "releaseMessage" => NoneReleased
<1>1. Change(IF kind = "login" THEN -1 ELSE 0, 0,
             IF kind = "releaseProtocol" THEN -1 ELSE 0,
             IF kind = "releaseConnection" THEN -1 ELSE 0)
  BY TailChange, KindFacts, QueuedType DEF Change, Queued
<1>2. kind # "releaseMessage" => NoneReleased
  BY TailChange, QueuedType DEF NoneReleased
<1>. QED
  BY <1>1, <1>2

LEMMA CloseConnectionChange ==
  ASSUME Logins, CloseConnectionTask
  PROVE  /\ IF closeState = "requested"
            THEN Change(-Queued("login"), -1, IF hasProtocol THEN 1 ELSE 0,
                        IF Releasable(pendingWrite, writeError, reading) THEN 1 ELSE 0)
            ELSE Change(-Queued("login"), -1, 0, 0)
         /\ NoneReleased
         /\ Queued("close") > 0
<1>. DEFINE us == Tail(tasks)
            vs == Append(us, Task("releaseProtocol"))
<1>1. Run("close")
  BY DEF CloseConnectionTask
<1>2. /\ us \in Seq(GoodTasks) /\ LoginBeforeClose(us)
      /\ Occ(us, Of("login")) = 0 /\ Occ(us, Of("close")) = Queued("close") - 1
      /\ Occ(us, Of("releaseProtocol")) = Queued("releaseProtocol")
      /\ Occ(us, Of("releaseConnection")) = Queued("releaseConnection")
      /\ \A m \in Msgs : Occ(us, {Release(m)}) = Occ(tasks, {Release(m)})
  <2>1. /\ us \in Seq(GoodTasks) /\ LoginBeforeClose(us) /\ Occ(us, Of("login")) = 0
        /\ \A m \in Msgs : Occ(us, {Release(m)}) = Occ(tasks, {Release(m)})
    BY <1>1, TailChange, QueuedType
  <2>2. /\ Occ(us, Of("close")) = Queued("close") - 1
        /\ Occ(us, Of("releaseProtocol")) = Queued("releaseProtocol")
        /\ Occ(us, Of("releaseConnection")) = Queued("releaseConnection")
    BY <1>1, TailChange, KindFacts, QueuedType DEF Queued
  <2>. QED
    BY <2>1, <2>2
<1>3. Occ(us, Of("close")) \in Nat
  BY <1>2, OccType
<1>4. /\ vs \in Seq(GoodTasks) /\ LoginBeforeClose(vs)
      /\ Occ(vs, Of("login")) = 0 /\ Occ(vs, Of("close")) = Queued("close") - 1
      /\ Occ(vs, Of("releaseProtocol")) = Queued("releaseProtocol") + 1
      /\ Occ(vs, Of("releaseConnection")) = Queued("releaseConnection")
      /\ \A m \in Msgs : Occ(vs, {Release(m)}) = Occ(tasks, {Release(m)})
  <2>1. /\ vs \in Seq(GoodTasks) /\ LoginBeforeClose(vs)
        /\ \A m \in Msgs : Occ(vs, {Release(m)}) = Occ(us, {Release(m)})
        /\ \A k \in TaskKinds :
             Occ(vs, Of(k)) = Occ(us, Of(k)) + (IF k = "releaseProtocol" THEN 1 ELSE 0)
    BY <1>2, KindFacts, PostBehind
  <2>. QED
    BY <1>2, <2>1, KindFacts, QueuedType
<1>. HIDE DEF us, vs
<1>5. CASE closeState = "requested" /\ hasProtocol
  <2>1. ClosingConnection(pendingWrite, writeError, reading, vs)
    BY <1>5 DEF CloseConnectionTask, us, vs
  <2>2. /\ tasks' \in Seq(GoodTasks) /\ LoginBeforeClose(tasks')
        /\ \A k \in TaskKinds : Occ(tasks', Of(k)) = Occ(vs, Of(k))
             + (IF k = "releaseConnection" /\ Releasable(pendingWrite, writeError, reading)
                THEN 1 ELSE 0)
        /\ \A m \in Msgs : Occ(tasks', {Release(m)}) = Occ(vs, {Release(m)})
    BY <1>4, <2>1, ClosingFacts
  <2>3. NoneReleased
    BY <1>4, <2>2 DEF NoneReleased
  <2>4. Change(-Queued("login"), -1, IF hasProtocol THEN 1 ELSE 0,
               IF Releasable(pendingWrite, writeError, reading) THEN 1 ELSE 0)
    <3>. HIDE DEF Releasable
    <3>1. /\ Occ(tasks', Of("login")) = Queued("login") + (-Queued("login"))
          /\ Occ(tasks', Of("close")) = Queued("close") + -1
          /\ Occ(tasks', Of("releaseProtocol"))
               = Queued("releaseProtocol") + (IF hasProtocol THEN 1 ELSE 0)
      BY <1>4, <1>5, <2>2, KindFacts, QueuedType
    <3>2. Occ(tasks', Of("releaseConnection")) = Queued("releaseConnection")
            + (IF Releasable(pendingWrite, writeError, reading) THEN 1 ELSE 0)
      BY <1>4, <2>2, KindFacts
    <3>. QED
      BY <2>2, <3>1, <3>2 DEF Change
  <2>. QED
    BY <1>5, <1>2, <1>3, <2>3, <2>4, QueuedType
<1>6. CASE closeState = "requested" /\ ~hasProtocol
  <2>1. ClosingConnection(pendingWrite, writeError, reading, us)
    BY <1>6 DEF CloseConnectionTask, us
  <2>2. /\ tasks' \in Seq(GoodTasks) /\ LoginBeforeClose(tasks')
        /\ \A k \in TaskKinds : Occ(tasks', Of(k)) = Occ(us, Of(k))
             + (IF k = "releaseConnection" /\ Releasable(pendingWrite, writeError, reading)
                THEN 1 ELSE 0)
        /\ \A m \in Msgs : Occ(tasks', {Release(m)}) = Occ(us, {Release(m)})
    BY <1>2, <2>1, ClosingFacts
  <2>3. NoneReleased
    BY <1>2, <2>2 DEF NoneReleased
  <2>4. Change(-Queued("login"), -1, IF hasProtocol THEN 1 ELSE 0,
               IF Releasable(pendingWrite, writeError, reading) THEN 1 ELSE 0)
    <3>. HIDE DEF Releasable
    <3>1. /\ Occ(tasks', Of("login")) = Queued("login") + (-Queued("login"))
          /\ Occ(tasks', Of("close")) = Queued("close") + -1
          /\ Occ(tasks', Of("releaseProtocol"))
               = Queued("releaseProtocol") + (IF hasProtocol THEN 1 ELSE 0)
      BY <1>2, <1>6, <2>2, KindFacts, QueuedType
    <3>2. Occ(tasks', Of("releaseConnection")) = Queued("releaseConnection")
            + (IF Releasable(pendingWrite, writeError, reading) THEN 1 ELSE 0)
      BY <1>2, <2>2, KindFacts
    <3>. QED
      BY <2>2, <3>1, <3>2 DEF Change
  <2>. QED
    BY <1>6, <1>2, <1>3, <2>3, <2>4, QueuedType
<1>7. CASE closeState # "requested"
  <2>1. tasks' = us
    BY <1>7 DEF CloseConnectionTask, us
  <2>. QED
    BY <1>2, <1>3, <1>7, <2>1, QueuedType DEF Change, NoneReleased
<1>. QED
  BY <1>5, <1>6, <1>7

LEMMA AfterWriteFacts ==
  ASSUME NEW ts \in Seq(GoodTasks), NEW pw, NEW err, AfterWrite(pw, err, ts)
  PROVE  /\ tasks' \in Seq(GoodTasks)
         /\ \A k \in TaskKinds : Occ(tasks', Of(k)) = Occ(ts, Of(k))
              + (IF k = "releaseConnection" /\ closeState = "closing"
                    /\ Releasable(pw, err, reading) THEN 1 ELSE 0)
         /\ \A m \in Msgs : Occ(tasks', {Release(m)}) = Occ(ts, {Release(m)})
         /\ LoginBeforeClose(ts) => LoginBeforeClose(tasks')
<1>1. CASE closeState = "closing"
  <2>1. ClosingConnection(pw, err, reading, ts)
    BY <1>1 DEF AfterWrite
  <2>. QED
    BY <1>1, <2>1, ClosingFacts
<1>2. CASE closeState # "closing"
  <2>1. tasks' = ts /\ \A k \in TaskKinds : Occ(ts, Of(k)) \in Nat
    BY <1>2, OccType DEF AfterWrite
  <2>. QED
    BY <1>2, <2>1
<1>. QED
  BY <1>1, <1>2

LEMMA WriteDoneChange ==
  ASSUME TypeOK, Logins, WriteDone
  PROVE  /\ Change(0, 0, 0, IF closeState = "closing"
                               /\ Releasable(pendingWrite', writeError, reading)
                            THEN 1 ELSE 0)
         /\ \A m \in Msgs : Occ(tasks', {Release(m)}) = Occ(tasks, {Release(m)})
                              + (IF m = writing THEN 1 ELSE 0)
<1>. DEFINE ts == <<Release(writing)>> \o tasks
<1>1. /\ writing \in Msgs /\ tasks \in Seq(GoodTasks) /\ LoginBeforeClose(tasks)
      /\ AfterWrite(pendingWrite', writeError, ts)
  BY DEF WriteDone, TypeOK, Logins
<1>2. /\ ts \in Seq(GoodTasks) /\ LoginBeforeClose(ts)
      /\ \A k \in TaskKinds : Occ(ts, Of(k)) = Occ(tasks, Of(k))
      /\ \A m \in Msgs : Occ(ts, {Release(m)}) = Occ(tasks, {Release(m)})
                           + (IF m = writing THEN 1 ELSE 0)
  BY <1>1, PostInFront
<1>. HIDE DEF ts
<1>3. /\ tasks' \in Seq(GoodTasks) /\ LoginBeforeClose(tasks')
      /\ \A k \in TaskKinds : Occ(tasks', Of(k)) = Occ(ts, Of(k))
           + (IF k = "releaseConnection" /\ closeState = "closing"
                 /\ Releasable(pendingWrite', writeError, reading) THEN 1 ELSE 0)
      /\ \A m \in Msgs : Occ(tasks', {Release(m)}) = Occ(ts, {Release(m)})
  BY <1>1, <1>2, AfterWriteFacts
<1>4. /\ Occ(tasks', Of("login")) = Queued("login") + 0
      /\ Occ(tasks', Of("close")) = Queued("close") + 0
      /\ Occ(tasks', Of("releaseProtocol")) = Queued("releaseProtocol") + 0
  BY <1>2, <1>3, KindFacts, QueuedType DEF Queued
<1>5. Occ(tasks', Of("releaseConnection")) = Queued("releaseConnection")
        + (IF closeState = "closing" /\ Releasable(pendingWrite', writeError, reading)
           THEN 1 ELSE 0)
  BY <1>2, <1>3, KindFacts DEF Queued
<1>. QED
  BY <1>2, <1>3, <1>4, <1>5 DEF Change

LEMMA WriteErrorChange ==
  ASSUME TypeOK, Logins, WriteError
  PROVE  /\ Change(0, IF closeState = "none" THEN 1 ELSE 0, 0,
                   IF closeState = "closing" /\ Releasable(pendingWrite', TRUE, reading)
                   THEN 1 ELSE 0)
         /\ \A m \in Msgs : Occ(tasks', {Release(m)}) = Occ(tasks, {Release(m)})
                              + (IF m = writing THEN 1 ELSE 0)
<1>. DEFINE ts == <<Release(writing)>> \o tasks
            us == CloseTask(ts)
<1>1. /\ writing \in Msgs /\ tasks \in Seq(GoodTasks) /\ LoginBeforeClose(tasks)
      /\ AfterWrite(pendingWrite', TRUE, us)
  BY DEF WriteError, TypeOK, Logins
<1>2. /\ ts \in Seq(GoodTasks) /\ LoginBeforeClose(ts)
      /\ \A k \in TaskKinds : Occ(ts, Of(k)) = Occ(tasks, Of(k))
      /\ \A m \in Msgs : Occ(ts, {Release(m)}) = Occ(tasks, {Release(m)})
                           + (IF m = writing THEN 1 ELSE 0)
  BY <1>1, PostInFront
<1>. HIDE DEF ts
<1>3. /\ us \in Seq(GoodTasks) /\ LoginBeforeClose(us)
      /\ \A k \in TaskKinds : Occ(us, Of(k)) = Occ(ts, Of(k))
           + (IF k = "close" /\ closeState = "none" THEN 1 ELSE 0)
      /\ \A m \in Msgs : Occ(us, {Release(m)}) = Occ(ts, {Release(m)})
  BY <1>2, CloseTaskFacts
<1>. HIDE DEF us
<1>4. /\ tasks' \in Seq(GoodTasks) /\ LoginBeforeClose(tasks')
      /\ \A k \in TaskKinds : Occ(tasks', Of(k)) = Occ(us, Of(k))
           + (IF k = "releaseConnection" /\ closeState = "closing"
                 /\ Releasable(pendingWrite', TRUE, reading) THEN 1 ELSE 0)
      /\ \A m \in Msgs : Occ(tasks', {Release(m)}) = Occ(us, {Release(m)})
  BY <1>1, <1>3, AfterWriteFacts
<1>5. /\ Occ(us, Of("login")) = Queued("login")
      /\ Occ(us, Of("close")) = Queued("close") + (IF closeState = "none" THEN 1 ELSE 0)
      /\ Occ(us, Of("releaseProtocol")) = Queued("releaseProtocol")
      /\ Occ(us, Of("releaseConnection")) = Queued("releaseConnection")
  BY <1>2, <1>3, KindFacts, QueuedType DEF Queued
<1>6. /\ Occ(tasks', Of("login")) = Queued("login") + 0
      /\ Occ(tasks', Of("close")) = Queued("close") + (IF closeState = "none" THEN 1 ELSE 0)
      /\ Occ(tasks', Of("releaseProtocol")) = Queued("releaseProtocol") + 0
  <2>1. /\ Occ(tasks', Of("login")) = Occ(us, Of("login")) + 0
        /\ Occ(tasks', Of("close")) = Occ(us, Of("close")) + 0
        /\ Occ(tasks', Of("releaseProtocol")) = Occ(us, Of("releaseProtocol")) + 0
    BY <1>4, KindFacts
  <2>. QED
    BY <1>5, <2>1, QueuedType
<1>7. Occ(tasks', Of("releaseConnection")) = Queued("releaseConnection")
        + (IF closeState = "closing" /\ Releasable(pendingWrite', TRUE, reading)
           THEN 1 ELSE 0)
  BY <1>4, <1>5, KindFacts
<1>8. \A m \in Msgs : Occ(tasks', {Release(m)}) = Occ(tasks, {Release(m)})
                        + (IF m = writing THEN 1 ELSE 0)
  BY <1>2, <1>3, <1>4
<1>. QED
  BY <1>4, <1>6, <1>7, <1>8 DEF Change

(* A message is sent and close() called: the message is with the socket,   *)
(* or its release is the first task.                                       *)
LEMMA DisconnectFacts ==
  ASSUME NEW ts \in Seq(GoodTasks), LoginBeforeClose(ts), pool \subseteq Msgs,
         DisconnectClient(ts)
  PROVE  /\ tasks' \in Seq(GoodTasks) /\ LoginBeforeClose(tasks')
         /\ \A k \in TaskKinds : Occ(tasks', Of(k)) = Occ(ts, Of(k))
              + (IF k = "close" /\ closeState = "none" THEN 1 ELSE 0)
         /\ \E m \in pool :
              /\ Allocate(m)
              /\ \/ /\ SendRefused
                    /\ UNCHANGED <<writing, pendingWrite, outputQueue>>
                    /\ \A n \in Msgs : Occ(tasks', {Release(n)}) = Occ(ts, {Release(n)})
                                         + (IF n = m THEN 1 ELSE 0)
                 \/ /\ ~SendRefused
                    /\ Transmit(m)
                    /\ \A n \in Msgs : Occ(tasks', {Release(n)}) = Occ(ts, {Release(n)})
<1>1. PICK m \in pool :
        /\ Allocate(m)
        /\ IF SendRefused
           THEN /\ tasks' = CloseTask(<<Release(m)>> \o ts)
                /\ UNCHANGED <<writing, pendingWrite, outputQueue>>
           ELSE /\ Transmit(m)
                /\ tasks' = CloseTask(ts)
  BY DEF DisconnectClient
<1>2. m \in Msgs
  OBVIOUS
<1>3. CASE SendRefused
  <2>. DEFINE us == <<Release(m)>> \o ts
  <2>1. /\ us \in Seq(GoodTasks) /\ LoginBeforeClose(us)
        /\ \A k \in TaskKinds : Occ(us, Of(k)) = Occ(ts, Of(k))
        /\ \A n \in Msgs : Occ(us, {Release(n)}) = Occ(ts, {Release(n)})
                             + (IF n = m THEN 1 ELSE 0)
    BY <1>2, PostInFront
  <2>2. tasks' = CloseTask(us) /\ UNCHANGED <<writing, pendingWrite, outputQueue>>
    BY <1>1, <1>3
  <2>. HIDE DEF us
  <2>3. /\ tasks' \in Seq(GoodTasks) /\ LoginBeforeClose(tasks')
        /\ \A k \in TaskKinds : Occ(tasks', Of(k)) = Occ(us, Of(k))
             + (IF k = "close" /\ closeState = "none" THEN 1 ELSE 0)
        /\ \A n \in Msgs : Occ(tasks', {Release(n)}) = Occ(us, {Release(n)})
    BY <2>1, <2>2, CloseTaskFacts
  <2>4. \A k \in TaskKinds : Occ(tasks', Of(k)) = Occ(ts, Of(k))
          + (IF k = "close" /\ closeState = "none" THEN 1 ELSE 0)
    BY <2>1, <2>3
  <2>5. \A n \in Msgs : Occ(tasks', {Release(n)}) = Occ(ts, {Release(n)})
                          + (IF n = m THEN 1 ELSE 0)
    BY <2>1, <2>3
  <2>. QED
    BY <1>1, <1>3, <2>2, <2>3, <2>4, <2>5
<1>4. CASE ~SendRefused
  <2>1. Transmit(m) /\ tasks' = CloseTask(ts)
    BY <1>1, <1>4
  <2>2. /\ tasks' \in Seq(GoodTasks) /\ LoginBeforeClose(tasks')
        /\ \A k \in TaskKinds : Occ(tasks', Of(k)) = Occ(ts, Of(k))
             + (IF k = "close" /\ closeState = "none" THEN 1 ELSE 0)
        /\ \A n \in Msgs : Occ(tasks', {Release(n)}) = Occ(ts, {Release(n)})
    BY <2>1, CloseTaskFacts
  <2>. QED
    BY <1>1, <1>4, <2>1, <2>2
<1>. QED
  BY <1>3, <1>4

LEMMA FinishRefuseChange ==
  ASSUME TypeOK, Logins, FinishRefuse
  PROVE  Change(0, IF closeState = "none" THEN 1 ELSE 0, 0, 0)
<1>1. tasks \in Seq(GoodTasks) /\ LoginBeforeClose(tasks) /\ pool \subseteq Msgs
  BY DEF TypeOK, Logins
<1>2. /\ tasks' \in Seq(GoodTasks) /\ LoginBeforeClose(tasks')
      /\ \A k \in TaskKinds : Occ(tasks', Of(k)) = Occ(tasks, Of(k))
           + (IF k = "close" /\ closeState = "none" THEN 1 ELSE 0)
  BY <1>1, DisconnectFacts DEF FinishRefuse
<1>. QED
  BY <1>2, KindFacts, QueuedType DEF Change, Queued

LEMMA LoginRefusedChange ==
  ASSUME TypeOK, Logins, LoginRefused
  PROVE  Change(-1, IF closeState = "none" THEN 1 ELSE 0, 0, 0)
<1>. DEFINE us == Tail(tasks)
<1>1. Run("login") /\ pool \subseteq Msgs /\ DisconnectClient(us)
  BY DEF LoginRefused, TypeOK
<1>2. /\ us \in Seq(GoodTasks) /\ LoginBeforeClose(us)
      /\ \A k \in TaskKinds :
           Occ(us, Of(k)) = Occ(tasks, Of(k)) - (IF k = "login" THEN 1 ELSE 0)
  BY <1>1, TailChange
<1>. HIDE DEF us
<1>3. /\ tasks' \in Seq(GoodTasks) /\ LoginBeforeClose(tasks')
      /\ \A k \in TaskKinds : Occ(tasks', Of(k)) = Occ(us, Of(k))
           + (IF k = "close" /\ closeState = "none" THEN 1 ELSE 0)
  BY <1>1, <1>2, DisconnectFacts
<1>4. /\ Occ(us, Of("login")) = Queued("login") - 1
      /\ Occ(us, Of("close")) = Queued("close")
      /\ Occ(us, Of("releaseProtocol")) = Queued("releaseProtocol")
      /\ Occ(us, Of("releaseConnection")) = Queued("releaseConnection")
  BY <1>2, KindFacts, QueuedType DEF Queued
<1>5. /\ Occ(tasks', Of("login")) = Occ(us, Of("login")) + 0
      /\ Occ(tasks', Of("close")) = Occ(us, Of("close"))
           + (IF closeState = "none" THEN 1 ELSE 0)
      /\ Occ(tasks', Of("releaseProtocol")) = Occ(us, Of("releaseProtocol")) + 0
      /\ Occ(tasks', Of("releaseConnection")) = Occ(us, Of("releaseConnection")) + 0
  BY <1>3, KindFacts
<1>. QED
  BY <1>3, <1>4, <1>5, QueuedType DEF Change

LEMMA SendMessageChange ==
  ASSUME TypeOK, Logins, SendMessage
  PROVE  Change(0, 0, 0, 0)
<1>1. CASE SendRefused
  <2>1. /\ tasks \in Seq(GoodTasks) /\ LoginBeforeClose(tasks) /\ Head(todo) \in Msgs
        /\ tasks' = <<Release(Head(todo))>> \o tasks
    BY <1>1 DEF SendMessage, TypeOK, Logins
  <2>. QED
    BY <2>1, PostInFront, KindFacts, QueuedType DEF Change, Queued
<1>2. CASE ~SendRefused
  BY <1>2, NoTaskChange DEF SendMessage
<1>. QED
  BY <1>1, <1>2

LEMMA TimerChange ==
  ASSUME TypeOK, Logins, NEW kind \in timers, tasks' = Append(tasks, Task(kind))
  PROVE  /\ kind \in {"releaseProtocol", "releaseConnection"}
         /\ Change(0, 0, IF kind = "releaseProtocol" THEN 1 ELSE 0,
                   IF kind = "releaseConnection" THEN 1 ELSE 0)
         /\ NoneReleased
<1>1. /\ tasks \in Seq(GoodTasks) /\ LoginBeforeClose(tasks)
      /\ kind \in {"releaseProtocol", "releaseConnection"}
      /\ kind \in TaskKinds /\ kind # "login"
  BY KindFacts DEF TypeOK, Logins
<1>2. /\ tasks' \in Seq(GoodTasks) /\ LoginBeforeClose(tasks') /\ NoneReleased
      /\ \A k \in TaskKinds :
           Occ(tasks', Of(k)) = Occ(tasks, Of(k)) + (IF k = kind THEN 1 ELSE 0)
  BY <1>1, PostBehind DEF NoneReleased
<1>. QED
  BY <1>1, <1>2, KindFacts, QueuedType DEF Change, Queued
-----------------------------------------------------------------------------
(* The messages and the references they count. *)
MsgTypes ==
  /\ connRefs \in Nat /\ protoRefs \in Nat /\ outputBuffer \in Msgs \cup {NoMsg}
  /\ pool \subseteq Msgs /\ autoSend \in Seq(Msgs) /\ old \subseteq Msgs
  /\ todo \in Seq(Msgs)
Held == Owners /\ RefsCountMessages

LEMMA UsesType ==
  ASSUME TypeOK, Logins
  PROVE  /\ \A m \in Msgs : Uses(m) \in Nat
         /\ \A m \in Msgs : Occ(outputQueue, {m}) \in Nat
         /\ \A m \in Msgs : Occ(autoSend, {m}) \in Nat
         /\ \A m \in Msgs : Occ(todo, {m}) \in Nat
         /\ \A m \in Msgs : Occ(tasks, {Release(m)}) \in Nat
<1>1. ASSUME NEW m \in Msgs
      PROVE  /\ Occ(outputQueue, {m}) \in Nat /\ Occ(autoSend, {m}) \in Nat
             /\ Occ(tasks, {Release(m)}) \in Nat /\ Occ(todo, {m}) \in Nat
  BY OccType DEF TypeOK, Logins
<1>2. \A m \in Msgs : Uses(m) \in Nat
  <2>1. ASSUME NEW m \in Msgs
        PROVE  Uses(m) \in Nat
    BY <1>1 DEF Uses
  <2>. QED
    BY <2>1
<1>. QED
  BY <1>1, <1>2

(* A message that leaves the pool is referred to by one more ... *)
LEMMA AllocateFacts ==
  ASSUME TypeOK, Held, NEW m \in Msgs, Allocate(m)
  PROVE  /\ m \in pool /\ pool' = pool \ {m} /\ pool' \subseteq Msgs
         /\ connRefs' \in Nat /\ protoRefs' \in Nat /\ RefsCountMessages'
         /\ Uses(m) <= 0
<1>1. /\ m \in pool /\ pool' = pool \ {m}
      /\ connRefs' = connRefs + 1 /\ protoRefs' = protoRefs + 1
  BY DEF Allocate
<1>2. /\ pool \subseteq Msgs /\ connRefs \in Nat /\ protoRefs = connRefs
      /\ connRefs = Cardinality(Msgs \ pool)
  BY DEF TypeOK, Held, RefsCountMessages
<1>3. IsFiniteSet(Msgs \ pool) /\ m \notin Msgs \ pool
  BY <1>1, ConstantsAssumption, FS_Subset
<1>4. Msgs \ pool' = (Msgs \ pool) \cup {m}
  BY <1>1
<1>5. Cardinality(Msgs \ pool') = Cardinality(Msgs \ pool) + 1
  BY <1>3, <1>4, FS_AddElement
<1>6. RefsCountMessages'
  BY <1>1, <1>2, <1>5 DEF RefsCountMessages
<1>. QED
  BY <1>1, <1>2, <1>6 DEF Held, Owners

(* ... and one that comes back by one less. *)
LEMMA ReleaseFacts ==
  ASSUME TypeOK, Held, NEW m \in Msgs, m \notin pool,
         pool' = pool \cup {m}, connRefs' = connRefs - 1, protoRefs' = protoRefs - 1
  PROVE  /\ pool' \subseteq Msgs /\ RefsCountMessages'
         /\ connRefs' \in Nat /\ protoRefs' \in Nat
<1>1. /\ pool \subseteq Msgs /\ connRefs \in Nat /\ protoRefs = connRefs
      /\ connRefs = Cardinality(Msgs \ pool)
  BY DEF TypeOK, Held, RefsCountMessages
<1>2. IsFiniteSet(Msgs \ pool) /\ m \in Msgs \ pool
  BY ConstantsAssumption, FS_Subset
<1>3. Msgs \ pool' = (Msgs \ pool) \ {m}
  OBVIOUS
<1>4. Cardinality(Msgs \ pool') = Cardinality(Msgs \ pool) - 1
  BY <1>2, <1>3, FS_RemoveElement
<1>5. IsFiniteSet(Msgs \ pool') /\ Cardinality(Msgs \ pool') \in Nat
  BY ConstantsAssumption, FS_Subset, FS_CardinalityType
<1>. QED
  BY <1>1, <1>4, <1>5 DEF RefsCountMessages

LEMMA TransmitQueue ==
  ASSUME outputQueue \in Seq(Msgs), NEW m \in Msgs, Transmit(m)
  PROVE  outputQueue' \in Seq(Msgs)
  BY DEF Transmit, Queue

(* send() makes the socket or the queue use the message once more.         *)
LEMMA TransmitUses ==
  ASSUME TypeOK, Output, ~SendRefused, NEW m \in Msgs, Transmit(m), NEW n \in Msgs
  PROVE  (IF writing' = n THEN 1 ELSE 0) + Occ(outputQueue', {n})
           = (IF writing = n THEN 1 ELSE 0) + Occ(outputQueue, {n}) + (IF n = m THEN 1 ELSE 0)
<1>1. outputQueue \in Seq(Msgs) /\ Occ(outputQueue, {n}) \in Nat /\ NoMsg \notin Msgs
  BY OccType, ConstantsAssumption DEF TypeOK
<1>2. CASE pendingWrite = 0
  <2>1. writing = NoMsg
    BY <1>2, MayCloseFacts
  <2>2. writing' = m /\ outputQueue' = outputQueue
    BY <1>2 DEF Transmit
  <2>. QED
    BY <1>1, <2>1, <2>2
<1>3. CASE pendingWrite # 0
  <2>1. writing' = writing /\ outputQueue' = Append(outputQueue, m)
    BY <1>3 DEF Transmit, Queue
  <2>2. Occ(outputQueue', {n}) = Occ(outputQueue, {n}) + (IF m \in {n} THEN 1 ELSE 0)
    BY <1>1, <2>1, OccAppend
  <2>. QED
    BY <1>1, <2>1, <2>2
<1>. QED
  BY <1>2, <1>3

refVars == <<connRefs, protoRefs, outputBuffer, pool, autoSend>>

(* A step that leaves the references and the lists alone, and uses no      *)
(* message once more than before, keeps the owners.                        *)
LEMMA HeldKept ==
  ASSUME TypeOK, Logins, Held, UNCHANGED refVars,
         \A m \in Msgs : Uses(m)' \in Int /\ Uses(m)' <= Uses(m),
         \/ disPc' # "sending"
         \/ disPc = "sending" /\ UNCHANGED todo
  PROVE  Held'
<1>1. /\ connRefs' = connRefs /\ protoRefs' = protoRefs /\ outputBuffer' = outputBuffer
      /\ pool' = pool /\ autoSend' = autoSend
  BY DEF refVars
<1>2. RefsCountMessages'
  BY <1>1 DEF Held, RefsCountMessages
<1>3. \A m \in Msgs : Uses(m)' <= (IF m \in pool' THEN 0 ELSE 1)
  <2>1. ASSUME NEW m \in Msgs
        PROVE  Uses(m)' <= (IF m \in pool' THEN 0 ELSE 1)
    <3>1. Uses(m)' <= Uses(m) /\ Uses(m) <= (IF m \in pool THEN 0 ELSE 1) /\ Uses(m) \in Nat
      BY UsesType DEF Held, Owners
    <3>. QED
      BY <1>1, <3>1
  <2>. QED
    BY <2>1
<1>4. (disPc = "sending" => \A m \in Msgs : Occ(todo, {m}) <= Occ(autoSend, {m}))'
  BY <1>1 DEF Held, Owners
<1>5. (outputBuffer # NoMsg => Occ(autoSend, {outputBuffer}) > 0)'
  BY <1>1 DEF Held, Owners
<1>. QED
  BY <1>2, <1>3, <1>4, <1>5 DEF Held, Owners

LEMMA HeldQuiet ==
  ASSUME TypeOK, Logins, Held, UNCHANGED refVars, UNCHANGED <<writing, outputQueue>>,
         NoneReleased,
         \/ disPc' # "sending"
         \/ disPc = "sending" /\ UNCHANGED todo
  PROVE  Held'
<1>1. ASSUME NEW m \in Msgs
      PROVE  Uses(m)' \in Int /\ Uses(m)' <= Uses(m)
  <2>1. Uses(m)' = Uses(m)
    BY DEF Uses, NoneReleased, refVars
  <2>. QED
    BY <2>1, UsesType
<1>. QED
  BY <1>1, HeldKept

(* The two ends of a write: the socket's message is released next. *)
LEMMA WriteDoneHeld ==
  ASSUME TypeOK, Logins, Output, Held, WriteDone
  PROVE  Held'
<1>1. /\ writing # NoMsg /\ writing \in Msgs /\ outputQueue \in Seq(Msgs)
      /\ UNCHANGED refVars /\ todo' = todo /\ disPc' = disPc /\ NoMsg \notin Msgs
  BY ConstantsAssumption DEF WriteDone, refVars, msgVars, TypeOK
<1>2. \A m \in Msgs : Occ(tasks', {Release(m)}) = Occ(tasks, {Release(m)})
                        + (IF m = writing THEN 1 ELSE 0)
  BY WriteDoneChange
<1>3. ASSUME NEW m \in Msgs
      PROVE  Uses(m)' \in Int /\ Uses(m)' <= Uses(m)
  <2>1. Occ(autoSend', {m}) = Occ(autoSend, {m})
    BY <1>1 DEF refVars
  <2>2. CASE outputQueue # <<>>
    <3>1. writing' = Head(outputQueue) /\ outputQueue' = Tail(outputQueue)
      BY <2>2 DEF WriteDone
    <3>2. Occ(outputQueue, {m}) = Occ(outputQueue', {m}) + (IF writing' \in {m} THEN 1 ELSE 0)
      BY <1>1, <2>2, <3>1, OccTail
    <3>3. outputQueue' \in Seq(Msgs)
      BY <1>1, <2>2, <3>1
    <3>4. Occ(outputQueue', {m}) \in Nat
      BY <3>3, OccType
    <3>. QED
      BY <1>2, <2>1, <3>2, <3>4, UsesType DEF Uses
  <2>3. CASE outputQueue = <<>>
    <3>1. writing' = NoMsg /\ outputQueue' = outputQueue
      BY <2>3 DEF WriteDone
    <3>2. Occ(outputQueue', {m}) = Occ(outputQueue, {m}) /\ writing' # m
      BY <1>1, <3>1
    <3>. QED
      BY <1>2, <2>1, <3>2, UsesType DEF Uses
  <2>. QED
    BY <2>2, <2>3
<1>4. Held'
  <2>1. disPc' # "sending" \/ (disPc = "sending" /\ UNCHANGED todo)
    BY <1>1
  <2>. QED
    BY <1>1, <1>3, <2>1, HeldKept
<1>. QED
  BY <1>4

LEMMA WriteErrorHeld ==
  ASSUME TypeOK, Logins, Output, Held, WriteError
  PROVE  Held'
<1>1. /\ writing # NoMsg /\ writing \in Msgs /\ writing' = NoMsg /\ outputQueue' = outputQueue
      /\ UNCHANGED refVars /\ todo' = todo /\ disPc' = disPc /\ NoMsg \notin Msgs
  BY ConstantsAssumption DEF WriteError, refVars, msgVars, TypeOK
<1>2. \A m \in Msgs : Occ(tasks', {Release(m)}) = Occ(tasks, {Release(m)})
                        + (IF m = writing THEN 1 ELSE 0)
  BY WriteErrorChange
<1>3. ASSUME NEW m \in Msgs
      PROVE  Uses(m)' \in Int /\ Uses(m)' <= Uses(m)
  <2>1. Occ(autoSend', {m}) = Occ(autoSend, {m}) /\ writing' # m
        /\ Occ(outputQueue', {m}) = Occ(outputQueue, {m})
    BY <1>1 DEF refVars
  <2>. QED
    BY <1>2, <2>1, UsesType DEF Uses
<1>4. disPc' # "sending" \/ (disPc = "sending" /\ UNCHANGED todo)
  BY <1>1
<1>. QED
  BY <1>1, <1>3, <1>4, HeldKept

(* A message is taken from the pool and used by one list, write or task.   *)
LEMMA HeldTaken ==
  ASSUME TypeOK, Logins, Held, NEW m \in Msgs, Allocate(m),
         \A n \in Msgs : Uses(n)' = Uses(n) + (IF n = m THEN 1 ELSE 0),
         \A n \in Msgs : Occ(autoSend', {n}) \in Int /\ Occ(autoSend', {n}) >= Occ(autoSend, {n}),
         \/ disPc' # "sending"
         \/ disPc = "sending" /\ UNCHANGED todo,
         outputBuffer' # NoMsg =>
           \/ outputBuffer' = outputBuffer
           \/ outputBuffer' = m /\ Occ(autoSend', {m}) > 0
  PROVE  Held'
<1>1. /\ m \in pool /\ pool' = pool \ {m} /\ RefsCountMessages' /\ Uses(m) <= 0
  BY AllocateFacts
<1>2. \A n \in Msgs : Uses(n)' <= (IF n \in pool' THEN 0 ELSE 1)
  <2>1. ASSUME NEW n \in Msgs
        PROVE  Uses(n)' <= (IF n \in pool' THEN 0 ELSE 1)
    <3>1. Uses(n) \in Nat /\ Uses(n) <= (IF n \in pool THEN 0 ELSE 1)
          /\ Uses(n)' = Uses(n) + (IF n = m THEN 1 ELSE 0)
      BY UsesType DEF Held, Owners
    <3>. QED
      BY <1>1, <3>1
  <2>. QED
    BY <2>1
<1>3. (disPc = "sending" => \A n \in Msgs : Occ(todo, {n}) <= Occ(autoSend, {n}))'
  <2>1. ASSUME disPc' = "sending", NEW n \in Msgs
        PROVE  Occ(todo', {n}) <= Occ(autoSend', {n})
    <3>1. /\ Occ(todo', {n}) = Occ(todo, {n}) /\ Occ(todo, {n}) <= Occ(autoSend, {n})
          /\ Occ(todo, {n}) \in Nat /\ Occ(autoSend, {n}) \in Nat
          /\ Occ(autoSend', {n}) \in Int /\ Occ(autoSend', {n}) >= Occ(autoSend, {n})
      BY <2>1, UsesType DEF Held, Owners
    <3>. QED
      BY <3>1
  <2>. QED
    BY <2>1
<1>4. (outputBuffer # NoMsg => Occ(autoSend, {outputBuffer}) > 0)'
  <2>1. ASSUME outputBuffer' # NoMsg, outputBuffer' = outputBuffer
        PROVE  Occ(autoSend', {outputBuffer'}) > 0
    <3>1. outputBuffer \in Msgs /\ Occ(autoSend, {outputBuffer}) > 0
      BY <2>1 DEF Held, Owners, TypeOK
    <3>2. /\ Occ(autoSend, {outputBuffer}) \in Nat /\ Occ(autoSend', {outputBuffer}) \in Int
          /\ Occ(autoSend', {outputBuffer}) >= Occ(autoSend, {outputBuffer})
      BY <3>1, UsesType
    <3>. QED
      BY <2>1, <3>1, <3>2
  <2>. QED
    BY <2>1
<1>. QED
  BY <1>1, <1>2, <1>3, <1>4 DEF Held, Owners

LEMMA NewBufferHeld ==
  ASSUME TypeOK, Logins, Held, NewOutputBuffer, UNCHANGED <<writing, outputQueue, tasks>>,
         \/ disPc' # "sending"
         \/ disPc = "sending" /\ UNCHANGED todo
  PROVE  /\ Held'
         /\ connRefs' \in Nat /\ protoRefs' \in Nat /\ outputBuffer' \in Msgs \cup {NoMsg}
         /\ pool' \subseteq Msgs /\ autoSend' \in Seq(Msgs) /\ old' \subseteq Msgs
<1>1. CASE ~hasConnection
  <2>1. /\ outputBuffer' = NoMsg
        /\ connRefs' = connRefs /\ protoRefs' = protoRefs /\ pool' = pool
        /\ autoSend' = autoSend /\ old' = old
    BY <1>1 DEF NewOutputBuffer
  <2>2. \A m \in Msgs : Uses(m)' = Uses(m)
    BY <2>1 DEF Uses
  <2>3. Owners'
    BY <2>1, <2>2 DEF Held, Owners
  <2>. QED
    BY <2>1, <2>3 DEF Held, RefsCountMessages, TypeOK
<1>2. CASE hasConnection
  <2>1. PICK m \in pool : /\ Allocate(m) /\ outputBuffer' = m
                          /\ autoSend' = Append(autoSend, m) /\ old' = old
    BY <1>2 DEF NewOutputBuffer
  <2>2. m \in Msgs /\ autoSend \in Seq(Msgs)
    BY <2>1 DEF TypeOK
  <2>3. autoSend' \in Seq(Msgs)
    BY <2>1, <2>2
  <2>4. ASSUME NEW n \in Msgs
        PROVE  /\ Occ(autoSend', {n}) = Occ(autoSend, {n}) + (IF n = m THEN 1 ELSE 0)
               /\ Occ(autoSend, {n}) \in Nat
    <3>1. Occ(autoSend', {n}) = Occ(autoSend, {n}) + (IF m \in {n} THEN 1 ELSE 0)
      BY <2>1, <2>2, OccAppend
    <3>. QED
      BY <3>1, UsesType
  <2>5. \A n \in Msgs : Uses(n)' = Uses(n) + (IF n = m THEN 1 ELSE 0)
    <3>1. ASSUME NEW n \in Msgs
          PROVE  Uses(n)' = Uses(n) + (IF n = m THEN 1 ELSE 0)
      <4>1. /\ writing' = writing /\ Occ(outputQueue', {n}) = Occ(outputQueue, {n})
            /\ Occ(tasks', {Release(n)}) = Occ(tasks, {Release(n)})
        OBVIOUS
      <4>. QED
        BY <2>4, <4>1, UsesType DEF Uses
    <3>. QED
      BY <3>1
  <2>6. \A n \in Msgs : Occ(autoSend', {n}) \in Int /\ Occ(autoSend', {n}) >= Occ(autoSend, {n})
    BY <2>4
  <2>7. Occ(autoSend', {m}) > 0
    BY <2>2, <2>4
  <2>8. Held'
    BY <2>1, <2>2, <2>5, <2>6, <2>7, HeldTaken
  <2>9. /\ connRefs' \in Nat /\ protoRefs' \in Nat /\ pool' \subseteq Msgs
    BY <2>1, <2>2, AllocateFacts
  <2>. QED
    BY <2>1, <2>2, <2>3, <2>8, <2>9 DEF TypeOK
<1>. QED
  BY <1>1, <1>2

LEMMA DisconnectHeld ==
  ASSUME TypeOK, Logins, Output, Held, NEW ts \in Seq(GoodTasks), LoginBeforeClose(ts),
         DisconnectClient(ts),
         \A n \in Msgs : Occ(ts, {Release(n)}) = Occ(tasks, {Release(n)}),
         \/ disPc' # "sending"
         \/ disPc = "sending" /\ UNCHANGED todo
  PROVE  /\ Held' /\ connRefs' \in Nat /\ protoRefs' \in Nat /\ pool' \subseteq Msgs
<1>1. pool \subseteq Msgs /\ outputBuffer' = outputBuffer /\ autoSend' = autoSend
  BY DEF TypeOK, DisconnectClient
<1>2. PICK m \in pool :
        /\ Allocate(m)
        /\ \/ /\ SendRefused
              /\ UNCHANGED <<writing, pendingWrite, outputQueue>>
              /\ \A n \in Msgs : Occ(tasks', {Release(n)}) = Occ(ts, {Release(n)})
                                   + (IF n = m THEN 1 ELSE 0)
           \/ /\ ~SendRefused
              /\ Transmit(m)
              /\ \A n \in Msgs : Occ(tasks', {Release(n)}) = Occ(ts, {Release(n)})
  BY <1>1, DisconnectFacts
<1>3. m \in Msgs
  BY <1>1
<1>4. \A n \in Msgs : Uses(n)' = Uses(n) + (IF n = m THEN 1 ELSE 0)
  <2>1. ASSUME NEW n \in Msgs
        PROVE  Uses(n)' = Uses(n) + (IF n = m THEN 1 ELSE 0)
    <3>0. /\ Uses(n) \in Nat /\ Occ(outputQueue, {n}) \in Nat
          /\ Occ(autoSend, {n}) \in Nat /\ Occ(tasks, {Release(n)}) \in Nat
          /\ Occ(autoSend', {n}) = Occ(autoSend, {n})
      BY <1>1, UsesType
    <3>1. CASE SendRefused
      <4>1. /\ writing' = writing /\ Occ(outputQueue', {n}) = Occ(outputQueue, {n})
            /\ Occ(autoSend', {n}) = Occ(autoSend, {n})
            /\ Occ(tasks', {Release(n)}) = Occ(tasks, {Release(n)})
                                             + (IF n = m THEN 1 ELSE 0)
        BY <1>1, <1>2, <3>1
      <4>. QED
        BY <3>0, <4>1 DEF Uses
    <3>2. CASE ~SendRefused
      <4>1. /\ (IF writing' = n THEN 1 ELSE 0) + Occ(outputQueue', {n})
                 = (IF writing = n THEN 1 ELSE 0) + Occ(outputQueue, {n})
                     + (IF n = m THEN 1 ELSE 0)
        BY <1>2, <1>3, <3>2, TransmitUses
      <4>2. /\ Occ(autoSend', {n}) = Occ(autoSend, {n})
            /\ Occ(tasks', {Release(n)}) = Occ(tasks, {Release(n)})
        BY <1>1, <1>2, <3>2
      <4>3. outputQueue' \in Seq(Msgs)
        BY <1>2, <1>3, <3>2, TransmitQueue DEF TypeOK
      <4>4. Occ(outputQueue', {n}) \in Nat
        BY <4>3, OccType
      <4>. QED
        <5>1. Uses(n)' = ((IF writing' = n THEN 1 ELSE 0) + Occ(outputQueue', {n}))
                           + Occ(autoSend', {n}) + Occ(tasks', {Release(n)})
          BY DEF Uses
        <5>2. Uses(n) = ((IF writing = n THEN 1 ELSE 0) + Occ(outputQueue, {n}))
                          + Occ(autoSend, {n}) + Occ(tasks, {Release(n)})
          BY DEF Uses
        <5>3. ((IF writing = n THEN 1 ELSE 0) + Occ(outputQueue, {n})) \in Nat
          BY <3>0
        <5>4. Uses(n)' = ((IF writing = n THEN 1 ELSE 0) + Occ(outputQueue, {n})
                            + (IF n = m THEN 1 ELSE 0))
                           + Occ(autoSend, {n}) + Occ(tasks, {Release(n)})
          BY <4>1, <4>2, <5>1
        <5>. QED
          BY <3>0, <5>2, <5>3, <5>4
    <3>. QED
      BY <3>1, <3>2
  <2>. QED
    BY <2>1
<1>5. \A n \in Msgs : Occ(autoSend', {n}) \in Int /\ Occ(autoSend', {n}) >= Occ(autoSend, {n})
  <2>1. ASSUME NEW n \in Msgs
        PROVE  Occ(autoSend', {n}) \in Int /\ Occ(autoSend', {n}) >= Occ(autoSend, {n})
    <3>1. Occ(autoSend, {n}) \in Nat /\ autoSend' = autoSend
      BY <1>1, UsesType
    <3>. QED
      BY <3>1
  <2>. QED
    BY <2>1
<1>6. Held'
  BY <1>1, <1>2, <1>3, <1>4, <1>5, HeldTaken
<1>. QED
  BY <1>2, <1>3, <1>6, AllocateFacts

(* The task that releases a message was its only user. *)
LEMMA InternalReleaseHeld ==
  ASSUME TypeOK, Logins, Held, InternalReleaseMessage
  PROVE  /\ Held' /\ connRefs' \in Nat /\ protoRefs' \in Nat /\ pool' \subseteq Msgs
         /\ old' \subseteq Msgs /\ \E m \in Msgs : m \notin pool
<1>1. /\ Run("releaseMessage") /\ tasks' = Tail(tasks) /\ old' = old \ {Head(tasks).msg}
      /\ pool' = pool \cup {Head(tasks).msg}
      /\ connRefs' = connRefs - 1 /\ protoRefs' = protoRefs - 1
      /\ outputBuffer' = outputBuffer /\ autoSend' = autoSend
      /\ writing' = writing /\ outputQueue' = outputQueue
      /\ disPc' = "frame"
  BY DEF InternalReleaseMessage, connVars, Run
<1>2. PICK m \in Msgs : Head(tasks) = Release(m) /\ Head(tasks).msg = m
  <2>1. Head(tasks) \in GoodTasks /\ Head(tasks).kind = "releaseMessage"
    BY <1>1, TailChange
  <2>. QED
    BY <2>1, TaskFacts
<1>3. ASSUME NEW n \in Msgs
      PROVE  /\ Occ(tasks', {Release(n)}) = Occ(tasks, {Release(n)})
                                              - (IF n = m THEN 1 ELSE 0)
             /\ Uses(n)' = Uses(n) - (IF n = m THEN 1 ELSE 0)
             /\ n = m => Uses(n) > 0
  <2>1. Head(tasks) = Release(n) <=> n = m
    BY <1>2, TaskFacts
  <2>2. Occ(tasks', {Release(n)}) = Occ(tasks, {Release(n)}) - (IF n = m THEN 1 ELSE 0)
    BY <1>1, <2>1, TailChange
  <2>3. /\ Occ(tasks, {Release(n)}) \in Nat /\ Uses(n) \in Nat
        /\ Occ(outputQueue, {n}) \in Nat /\ Occ(autoSend, {n}) \in Nat
    BY UsesType
  <2>4. tasks' \in Seq(GoodTasks)
    BY <1>1, TailChange
  <2>5. Occ(tasks', {Release(n)}) \in Nat
    BY <2>4, OccType
  <2>6. n = m => Uses(n) > 0
    BY <2>2, <2>3, <2>5 DEF Uses
  <2>7. Uses(n)' = Uses(n) - (IF n = m THEN 1 ELSE 0)
    BY <1>1, <2>2, <2>3 DEF Uses
  <2>. QED
    BY <2>2, <2>6, <2>7
<1>4. m \notin pool /\ Uses(m) <= 1
  <2>1. Uses(m) \in Nat /\ Uses(m) > 0 /\ Uses(m) <= (IF m \in pool THEN 0 ELSE 1)
    BY <1>3, UsesType DEF Held, Owners
  <2>. QED
    BY <2>1
<1>5. /\ pool' \subseteq Msgs /\ RefsCountMessages' /\ connRefs' \in Nat /\ protoRefs' \in Nat
  BY <1>1, <1>2, <1>4, ReleaseFacts
<1>6. \A n \in Msgs : Uses(n)' <= (IF n \in pool' THEN 0 ELSE 1)
  <2>1. ASSUME NEW n \in Msgs
        PROVE  Uses(n)' <= (IF n \in pool' THEN 0 ELSE 1)
    <3>1. /\ Uses(n) \in Nat /\ Uses(n) <= (IF n \in pool THEN 0 ELSE 1)
          /\ Uses(n)' = Uses(n) - (IF n = m THEN 1 ELSE 0)
      BY <1>3, UsesType DEF Held, Owners
    <3>. QED
      BY <1>1, <1>2, <1>4, <3>1
  <2>. QED
    BY <2>1
<1>7. Owners'
  BY <1>1, <1>6 DEF Held, Owners
<1>. QED
  BY <1>1, <1>4, <1>5, <1>7 DEF Held, TypeOK

(* m_autoSend.erase takes one entry, the message's, away. *)
LEMMA ErasedFacts ==
  ASSUME autoSend \in Seq(Msgs), NEW m \in Msgs, Occ(autoSend, {m}) > 0
  PROVE  /\ Erased(m) \in Seq(Msgs)
         /\ \A n \in Msgs :
              Occ(autoSend, {n}) = Occ(Erased(m), {n}) + (IF n = m THEN 1 ELSE 0)
<1>1. \E j \in 1 .. Len(autoSend) : autoSend[j] = m
  BY OccType
<1>. DEFINE i == CHOOSE j \in 1 .. Len(autoSend) : autoSend[j] = m
<1>2. i \in 1 .. Len(autoSend) /\ autoSend[i] = m
  BY <1>1
<1>3. Erased(m) = Dropped(autoSend, i)
  BY DEF Erased, Dropped
<1>. HIDE DEF i
<1>4. ASSUME NEW n \in Msgs
      PROVE  Occ(autoSend, {n}) = Occ(Erased(m), {n}) + (IF n = m THEN 1 ELSE 0)
  <2>1. Occ(autoSend, {n}) = Occ(Dropped(autoSend, i), {n})
                               + (IF autoSend[i] \in {n} THEN 1 ELSE 0)
    BY <1>2, OccDropped
  <2>. QED
    BY <1>2, <1>3, <2>1
<1>. QED
  BY <1>2, <1>3, <1>4, OccDropped

LEMMA SendMessageHeld ==
  ASSUME TypeOK, Logins, Output, Held, SendMessage
  PROVE  /\ Held' /\ outputBuffer' \in Msgs \cup {NoMsg} /\ autoSend' \in Seq(Msgs)
         /\ todo' \in Seq(Msgs)
<1>. DEFINE m == Head(todo)
<1>1. /\ disPc = "sending" /\ disPc' = disPc /\ todo # <<>> /\ todo \in Seq(Msgs)
      /\ outputBuffer' = (IF outputBuffer = m THEN NoMsg ELSE outputBuffer)
      /\ autoSend' = Erased(m) /\ todo' = Tail(todo)
      /\ connRefs' = connRefs /\ protoRefs' = protoRefs /\ pool' = pool
      /\ autoSend \in Seq(Msgs) /\ outputBuffer \in Msgs \cup {NoMsg}
  BY DEF SendMessage, TypeOK
<1>2. m \in Msgs /\ todo' \in Seq(Msgs)
  BY <1>1
<1>. HIDE DEF m
<1>3. ASSUME NEW n \in Msgs
      PROVE  /\ Occ(todo, {n}) = Occ(todo', {n}) + (IF n = m THEN 1 ELSE 0)
             /\ Occ(todo', {n}) \in Nat /\ Occ(todo, {n}) <= Occ(autoSend, {n})
             /\ Occ(autoSend, {n}) \in Nat
  <2>1. Occ(todo, {n}) = Occ(todo', {n}) + (IF m \in {n} THEN 1 ELSE 0)
    BY <1>1, OccTail DEF m
  <2>2. Occ(todo', {n}) \in Nat /\ Occ(autoSend, {n}) \in Nat
    BY <1>1, <1>2, OccType
  <2>3. Occ(todo, {n}) <= Occ(autoSend, {n})
    BY <1>1 DEF Held, Owners
  <2>. QED
    BY <2>1, <2>2, <2>3
<1>4. Occ(autoSend, {m}) > 0
  <2>1. /\ Occ(todo, {m}) = Occ(todo', {m}) + 1 /\ Occ(todo', {m}) \in Nat
        /\ Occ(todo, {m}) <= Occ(autoSend, {m}) /\ Occ(autoSend, {m}) \in Nat
    BY <1>2, <1>3
  <2>. QED
    BY <2>1
<1>5. /\ autoSend' \in Seq(Msgs)
      /\ \A n \in Msgs :
           Occ(autoSend, {n}) = Occ(autoSend', {n}) + (IF n = m THEN 1 ELSE 0)
  BY <1>1, <1>2, <1>4, ErasedFacts
<1>6. ASSUME NEW n \in Msgs
      PROVE  Uses(n)' = Uses(n)
  <2>0. /\ Uses(n) \in Nat /\ Occ(outputQueue, {n}) \in Nat /\ Occ(autoSend, {n}) \in Nat
        /\ Occ(tasks, {Release(n)}) \in Nat
    BY UsesType
  <2>1. Occ(autoSend', {n}) \in Nat
    BY <1>5, OccType
  <2>2. Occ(autoSend, {n}) = Occ(autoSend', {n}) + (IF n = m THEN 1 ELSE 0)
    BY <1>5
  <2>3. CASE SendRefused
    <3>1. /\ tasks' = <<Release(m)>> \o tasks /\ writing' = writing
          /\ outputQueue' = outputQueue /\ tasks \in Seq(GoodTasks)
      BY <2>3 DEF SendMessage, Logins, m
    <3>2. Occ(tasks', {Release(n)}) = Occ(tasks, {Release(n)}) + (IF n = m THEN 1 ELSE 0)
      BY <1>2, <3>1, PostInFront
    <3>3. Uses(n)' = (IF writing = n THEN 1 ELSE 0) + Occ(outputQueue, {n})
                       + Occ(autoSend', {n}) + Occ(tasks', {Release(n)})
      BY <3>1 DEF Uses
    <3>4. Uses(n) = (IF writing = n THEN 1 ELSE 0) + Occ(outputQueue, {n})
                      + Occ(autoSend, {n}) + Occ(tasks, {Release(n)})
      BY DEF Uses
    <3>5. ((IF writing = n THEN 1 ELSE 0) + Occ(outputQueue, {n})) \in Nat
      BY <2>0
    <3>. QED
      BY <2>0, <2>1, <2>2, <3>2, <3>3, <3>4, <3>5
  <2>4. CASE ~SendRefused
    <3>1. Transmit(m) /\ tasks' = tasks /\ outputQueue \in Seq(Msgs)
      BY <2>4 DEF SendMessage, TypeOK, m
    <3>2. (IF writing' = n THEN 1 ELSE 0) + Occ(outputQueue', {n})
            = (IF writing = n THEN 1 ELSE 0) + Occ(outputQueue, {n})
                + (IF n = m THEN 1 ELSE 0)
      BY <1>2, <2>4, <3>1, TransmitUses
    <3>3. outputQueue' \in Seq(Msgs)
      BY <1>2, <3>1, TransmitQueue
    <3>4. Occ(outputQueue', {n}) \in Nat
      BY <3>3, OccType
    <3>5. Uses(n)' = ((IF writing' = n THEN 1 ELSE 0) + Occ(outputQueue', {n}))
                       + Occ(autoSend', {n}) + Occ(tasks, {Release(n)})
      BY <3>1 DEF Uses
    <3>6. Uses(n) = ((IF writing = n THEN 1 ELSE 0) + Occ(outputQueue, {n}))
                      + Occ(autoSend, {n}) + Occ(tasks, {Release(n)})
      BY DEF Uses
    <3>7. ((IF writing = n THEN 1 ELSE 0) + Occ(outputQueue, {n})) \in Nat
      BY <2>0
    <3>8. Uses(n)' = ((IF writing = n THEN 1 ELSE 0) + Occ(outputQueue, {n})
                        + (IF n = m THEN 1 ELSE 0))
                       + Occ(autoSend', {n}) + Occ(tasks, {Release(n)})
      BY <3>2, <3>5
    <3>. QED
      BY <2>0, <2>1, <2>2, <3>6, <3>7, <3>8
  <2>. QED
    BY <2>3, <2>4
<1>7. RefsCountMessages'
  BY <1>1 DEF Held, RefsCountMessages
<1>8. \A n \in Msgs : Uses(n)' <= (IF n \in pool' THEN 0 ELSE 1)
  BY <1>1, <1>6 DEF Held, Owners
<1>9. \A n \in Msgs : Occ(todo', {n}) <= Occ(autoSend', {n})
  <2>1. ASSUME NEW n \in Msgs
        PROVE  Occ(todo', {n}) <= Occ(autoSend', {n})
    <3>1. Occ(autoSend', {n}) \in Nat
      BY <1>5, OccType
    <3>2. /\ Occ(todo, {n}) = Occ(todo', {n}) + (IF n = m THEN 1 ELSE 0)
          /\ Occ(todo', {n}) \in Nat /\ Occ(todo, {n}) <= Occ(autoSend, {n})
          /\ Occ(autoSend, {n}) = Occ(autoSend', {n}) + (IF n = m THEN 1 ELSE 0)
      BY <1>3, <1>5
    <3>. QED
      BY <3>1, <3>2
  <2>. QED
    BY <2>1
<1>10. (outputBuffer # NoMsg => Occ(autoSend, {outputBuffer}) > 0)'
  <2>1. ASSUME outputBuffer' # NoMsg
        PROVE  Occ(autoSend', {outputBuffer'}) > 0
    <3>1. outputBuffer' = outputBuffer /\ outputBuffer # m /\ outputBuffer \in Msgs
      BY <1>1, <2>1 DEF m
    <3>2. Occ(autoSend, {outputBuffer}) > 0
      BY <2>1, <3>1 DEF Held, Owners
    <3>3. Occ(autoSend', {outputBuffer}) \in Nat
      BY <1>5, OccType
    <3>4. Occ(autoSend, {outputBuffer}) = Occ(autoSend', {outputBuffer}) + 0
      BY <1>5, <3>1
    <3>5. Occ(autoSend', {outputBuffer}) > 0
      BY <3>2, <3>3, <3>4
    <3>. QED
      BY <3>1, <3>5
  <2>. QED
    BY <2>1
<1>11. outputBuffer' \in Msgs \cup {NoMsg}
  BY <1>1
<1>. QED
  BY <1>2, <1>5, <1>7, <1>8, <1>9, <1>10, <1>11 DEF Held, Owners
-----------------------------------------------------------------------------
(* Every step keeps the output complete ... *)
OutTypes ==
  /\ closeState \in {"none", "requested", "closing"}
  /\ pendingWrite \in Nat /\ writing \in Msgs \cup {NoMsg} /\ outputQueue \in Seq(Msgs)
  /\ socketClosed \in BOOLEAN /\ writeError \in BOOLEAN /\ accepted \in Seq(Msgs)

(* The steps that leave the output alone, and those that only call close().*)
OutputAlone ==
  \/ ParseHeader \/ ParseLogin \/ ParseAndRefuse \/ ParsePacket \/ ParseAndAnswer
  \/ FinishAnswer \/ ReleaseProtocol \/ ReleaseConnection \/ InternalReleaseMessage
  \/ LoginAccepted \/ GameOutput \/ FinishOutput \/ Other
  \/ BeginSendAll \/ SkipMessage \/ EndSendAll \/ Timer \/ Age
OnlyCloses == ReadError \/ ParseUnknownProtocol \/ ParseAndClose \/ GameClose

LEMMA OutputAloneFacts ==
  ASSUME OutputAlone
  PROVE  UNCHANGED <<outVars, socketClosed, closeState>>
<1>1. CASE ParseHeader \/ ParseLogin \/ ParseAndRefuse \/ ParsePacket \/ ParseAndAnswer
  BY <1>1 DEF ParseHeader, ParseLogin, ParseAndRefuse, ParsePacket, ParseAndAnswer,
              connVars, outVars
<1>2. CASE FinishAnswer \/ GameOutput \/ FinishOutput \/ Other
  BY <1>2 DEF FinishAnswer, GameOutput, FinishOutput, Other, connVars, outVars
<1>3. CASE ReleaseProtocol \/ ReleaseConnection \/ InternalReleaseMessage \/ LoginAccepted
  BY <1>3 DEF ReleaseProtocol, ReleaseConnection, InternalReleaseMessage, LoginAccepted,
              connVars, outVars
<1>4. CASE BeginSendAll \/ SkipMessage \/ EndSendAll \/ Timer \/ Age
  BY <1>4 DEF BeginSendAll, SkipMessage, EndSendAll, Timer, Age, connVars, outVars
<1>. QED
  BY <1>1, <1>2, <1>3, <1>4 DEF OutputAlone

LEMMA OnlyClosesFacts ==
  ASSUME OnlyCloses
  PROVE  /\ UNCHANGED <<outVars, socketClosed>> /\ UNCHANGED msgVars
         /\ tasks' = CloseTask(tasks) /\ closeState' = CloseRequested
         /\ UNCHANGED <<timers, connection>>
  BY DEF OnlyCloses, ReadError, ParseUnknownProtocol, ParseAndClose, GameClose, outVars

LEMMA NextSplit ==
  ASSUME Next
  PROVE  \/ OutputAlone \/ OnlyCloses
         \/ ReadWhileClosing \/ CloseConnectionTask \/ FinishRefuse \/ LoginRefused
         \/ WriteDone \/ WriteError \/ SendMessage
  BY DEF Next, NetworkThread, ConnectionTask, SendAll, OutputAlone, OnlyCloses

LEMMA OutputNext ==
  ASSUME TypeOK, Output, [Next]_vars
  PROVE  Output' /\ OutTypes'
<1>0. OutTypes /\ CloseRequested \in {"none", "requested", "closing"}
      /\ (closeState = "closing" => CloseRequested = "closing")
  BY DEF TypeOK, OutTypes, CloseRequested
<1>1. ASSUME UNCHANGED <<outVars, socketClosed, closeState>>
      PROVE  Output' /\ OutTypes'
  BY <1>0, <1>1, OtherOutput DEF OutTypes, outVars
<1>2. CASE OutputAlone
  BY <1>1, <1>2, OutputAloneFacts
<1>3. CASE UNCHANGED vars
  BY <1>1, <1>3 DEF vars, connVars, outVars
<1>4. CASE OnlyCloses
  <2>1. UNCHANGED <<outVars, socketClosed>> /\ closeState' = CloseRequested
    BY <1>4, OnlyClosesFacts
  <2>. QED
    BY <1>0, <2>1, OtherOutput DEF OutTypes, outVars
<1>5. CASE ReadWhileClosing
  <2>1. /\ UNCHANGED outVars /\ closeState = "closing" /\ closeState' = closeState
        /\ ClosingConnection(pendingWrite, writeError, "none", tasks)
    BY <1>5 DEF ReadWhileClosing, outVars
  <2>2. socketClosed' = (socketClosed \/ MayClose(pendingWrite, writeError))
        /\ socketClosed' \in BOOLEAN
    BY <2>1, ClosingSocket DEF ClosingConnection
  <2>3. Output'
    BY <2>1, <2>2, OtherOutput
  <2>. QED
    BY <1>0, <2>1, <2>2, <2>3 DEF OutTypes, outVars
<1>6. CASE CloseConnectionTask
  <2>1. UNCHANGED outVars
    BY <1>6 DEF CloseConnectionTask, outVars
  <2>2. CASE closeState = "requested"
    <3>1. /\ closeState' = "closing"
          /\ \E ts : ClosingConnection(pendingWrite, writeError, reading, ts)
      BY <1>6, <2>2 DEF CloseConnectionTask
    <3>2. socketClosed' = (socketClosed \/ MayClose(pendingWrite, writeError))
          /\ socketClosed' \in BOOLEAN
      BY <3>1, ClosingSocket DEF ClosingConnection
    <3>3. Output'
      BY <2>1, <3>1, <3>2, OtherOutput
    <3>. QED
      BY <1>0, <2>1, <3>1, <3>2, <3>3 DEF OutTypes, outVars
  <2>3. CASE closeState # "requested"
    <3>1. UNCHANGED <<socketClosed, closeState>>
      BY <1>6, <2>3 DEF CloseConnectionTask
    <3>. QED
      BY <1>1, <2>1, <3>1
  <2>. QED
    BY <2>2, <2>3
<1>7. CASE FinishRefuse \/ LoginRefused
  <2>1. /\ \E ts : DisconnectClient(ts)
        /\ UNCHANGED <<socketClosed, writeError>>
    BY <1>7 DEF FinishRefuse, LoginRefused
  <2>2. Output' /\ writing' \in Msgs \cup {NoMsg} /\ outputQueue' \in Seq(Msgs)
                /\ pendingWrite' \in Nat /\ accepted' \in Seq(Msgs)
    BY <2>1, DisconnectOutput
  <2>3. closeState' = CloseRequested
    BY <2>1 DEF DisconnectClient
  <2>. QED
    BY <1>0, <2>1, <2>2, <2>3 DEF OutTypes
<1>8. CASE WriteDone
  <2>1. closeState' = closeState /\ writeError' = writeError
    BY <1>8 DEF WriteDone
  <2>. QED
    BY <1>0, <1>8, <2>1, WriteDoneOutput DEF OutTypes
<1>9. CASE WriteError
  <2>1. closeState' = CloseRequested /\ writeError' = TRUE
    BY <1>9 DEF WriteError
  <2>. QED
    BY <1>0, <1>9, <2>1, WriteErrorOutput DEF OutTypes
<1>10. CASE SendMessage
  <2>1. UNCHANGED <<closeState, socketClosed, writeError>>
    BY <1>10 DEF SendMessage
  <2>2. CASE SendRefused
    <3>1. UNCHANGED outVars
      BY <1>10, <2>1, <2>2 DEF SendMessage, outVars
    <3>. QED
      BY <1>1, <2>1, <3>1
  <2>3. CASE ~SendRefused
    <3>1. Head(todo) \in Msgs /\ Transmit(Head(todo))
      BY <1>10, <2>3 DEF SendMessage, TypeOK
    <3>2. Output' /\ writing' \in Msgs /\ outputQueue' \in Seq(Msgs)
                  /\ pendingWrite' \in Nat /\ accepted' \in Seq(Msgs)
      BY <2>1, <2>3, <3>1, TransmitOutput
    <3>. QED
      BY <1>0, <2>1, <3>2 DEF OutTypes
  <2>. QED
    BY <2>2, <2>3
<1>. QED
  BY <1>2, <1>3, <1>4, <1>5, <1>6, <1>7, <1>8, <1>9, <1>10, NextSplit

(* The first packet finds a connection that nobody has asked to close.     *)
LEMMA FirstPacket ==
  ASSUME TypeOK, Handshake, Early, PacketRead, ~hasProtocol
  PROVE  protocol = "none" /\ closeState = "none" /\ Queued("close") = 0
<1>1. protocol = "none" /\ closeState # "closing" /\ reading = "body"
  BY DEF Handshake, PacketRead
<1>2. closeState = "none"
  BY <1>1 DEF Early, TypeOK
<1>. QED
  BY <1>1, <1>2 DEF Handshake

(* ... and every message with one user, and counted. *)
LEMMA MessagesNext ==
  ASSUME TypeOK, Logins, Output, Held, Handshake, Early, [Next]_vars
  PROVE  Held' /\ MsgTypes'
<1>0. MsgTypes
  BY DEF TypeOK, MsgTypes
<1>1. ASSUME UNCHANGED <<msgVars, writing, outputQueue>>, NoneReleased,
             todo' \in Seq(Msgs),
             \/ disPc' # "sending"
             \/ disPc = "sending" /\ UNCHANGED todo
      PROVE  Held' /\ MsgTypes'
  BY <1>0, <1>1, HeldQuiet DEF MsgTypes, msgVars, refVars
<1>2. CASE UNCHANGED vars
  BY <1>0, <1>1, <1>2, NoTaskChange DEF vars, connVars, threadVars, MsgTypes
<1>3. CASE ParseHeader \/ ParseAndRefuse \/ ParsePacket \/ ParseAndAnswer
  BY <1>0, <1>1, <1>3, NoTaskChange
     DEF ParseHeader, ParseAndRefuse, ParsePacket, ParseAndAnswer, connVars, threadVars,
         MsgTypes
<1>4. CASE ParseLogin
  <2>1. Queued("close") = 0
    BY <1>4, FirstPacket DEF ParseLogin, NewProtocol
  <2>. QED
    BY <1>0, <1>1, <1>4, <2>1, ParseLoginChange DEF ParseLogin, threadVars, MsgTypes
<1>5. CASE OnlyCloses
  <2>1. UNCHANGED msgVars /\ NoneReleased /\ UNCHANGED <<writing, outputQueue>>
    BY <1>5, OnlyClosesFacts, CloseTaskChange DEF outVars
  <2>2. /\ todo' = todo
        /\ disPc' # "sending" \/ disPc' = disPc
    BY <1>5 DEF OnlyCloses, ReadError, ParseUnknownProtocol, ParseAndClose, GameClose,
                threadVars
  <2>. QED
    BY <1>0, <1>1, <2>1, <2>2 DEF MsgTypes
<1>6. CASE ReadWhileClosing
  BY <1>0, <1>1, <1>6, ReadWhileClosingChange DEF ReadWhileClosing, threadVars, MsgTypes
<1>7. CASE FinishRefuse
  <2>1. /\ tasks \in Seq(GoodTasks) /\ LoginBeforeClose(tasks) /\ DisconnectClient(tasks)
        /\ disPc' = disPc /\ todo' = todo
    BY <1>7 DEF Logins, FinishRefuse
  <2>2. /\ Held' /\ connRefs' \in Nat /\ protoRefs' \in Nat /\ pool' \subseteq Msgs
    BY <2>1, DisconnectHeld
  <2>3. UNCHANGED <<outputBuffer, autoSend, old>>
    BY <2>1 DEF DisconnectClient
  <2>. QED
    BY <1>0, <2>1, <2>2, <2>3 DEF MsgTypes
<1>8. CASE FinishAnswer
  <2>1. /\ NewOutputBuffer /\ UNCHANGED <<writing, outputQueue, tasks>>
        /\ disPc' = disPc /\ todo' = todo
    BY <1>8 DEF FinishAnswer
  <2>. QED
    BY <1>0, <2>1, NewBufferHeld DEF MsgTypes
<1>9. CASE FinishOutput
  <2>1. /\ NewOutputBuffer /\ UNCHANGED <<writing, outputQueue, tasks>>
        /\ disPc' # "sending" /\ todo' = todo
    BY <1>9 DEF FinishOutput, connVars
  <2>. QED
    BY <1>0, <2>1, NewBufferHeld DEF MsgTypes
<1>10. CASE WriteDone
  <2>1. UNCHANGED <<msgVars, todo>>
    BY <1>10 DEF WriteDone
  <2>. QED
    BY <1>0, <1>10, <2>1, WriteDoneHeld DEF MsgTypes, msgVars
<1>11. CASE WriteError
  <2>1. UNCHANGED <<msgVars, todo>>
    BY <1>11 DEF WriteError
  <2>. QED
    BY <1>0, <1>11, <2>1, WriteErrorHeld DEF MsgTypes, msgVars
<1>12. CASE CloseConnectionTask
  <2>1. UNCHANGED <<msgVars, writing, outputQueue>> /\ todo' = todo /\ disPc' = "frame"
    BY <1>12 DEF CloseConnectionTask, Run
  <2>. QED
    BY <1>0, <1>1, <1>12, <2>1, CloseConnectionChange DEF MsgTypes
<1>13. CASE ReleaseProtocol \/ ReleaseConnection \/ LoginAccepted
  <2>1. /\ \E kind \in {"login", "releaseProtocol", "releaseConnection"} : Run(kind)
        /\ tasks' = Tail(tasks) /\ UNCHANGED <<msgVars, writing, outputQueue>>
        /\ todo' = todo /\ disPc' = "frame"
    BY <1>13 DEF ReleaseProtocol, ReleaseConnection, LoginAccepted, Run, connVars
  <2>2. NoneReleased
    BY <2>1, RunChange
  <2>. QED
    BY <1>0, <1>1, <2>1, <2>2 DEF MsgTypes
<1>14. CASE InternalReleaseMessage
  <2>1. UNCHANGED <<outputBuffer, autoSend, todo>>
    BY <1>14 DEF InternalReleaseMessage, Run
  <2>. QED
    BY <1>0, <1>14, <2>1, InternalReleaseHeld DEF MsgTypes
<1>15. CASE LoginRefused
  <2>. DEFINE us == Tail(tasks)
  <2>1. Run("login") /\ DisconnectClient(us) /\ disPc' = "frame" /\ todo' = todo
    BY <1>15 DEF LoginRefused, Run
  <2>2. /\ us \in Seq(GoodTasks) /\ LoginBeforeClose(us)
        /\ \A m \in Msgs : Occ(us, {Release(m)}) = Occ(tasks, {Release(m)})
    <3>1. \A m \in Msgs : Occ(tasks, {Release(m)}) \in Nat
      BY UsesType
    <3>. QED
      BY <2>1, <3>1, TailChange
  <2>. HIDE DEF us
  <2>3. /\ Held' /\ connRefs' \in Nat /\ protoRefs' \in Nat /\ pool' \subseteq Msgs
    BY <2>1, <2>2, DisconnectHeld
  <2>4. UNCHANGED <<outputBuffer, autoSend, old>>
    BY <2>1 DEF DisconnectClient
  <2>. QED
    BY <1>0, <2>1, <2>3, <2>4 DEF MsgTypes
<1>16. CASE GameOutput \/ Other
  BY <1>0, <1>1, <1>16, NoTaskChange DEF GameOutput, Other, connVars, MsgTypes
<1>17. CASE BeginSendAll
  <2>1. /\ UNCHANGED <<msgVars, writing, outputQueue, tasks>> /\ todo' = autoSend
    BY <1>17 DEF BeginSendAll, connVars
  <2>2. \A m \in Msgs : Uses(m)' <= (IF m \in pool' THEN 0 ELSE 1)
    BY <2>1 DEF Held, Owners, Uses, msgVars
  <2>3. \A m \in Msgs : Occ(todo', {m}) <= Occ(autoSend', {m})
    <3>1. ASSUME NEW m \in Msgs
          PROVE  Occ(todo', {m}) <= Occ(autoSend', {m})
      <4>1. Occ(autoSend, {m}) \in Nat /\ todo' = autoSend /\ autoSend' = autoSend
        BY <2>1, UsesType DEF msgVars
      <4>. QED
        BY <4>1
    <3>. QED
      BY <3>1
  <2>4. Owners' /\ RefsCountMessages'
    BY <2>1, <2>2, <2>3 DEF Held, Owners, RefsCountMessages, msgVars
  <2>. QED
    BY <1>0, <2>1, <2>4 DEF Held, MsgTypes, msgVars
<1>18. CASE SkipMessage
  <2>1. /\ UNCHANGED <<msgVars, writing, outputQueue, tasks>> /\ todo' = Tail(todo)
        /\ todo # <<>> /\ disPc = "sending"
    BY <1>18 DEF SkipMessage, connVars
  <2>2. \A m \in Msgs : Uses(m)' <= (IF m \in pool' THEN 0 ELSE 1)
    BY <2>1 DEF Held, Owners, Uses, msgVars
  <2>3. todo' \in Seq(Msgs)
    BY <1>0, <2>1 DEF MsgTypes
  <2>4. \A m \in Msgs : Occ(todo', {m}) <= Occ(autoSend', {m})
    <3>1. ASSUME NEW m \in Msgs
          PROVE  Occ(todo', {m}) <= Occ(autoSend', {m})
      <4>1. Occ(autoSend, {m}) \in Nat /\ autoSend' = autoSend
            /\ Occ(todo, {m}) <= Occ(autoSend, {m})
        BY <2>1, UsesType DEF msgVars, Held, Owners
      <4>2. Occ(todo', {m}) \in Nat
        BY <2>3, OccType
      <4>3. Occ(todo, {m}) = Occ(todo', {m}) + (IF Head(todo) \in {m} THEN 1 ELSE 0)
        BY <1>0, <2>1, OccTail DEF MsgTypes
      <4>. QED
        BY <4>1, <4>2, <4>3
    <3>. QED
      BY <3>1
  <2>5. Owners' /\ RefsCountMessages'
    BY <2>1, <2>2, <2>4 DEF Held, Owners, RefsCountMessages, msgVars
  <2>. QED
    BY <1>0, <2>1, <2>3, <2>5 DEF Held, MsgTypes, msgVars
<1>19. CASE SendMessage
  <2>1. UNCHANGED <<connRefs, protoRefs, pool, old>>
    BY <1>19 DEF SendMessage
  <2>. QED
    BY <1>0, <1>19, <2>1, SendMessageHeld DEF MsgTypes
<1>20. CASE EndSendAll
  BY <1>0, <1>1, <1>20, NoTaskChange DEF EndSendAll, connVars, MsgTypes
<1>21. CASE Timer
  <2>1. PICK kind \in timers :
          /\ tasks' = Append(tasks, Task(kind))
          /\ UNCHANGED <<connVars, protoVars, msgVars, threadVars, accepted>>
    BY <1>21 DEF Timer
  <2>2. NoneReleased
    BY <2>1, TimerChange
  <2>. QED
    BY <1>0, <1>1, <2>1, <2>2 DEF connVars, threadVars, MsgTypes
<1>22. CASE Age
  <2>1. /\ UNCHANGED <<refVars, tasks, writing, outputQueue, todo, disPc>>
        /\ \E i \in 1 .. Len(autoSend) : old' = old \cup {autoSend[i]}
    BY <1>22 DEF Age, connVars, threadVars, refVars
  <2>2. old' \subseteq Msgs
    BY <1>0, <2>1 DEF MsgTypes
  <2>. QED
    BY <1>0, <2>1, <2>2, HeldQuiet, NoTaskChange DEF MsgTypes, refVars
<1>. QED
  BY <1>2, <1>3, <1>4, <1>5, <1>6, <1>7, <1>8, <1>9, <1>10, <1>11, <1>12, <1>13, <1>14,
     <1>15, <1>16, <1>17, <1>18, <1>19, <1>20, <1>21, <1>22
     DEF Next, NetworkThread, ConnectionTask, SendAll, OnlyCloses
-----------------------------------------------------------------------------
(* ... and the handshake that lets connection and protocol go.             *)
Flow == Handshake /\ Early /\ Parsing /\ Logins /\ Afterwards
FlowTypes ==
  /\ reading \in {"none", "header", "body"} /\ connection \in {"alive", "deleted"}
  /\ hasProtocol \in BOOLEAN /\ protocol \in {"none", "alive", "deleted"}
  /\ hasConnection \in BOOLEAN /\ playing \in BOOLEAN
  /\ timers \subseteq {"releaseProtocol", "releaseConnection"}
  /\ netHolds \in Nat /\ poolHeld \in BOOLEAN
  /\ netPc \in {"idle", "refuse", "output"}
  /\ disPc \in {"idle", "output", "frame", "sending"}

LEMMA ChangeType ==
  ASSUME NEW l, NEW c, NEW p, NEW n, Change(l, c, p, n)
  PROVE  /\ Queued("login")' \in Nat /\ Queued("login")' = Queued("login") + l
         /\ Queued("close")' \in Nat /\ Queued("close")' = Queued("close") + c
         /\ Queued("releaseProtocol")' \in Nat
         /\ Queued("releaseProtocol")' = Queued("releaseProtocol") + p
         /\ Queued("releaseConnection")' \in Nat
         /\ Queued("releaseConnection")' = Queued("releaseConnection") + n
         /\ tasks' \in Seq(GoodTasks) /\ LoginBeforeClose(tasks')
  BY OccType DEF Change, Queued

(* A message that is written or to be sent is not in the pool.             *)
LEMMA UsedMessage ==
  ASSUME TypeOK, Logins, Held, NEW m \in Msgs, writing = m \/ Occ(autoSend, {m}) > 0
  PROVE  m \notin pool
<1>1. /\ Occ(outputQueue, {m}) \in Nat /\ Occ(autoSend, {m}) \in Nat
      /\ Occ(tasks, {Release(m)}) \in Nat /\ Uses(m) \in Nat
  BY UsesType
<1>2. Uses(m) > 0
  BY <1>1 DEF Uses
<1>3. Uses(m) <= (IF m \in pool THEN 0 ELSE 1)
  BY DEF Held, Owners
<1>. QED
  BY <1>1, <1>2, <1>3

(* Nobody refers to the connection or the protocol: no message is out of   *)
(* the pool, and no output buffer there.                                   *)
LEMMA NoRefs ==
  ASSUME TypeOK, Logins, Held, connRefs = 0 \/ protoRefs = 0
  PROVE  pool = Msgs /\ outputBuffer = NoMsg
<1>1. Cardinality(Msgs \ pool) = 0 /\ IsFiniteSet(Msgs \ pool)
  BY ConstantsAssumption, FS_Subset DEF Held, RefsCountMessages
<1>2. pool = Msgs
  <2>1. Msgs \ pool = {}
    BY <1>1, FS_EmptySet
  <2>. QED
    BY <2>1 DEF TypeOK
<1>3. outputBuffer = NoMsg
  <2>1. ASSUME outputBuffer # NoMsg
        PROVE  FALSE
    <3>1. outputBuffer \in Msgs /\ Occ(autoSend, {outputBuffer}) > 0
      BY <2>1 DEF TypeOK, Held, Owners
    <3>. QED
      BY <1>2, <3>1, UsedMessage
  <2>. QED
    BY <2>1
<1>. QED
  BY <1>2, <1>3

LEMMA FlowQuiet ==
  ASSUME TypeOK, Flow, Change(0, 0, 0, 0),
         UNCHANGED <<closeState, reading, connection, protoVars, timers, pool, netPc, netHolds>>,
         outputBuffer' \in {outputBuffer, NoMsg},
         pendingWrite' = pendingWrite \/ closeState # "closing"
  PROVE  Flow'
<1>1. /\ Queued("login")' = Queued("login") /\ Queued("close")' = Queued("close")
      /\ Queued("releaseProtocol")' = Queued("releaseProtocol")
      /\ Queued("releaseConnection")' = Queued("releaseConnection")
      /\ tasks' \in Seq(GoodTasks) /\ LoginBeforeClose(tasks')
  BY ChangeType, QueuedType DEF Flow
<1>2. Handshake'
  BY <1>1 DEF Flow, Handshake, UnderWay, protoVars
<1>3. Early' /\ Parsing' /\ Logins' /\ Afterwards'
  BY <1>1 DEF Flow, Early, Parsing, Logins, Afterwards, protoVars
<1>. QED
  BY <1>2, <1>3 DEF Flow

LEMMA FlowNext ==
  ASSUME TypeOK, Output, Held, Flow, [Next]_vars
  PROVE  Flow' /\ FlowTypes'
<1>0. /\ FlowTypes /\ Logins
      /\ Queued("login") \in Nat /\ Queued("close") \in Nat
      /\ Queued("releaseProtocol") \in Nat /\ Queued("releaseConnection") \in Nat
      /\ closeState \in {"none", "requested", "closing"} /\ pendingWrite \in Nat
  BY QueuedType DEF TypeOK, FlowTypes, Flow
<1>1. CASE UNCHANGED vars
  <2>1. Change(0, 0, 0, 0)
    BY <1>0, <1>1, NoTaskChange DEF vars
  <2>2. Flow'
    BY <1>1, <2>1, FlowQuiet DEF vars, connVars, msgVars, threadVars
  <2>. QED
    BY <1>0, <1>1, <2>2 DEF vars, connVars, protoVars, threadVars, FlowTypes
<1>2. CASE Other \/ GameOutput \/ BeginSendAll \/ SkipMessage \/ EndSendAll \/ Age
  <2>1. /\ UNCHANGED <<closeState, reading, connection, protoVars, timers, pool, netPc,
                       netHolds, outputBuffer, pendingWrite, tasks>>
        /\ poolHeld' \in BOOLEAN /\ disPc' \in {"idle", "output", "frame", "sending"}
    BY <1>0, <1>2 DEF Other, GameOutput, BeginSendAll, SkipMessage, EndSendAll, Age,
                      connVars, msgVars, threadVars, FlowTypes
  <2>2. Change(0, 0, 0, 0)
    BY <1>0, <2>1, NoTaskChange
  <2>3. Flow'
    BY <2>1, <2>2, FlowQuiet
  <2>. QED
    BY <1>0, <2>1, <2>3 DEF protoVars, FlowTypes
<1>3. CASE SendMessage
  <2>1. /\ UNCHANGED <<closeState, reading, connection, protoVars, timers, pool, netPc,
                       netHolds, poolHeld, disPc>>
        /\ outputBuffer' \in {outputBuffer, NoMsg}
        /\ pendingWrite' = pendingWrite \/ closeState # "closing"
    BY <1>3 DEF SendMessage, SendRefused
  <2>2. Change(0, 0, 0, 0)
    BY <1>0, <1>3, SendMessageChange
  <2>3. Flow'
    BY <2>1, <2>2, FlowQuiet
  <2>. QED
    BY <1>0, <2>1, <2>3 DEF protoVars, FlowTypes
<1>4. CASE ReadWhileClosing
  <2>1. /\ closeState = "closing" /\ reading # "none" /\ reading' = "none" /\ netPc = "idle"
        /\ UNCHANGED <<closeState, pendingWrite, connection, protoVars, msgVars, threadVars,
                       timers>>
    BY <1>4 DEF ReadWhileClosing
  <2>2. Change(0, 0, 0, IF pendingWrite = 0 THEN 1 ELSE 0)
    BY <1>0, <1>4, ReadWhileClosingChange, MayCloseFacts DEF Releasable
  <2>. HIDE DEF Change
  <2>3. Handshake'
    <3>1. /\ Queued("close")' = Queued("close")
          /\ Queued("releaseProtocol")' = Queued("releaseProtocol")
          /\ Queued("releaseConnection")'
               = Queued("releaseConnection") + (IF pendingWrite = 0 THEN 1 ELSE 0)
      BY <1>0, <2>2, ChangeType
    <3>. QED
      BY <1>0, <2>1, <3>1 DEF Flow, Handshake, UnderWay, protoVars
  <2>4. Early' /\ Parsing' /\ Afterwards'
    BY <2>1 DEF Flow, Early, Parsing, Afterwards, protoVars, msgVars, threadVars
  <2>5. Logins'
    BY <1>0, <2>1, <2>2, ChangeType DEF Flow, Logins, protoVars
  <2>6. FlowTypes'
    BY <1>0, <2>1 DEF FlowTypes, protoVars, threadVars
  <2>. QED
    BY <2>3, <2>4, <2>5, <2>6 DEF Flow
<1>5. CASE ReadError \/ ParseUnknownProtocol
  <2>1. /\ closeState # "closing" /\ reading' = "none" /\ netPc = "idle"
        /\ closeState' = CloseRequested /\ tasks' = CloseTask(tasks)
        /\ UNCHANGED <<pendingWrite, connection, protoVars, msgVars, threadVars, timers>>
    BY <1>5 DEF ReadError, ParseUnknownProtocol, PacketRead
  <2>2. Change(0, IF closeState = "none" THEN 1 ELSE 0, 0, 0)
    BY <1>0, <2>1, CloseTaskChange
  <2>3. Handshake'
    BY <1>0, <2>1, <2>2, ChangeType DEF Flow, Handshake, UnderWay, protoVars, CloseRequested
  <2>4. Early' /\ Parsing' /\ Afterwards'
    BY <2>1 DEF Flow, Early, Parsing, Afterwards, protoVars, msgVars, threadVars
  <2>5. Logins'
    BY <1>0, <2>1, <2>2, ChangeType DEF Flow, Logins, protoVars
  <2>6. FlowTypes'
    BY <1>0, <2>1 DEF FlowTypes, protoVars, threadVars
  <2>. QED
    BY <2>3, <2>4, <2>5, <2>6 DEF Flow
<1>6. CASE ParseHeader \/ ParsePacket
  <2>1. /\ closeState # "closing" /\ reading' \in {"body", "header"} /\ netPc = "idle"
        /\ reading # "none"
        /\ UNCHANGED <<closeState, pendingWrite, connection, protoVars, msgVars, threadVars,
                       timers, tasks>>
    BY <1>6 DEF ParseHeader, ParsePacket, PacketRead, connVars
  <2>2. Change(0, 0, 0, 0)
    BY <1>0, <2>1, NoTaskChange
  <2>3. Handshake'
    BY <1>0, <2>1, <2>2, ChangeType DEF Flow, Handshake, UnderWay, protoVars
  <2>4. Early' /\ Parsing' /\ Afterwards'
    BY <2>1 DEF Flow, Early, Parsing, Afterwards, protoVars, msgVars, threadVars
  <2>5. Logins'
    BY <1>0, <2>1, <2>2, ChangeType DEF Flow, Logins, protoVars
  <2>6. FlowTypes'
    BY <1>0, <2>1 DEF FlowTypes, protoVars, threadVars
  <2>. QED
    BY <2>3, <2>4, <2>5, <2>6 DEF Flow
<1>7. CASE ParseLogin
  <2>0. protocol = "none" /\ closeState = "none" /\ Queued("close") = 0
    BY <1>7, FirstPacket DEF ParseLogin, NewProtocol, Flow
  <2>1. /\ reading = "body" /\ reading' = "header" /\ netPc = "idle"
        /\ ~hasProtocol /\ hasProtocol' = TRUE /\ protocol' = "alive" /\ hasConnection' = TRUE
        /\ UNCHANGED <<playing, closeState, pendingWrite, connection, msgVars, threadVars,
                       timers>>
    BY <1>7 DEF ParseLogin, PacketRead, NewProtocol
  <2>2. Change(1, 0, 0, 0)
    BY <1>0, <1>7, <2>0, ParseLoginChange
  <2>3. Handshake'
    <3>1. /\ Queued("close")' = 0
          /\ Queued("releaseProtocol")' = Queued("releaseProtocol")
          /\ Queued("releaseConnection")' = Queued("releaseConnection")
      BY <1>0, <2>0, <2>2, ChangeType
    <3>. QED
      BY <1>0, <2>0, <2>1, <3>1 DEF Flow, Handshake, UnderWay
  <2>4. Early' /\ Parsing' /\ Afterwards'
    BY <2>0, <2>1 DEF Flow, Early, Parsing, Afterwards, msgVars, threadVars
  <2>5. Logins'
    BY <1>0, <2>1, <2>2, ChangeType DEF Flow, Logins, protoVars
  <2>6. FlowTypes'
    BY <1>0, <2>1 DEF FlowTypes, protoVars, threadVars
  <2>. QED
    BY <2>3, <2>4, <2>5, <2>6 DEF Flow
<1>8. CASE ParseAndClose
  <2>0. protocol = "none" /\ closeState = "none" /\ Queued("close") = 0
    BY <1>8, FirstPacket DEF ParseAndClose, NewProtocol, Flow
  <2>1. /\ reading = "body" /\ reading' = "header" /\ netPc = "idle"
        /\ ~hasProtocol /\ hasProtocol' = TRUE /\ protocol' = "alive" /\ hasConnection' = TRUE
        /\ closeState' = CloseRequested /\ tasks' = CloseTask(tasks)
        /\ UNCHANGED <<playing, pendingWrite, connection, msgVars, threadVars, timers>>
    BY <1>8 DEF ParseAndClose, PacketRead, NewProtocol
  <2>2. Change(0, 1, 0, 0)
    BY <1>0, <2>0, <2>1, CloseTaskChange
  <2>3. Handshake'
    <3>1. /\ Queued("close")' = 1
          /\ Queued("releaseProtocol")' = Queued("releaseProtocol")
          /\ Queued("releaseConnection")' = Queued("releaseConnection")
      BY <1>0, <2>0, <2>2, ChangeType
    <3>2. closeState' = "requested"
      BY <2>0, <2>1 DEF CloseRequested
    <3>. QED
      BY <1>0, <2>0, <2>1, <3>1, <3>2 DEF Flow, Handshake, UnderWay
  <2>4. Early' /\ Parsing' /\ Afterwards'
    BY <2>0, <2>1 DEF Flow, Early, Parsing, Afterwards, msgVars, threadVars
  <2>5. Logins'
    BY <1>0, <2>1, <2>2, ChangeType DEF Flow, Logins, protoVars
  <2>6. FlowTypes'
    BY <1>0, <2>1 DEF FlowTypes, protoVars, threadVars
  <2>. QED
    BY <2>3, <2>4, <2>5, <2>6 DEF Flow
<1>9. CASE ParseAndRefuse
  <2>0. protocol = "none" /\ closeState = "none" /\ Queued("close") = 0
    BY <1>9, FirstPacket DEF ParseAndRefuse, NewProtocol, Flow
  <2>1. /\ reading = "body" /\ netPc' = "refuse" /\ netHolds' = netHolds + 1
        /\ ~hasProtocol /\ hasProtocol' = TRUE /\ protocol' = "alive" /\ hasConnection' = TRUE
        /\ UNCHANGED <<reading, playing, closeState, pendingWrite, connection, msgVars,
                       poolHeld, disPc, timers, tasks>>
    BY <1>9 DEF ParseAndRefuse, PacketRead, NewProtocol, connVars
  <2>2. Change(0, 0, 0, 0)
    BY <1>0, <2>1, NoTaskChange
  <2>3. Handshake'
    <3>1. /\ Queued("close")' = 0
          /\ Queued("releaseProtocol")' = Queued("releaseProtocol")
          /\ Queued("releaseConnection")' = Queued("releaseConnection")
      BY <1>0, <2>0, <2>2, ChangeType
    <3>. QED
      BY <1>0, <2>0, <2>1, <3>1 DEF Flow, Handshake, UnderWay
  <2>4. Early' /\ Parsing' /\ Afterwards'
    BY <1>0, <2>0, <2>1 DEF Flow, FlowTypes, Early, Parsing, Afterwards, msgVars
  <2>5. Logins'
    BY <1>0, <2>1, <2>2, ChangeType DEF Flow, Logins, protoVars
  <2>6. FlowTypes'
    BY <1>0, <2>1 DEF FlowTypes, protoVars, threadVars
  <2>. QED
    BY <2>3, <2>4, <2>5, <2>6 DEF Flow
<1>10. CASE FinishRefuse
  <2>1. /\ reading = "body" /\ reading' = "header" /\ netPc = "refuse" /\ netPc' = "idle"
        /\ netHolds # 0 /\ netHolds' = netHolds - 1
        /\ closeState' = CloseRequested
        /\ UNCHANGED <<connection, protoVars, poolHeld, disPc, timers, outputBuffer>>
    BY <1>10 DEF FinishRefuse, DisconnectClient, Flow, Parsing
  <2>2. Change(0, IF closeState = "none" THEN 1 ELSE 0, 0, 0)
    BY <1>0, <1>10, FinishRefuseChange
  <2>3. Handshake'
    <3>1. /\ Queued("close")' = Queued("close") + (IF closeState = "none" THEN 1 ELSE 0)
          /\ Queued("releaseProtocol")' = Queued("releaseProtocol")
          /\ Queued("releaseConnection")' = Queued("releaseConnection")
      BY <1>0, <2>2, ChangeType
    <3>. QED
      BY <1>0, <2>1, <3>1 DEF Flow, Handshake, UnderWay, protoVars, CloseRequested
  <2>4. Early' /\ Parsing' /\ Afterwards'
    BY <1>0, <2>1 DEF Flow, Handshake, UnderWay, Early, Parsing, Afterwards, protoVars
  <2>5. Logins'
    BY <1>0, <2>1, <2>2, ChangeType DEF Flow, Logins, protoVars
  <2>6. FlowTypes'
    BY <1>0, <2>1 DEF FlowTypes, protoVars, threadVars
  <2>. QED
    BY <2>3, <2>4, <2>5, <2>6 DEF Flow
<1>11. CASE ParseAndAnswer
  <2>1. /\ reading = "body" /\ netPc' = "output" /\ netHolds' = netHolds + 1 /\ hasProtocol
        /\ UNCHANGED <<reading, closeState, pendingWrite, connection, protoVars, msgVars,
                       poolHeld, disPc, timers, tasks>>
    BY <1>11 DEF ParseAndAnswer, PacketRead, connVars
  <2>2. Change(0, 0, 0, 0)
    BY <1>0, <2>1, NoTaskChange
  <2>3. Handshake'
    BY <1>0, <2>1, <2>2, ChangeType DEF Flow, Handshake, UnderWay, protoVars
  <2>4. Early' /\ Parsing' /\ Afterwards'
    BY <1>0, <2>1 DEF Flow, FlowTypes, Handshake, Early, Parsing, Afterwards, msgVars, protoVars
  <2>5. Logins'
    BY <1>0, <2>1, <2>2, ChangeType DEF Flow, Logins, protoVars
  <2>6. FlowTypes'
    BY <1>0, <2>1 DEF FlowTypes, protoVars, threadVars
  <2>. QED
    BY <2>3, <2>4, <2>5, <2>6 DEF Flow
<1>12. CASE FinishAnswer
  <2>1. /\ reading = "body" /\ reading' = "header" /\ netPc = "output" /\ netPc' = "idle"
        /\ netHolds # 0 /\ netHolds' = netHolds - 1
        /\ UNCHANGED <<closeState, pendingWrite, connection, protoVars, poolHeld, disPc, timers,
                       tasks>>
    BY <1>12 DEF FinishAnswer, Flow, Parsing
  <2>2. Change(0, 0, 0, 0)
    BY <1>0, <2>1, NoTaskChange
  <2>3. Handshake'
    BY <1>0, <2>1, <2>2, ChangeType DEF Flow, Handshake, UnderWay, protoVars
  <2>4. Early' /\ Parsing'
    BY <1>0, <2>1 DEF Flow, Early, Parsing, protoVars
  <2>7. Afterwards'
    <3>1. ~hasConnection => outputBuffer' = NoMsg
      BY <1>12 DEF FinishAnswer, NewOutputBuffer
    <3>2. connection = "alive"
      BY <1>0, <2>1 DEF Flow, FlowTypes, Handshake, UnderWay
    <3>. QED
      BY <1>0, <2>1, <3>1, <3>2 DEF Flow, Handshake, UnderWay, Afterwards, protoVars
  <2>5. Logins'
    BY <1>0, <2>1, <2>2, ChangeType DEF Flow, Logins, protoVars
  <2>6. FlowTypes'
    BY <1>0, <2>1 DEF FlowTypes, protoVars, threadVars
  <2>. QED
    BY <2>3, <2>4, <2>7, <2>5, <2>6 DEF Flow
<1>13. CASE FinishOutput
  <2>1. /\ disPc' = "frame"
        /\ UNCHANGED <<reading, closeState, pendingWrite, connection, protoVars, poolHeld,
                       netHolds, netPc, timers, tasks>>
    BY <1>13 DEF FinishOutput, connVars
  <2>2. Change(0, 0, 0, 0)
    BY <1>0, <2>1, NoTaskChange
  <2>3. Handshake'
    BY <1>0, <2>1, <2>2, ChangeType DEF Flow, Handshake, UnderWay, protoVars
  <2>4. Early' /\ Parsing' /\ Afterwards'
    <3>1. CASE hasConnection
      <4>1. hasProtocol /\ closeState # "closing" /\ protocol = "alive"
        BY <1>0, <3>1 DEF Flow, FlowTypes, Handshake, UnderWay
      <4>2. connection = "alive"
        BY <1>0, <4>1 DEF Flow, FlowTypes, Handshake, UnderWay
      <4>. QED
        BY <2>1, <4>1, <4>2 DEF Flow, Early, Parsing, Afterwards, protoVars
    <3>2. CASE ~hasConnection
      <4>1. outputBuffer' = NoMsg /\ pool' = pool
        BY <1>13, <3>2 DEF FinishOutput, NewOutputBuffer
      <4>. QED
        BY <2>1, <4>1 DEF Flow, Early, Parsing, Afterwards, protoVars
    <3>. QED
      BY <3>1, <3>2
  <2>5. Logins'
    BY <1>0, <2>1, <2>2, ChangeType DEF Flow, Logins, protoVars
  <2>6. FlowTypes'
    BY <1>0, <2>1 DEF FlowTypes, protoVars, threadVars
  <2>. QED
    BY <2>3, <2>4, <2>5, <2>6 DEF Flow
<1>14. CASE WriteDone
  <2>1. /\ pendingWrite = 1 /\ ~writeError /\ netPc = "idle"
        /\ netHolds' = netHolds + LockKept(pendingWrite', writeError)
        /\ UNCHANGED <<closeState, reading, connection, protoVars, msgVars, netPc, poolHeld,
                       disPc, timers>>
    BY <1>14, WriteEnds DEF WriteDone, AfterWrite
  <2>2. Change(0, 0, 0, IF closeState = "closing" /\ pendingWrite' = 0 /\ reading = "none"
                        THEN 1 ELSE 0)
    <3>1. MayClose(pendingWrite', writeError) <=> pendingWrite' = 0
      BY <2>1 DEF MayClose
    <3>. QED
      BY <1>0, <1>14, <3>1, WriteDoneChange DEF Releasable
  <2>3. Handshake'
    <3>1. /\ Queued("close")' = Queued("close")
          /\ Queued("releaseProtocol")' = Queued("releaseProtocol")
          /\ Queued("releaseConnection")' = Queued("releaseConnection")
               + (IF closeState = "closing" /\ pendingWrite' = 0 /\ reading = "none"
                  THEN 1 ELSE 0)
      BY <1>0, <2>2, ChangeType
    <3>. QED
      BY <1>0, <2>1, <3>1 DEF Flow, Handshake, UnderWay, protoVars
  <2>4. Early' /\ Parsing' /\ Afterwards'
    BY <2>1 DEF Flow, Early, Parsing, Afterwards, protoVars, msgVars
  <2>7. netHolds' \in Nat
    BY <1>0, <2>1 DEF FlowTypes, LockKept
  <2>5. Logins'
    BY <1>0, <2>1, <2>2, ChangeType DEF Flow, Logins, protoVars
  <2>6. FlowTypes'
    BY <1>0, <2>1, <2>7 DEF FlowTypes, protoVars, threadVars
  <2>. QED
    BY <2>3, <2>4, <2>5, <2>6 DEF Flow
<1>15. CASE WriteError
  <2>1. /\ pendingWrite = 1 /\ pendingWrite' = 0 /\ netPc = "idle"
        /\ closeState' = CloseRequested
        /\ UNCHANGED <<reading, connection, protoVars, msgVars, netPc, poolHeld, disPc, timers>>
    BY <1>15, WriteEnds DEF WriteError, AfterWrite
  <2>2. Change(0, IF closeState = "none" THEN 1 ELSE 0, 0,
               IF closeState = "closing" /\ reading = "none" THEN 1 ELSE 0)
    BY <1>0, <1>15, WriteErrorChange DEF Releasable, MayClose
  <2>3. Handshake'
    <3>1. /\ Queued("close")' = Queued("close") + (IF closeState = "none" THEN 1 ELSE 0)
          /\ Queued("releaseProtocol")' = Queued("releaseProtocol")
          /\ Queued("releaseConnection")' = Queued("releaseConnection")
               + (IF closeState = "closing" /\ reading = "none" THEN 1 ELSE 0)
      BY <1>0, <2>2, ChangeType
    <3>. QED
      BY <1>0, <2>1, <3>1 DEF Flow, Handshake, UnderWay, protoVars, CloseRequested
  <2>4. Early' /\ Parsing' /\ Afterwards'
    <3>1. writing \in Msgs /\ writing \notin pool
      BY <1>0, <1>15, WriteEnds, UsedMessage DEF WriteError
    <3>. QED
      BY <2>1, <3>1 DEF Flow, Early, Parsing, Afterwards, protoVars, msgVars
  <2>7. netHolds' \in Nat
    <3>1. netHolds' = netHolds + 2 \/ netHolds' = netHolds + 0
      BY <1>15 DEF WriteError, AfterWrite, LockKept
    <3>. QED
      BY <1>0, <3>1 DEF FlowTypes
  <2>5. Logins'
    BY <1>0, <2>1, <2>2, ChangeType DEF Flow, Logins, protoVars
  <2>6. FlowTypes'
    BY <1>0, <2>1, <2>7 DEF FlowTypes, protoVars, threadVars
  <2>. QED
    BY <2>3, <2>4, <2>5, <2>6 DEF Flow
<1>16. CASE CloseConnectionTask
  <2>0. closeState = "requested" /\ Queued("close") = 1
    BY <1>0, <1>16, CloseConnectionChange DEF Flow, Handshake
  <2>1. /\ closeState' = "closing" /\ hasProtocol' = FALSE /\ hasConnection' = FALSE
        /\ disPc' = "frame"
        /\ UNCHANGED <<reading, pendingWrite, connection, protocol, playing, msgVars, netHolds,
                       poolHeld, netPc, timers>>
    BY <1>0, <1>16, <2>0
       DEF CloseConnectionTask, Run, Flow, FlowTypes, Handshake
  <2>2. Change(-Queued("login"), -1, IF hasProtocol THEN 1 ELSE 0,
               IF pendingWrite = 0 /\ reading = "none" THEN 1 ELSE 0)
    BY <1>0, <1>16, <2>0, CloseConnectionChange, MayCloseFacts DEF Releasable
  <2>3. Handshake'
    <3>1. /\ Queued("close")' = 0
          /\ Queued("releaseProtocol")'
               = Queued("releaseProtocol") + (IF hasProtocol THEN 1 ELSE 0)
          /\ Queued("releaseConnection")' = Queued("releaseConnection")
               + (IF pendingWrite = 0 /\ reading = "none" THEN 1 ELSE 0)
      BY <1>0, <2>0, <2>2, ChangeType
    <3>2. (UnderWay("releaseConnection") + (IF connection = "deleted" THEN 1 ELSE 0)
             = (IF closeState = "closing" /\ reading = "none" /\ pendingWrite = 0
                THEN 1 ELSE 0))'
      <4>1. UnderWay("releaseConnection") + (IF connection = "deleted" THEN 1 ELSE 0) = 0
        BY <2>0 DEF Flow, Handshake
      <4>. QED
        BY <1>0, <2>1, <3>1, <4>1 DEF UnderWay
    <3>3. (UnderWay("releaseProtocol") + (IF protocol = "deleted" THEN 1 ELSE 0)
             + (IF protocol = "none" THEN 1 ELSE 0) + (IF hasProtocol THEN 1 ELSE 0) = 1)'
      <4>1. UnderWay("releaseProtocol") + (IF protocol = "deleted" THEN 1 ELSE 0)
              + (IF protocol = "none" THEN 1 ELSE 0) + (IF hasProtocol THEN 1 ELSE 0) = 1
        BY DEF Flow, Handshake
      <4>. QED
        BY <1>0, <2>1, <3>1, <4>1 DEF UnderWay
    <3>. QED
      BY <2>1, <3>1, <3>2, <3>3 DEF Handshake
  <2>4. Early' /\ Parsing' /\ Afterwards'
    BY <2>1 DEF Flow, Early, Parsing, Afterwards, msgVars
  <2>5. Logins'
    <3>1. Queued("login")' = 0 /\ tasks' \in Seq(GoodTasks) /\ LoginBeforeClose(tasks')
      BY <1>0, <2>2, ChangeType
    <3>. QED
      BY <2>1, <3>1 DEF Flow, Logins
  <2>6. FlowTypes'
    BY <1>0, <2>1 DEF FlowTypes
  <2>. QED
    BY <2>3, <2>4, <2>5, <2>6 DEF Flow
<1>17. CASE ReleaseProtocol
  <2>0. /\ Run("releaseProtocol") /\ tasks' = Tail(tasks)
        /\ disPc' = "frame" /\ playing' = FALSE
        /\ UNCHANGED <<closeState, reading, pendingWrite, connection, hasProtocol, msgVars,
                       netHolds, poolHeld, netPc>>
    BY <1>17 DEF ReleaseProtocol, Run, connVars
  <2>2. Change(0, 0, -1, 0)
    BY <1>0, <2>0, RunChange
  <2>7. /\ Queued("releaseProtocol") = 1 /\ "releaseProtocol" \notin timers
        /\ protocol = "alive" /\ ~hasProtocol
    <3>1. Queued("releaseProtocol") > 0
      BY <1>0, <2>2, ChangeType
    <3>. QED
      BY <1>0, <3>1 DEF Flow, FlowTypes, Handshake, UnderWay
  <2>1. \/ /\ protocol' = "deleted" /\ hasConnection' = FALSE /\ timers' = timers
           /\ pool = Msgs /\ outputBuffer = NoMsg
        \/ /\ timers' = timers \cup {"releaseProtocol"}
           /\ UNCHANGED <<protocol, hasConnection>>
    BY <1>0, <1>17, NoRefs DEF ReleaseProtocol, MayDeleteProtocol
  <2>3. Handshake'
    <3>1. /\ Queued("close")' = Queued("close") /\ Queued("releaseProtocol")' = 0
          /\ Queued("releaseConnection")' = Queued("releaseConnection")
      BY <1>0, <2>2, <2>7, ChangeType
    <3>2. UnderWay("releaseConnection")' = UnderWay("releaseConnection")
          /\ UnderWay("releaseProtocol")' = IF protocol' = "deleted" THEN 0 ELSE 1
      BY <1>0, <2>1, <2>7, <3>1 DEF UnderWay
    <3>3. /\ ~hasProtocol' /\ ~hasConnection' /\ protocol' \in {"alive", "deleted"}
          /\ hasConnection' = FALSE /\ hasProtocol' = FALSE
      BY <1>0, <2>0, <2>1, <2>7 DEF Flow, FlowTypes, Handshake
    <3>4. (UnderWay("releaseProtocol") + (IF protocol = "deleted" THEN 1 ELSE 0)
             + (IF protocol = "none" THEN 1 ELSE 0) + (IF hasProtocol THEN 1 ELSE 0) = 1)'
      BY <3>2, <3>3
    <3>5. closeState' = "closing"
      BY <2>0, <2>7 DEF Flow, Handshake
    <3>. QED
      BY <2>0, <3>1, <3>2, <3>3, <3>4, <3>5 DEF Flow, Handshake
  <2>4. Early' /\ Parsing' /\ Afterwards'
    BY <2>0, <2>1, <2>7 DEF Flow, Early, Parsing, Afterwards, msgVars
  <2>5. Logins'
    BY <1>0, <2>0, <2>2, ChangeType DEF Flow, Logins
  <2>6. FlowTypes'
    BY <1>0, <2>0, <2>1 DEF FlowTypes
  <2>. QED
    BY <2>3, <2>4, <2>5, <2>6 DEF Flow
<1>18. CASE ReleaseConnection
  <2>0. /\ Run("releaseConnection") /\ tasks' = Tail(tasks)
        /\ disPc' = "frame"
        /\ UNCHANGED <<closeState, reading, pendingWrite, protoVars, msgVars,
                       netHolds, poolHeld, netPc>>
    BY <1>18 DEF ReleaseConnection, Run
  <2>2. Change(0, 0, 0, -1)
    BY <1>0, <2>0, RunChange
  <2>7. /\ Queued("releaseConnection") = 1 /\ "releaseConnection" \notin timers
        /\ connection = "alive" /\ closeState = "closing" /\ reading = "none" /\ pendingWrite = 0
    <3>1. Queued("releaseConnection") > 0
      BY <1>0, <2>2, ChangeType
    <3>. QED
      BY <1>0, <3>1 DEF Flow, FlowTypes, Handshake, UnderWay
  <2>1. \/ /\ connection' = "deleted" /\ timers' = timers
           /\ pool = Msgs /\ outputBuffer = NoMsg
        \/ /\ timers' = timers \cup {"releaseConnection"}
           /\ UNCHANGED connection
    BY <1>0, <1>18, NoRefs DEF ReleaseConnection, MayDelete
  <2>3. Handshake'
    <3>1. /\ Queued("close")' = Queued("close") /\ Queued("releaseConnection")' = 0
          /\ Queued("releaseProtocol")' = Queued("releaseProtocol")
      BY <1>0, <2>2, <2>7, ChangeType
    <3>. QED
      BY <1>0, <2>0, <2>1, <2>7, <3>1 DEF Flow, Handshake, UnderWay, protoVars
  <2>4. Early' /\ Parsing' /\ Afterwards'
    BY <2>0, <2>1, <2>7 DEF Flow, Early, Parsing, Afterwards, protoVars, msgVars
  <2>5. Logins'
    BY <1>0, <2>0, <2>2, ChangeType DEF Flow, Logins, protoVars
  <2>6. FlowTypes'
    BY <1>0, <2>0, <2>1 DEF FlowTypes, protoVars
  <2>. QED
    BY <2>3, <2>4, <2>5, <2>6 DEF Flow
<1>19. CASE InternalReleaseMessage
  <2>1. /\ Run("releaseMessage") /\ tasks' = Tail(tasks)
        /\ disPc' = "frame"
        /\ UNCHANGED <<closeState, reading, pendingWrite, connection, protoVars, outputBuffer,
                       netHolds, poolHeld, netPc, timers>>
    BY <1>19 DEF InternalReleaseMessage, Run, connVars
  <2>2. Change(0, 0, 0, 0)
    BY <1>0, <2>1, RunChange
  <2>3. Handshake'
    BY <1>0, <2>1, <2>2, ChangeType DEF Flow, Handshake, UnderWay, protoVars
  <2>4. Early' /\ Parsing' /\ Afterwards'
    <3>1. pool # Msgs
      BY <1>0, <1>19, InternalReleaseHeld
    <3>. QED
      BY <2>1, <3>1 DEF Flow, Early, Parsing, Afterwards, protoVars
  <2>5. Logins'
    BY <1>0, <2>1, <2>2, ChangeType DEF Flow, Logins, protoVars
  <2>6. FlowTypes'
    BY <1>0, <2>1 DEF FlowTypes, protoVars
  <2>. QED
    BY <2>3, <2>4, <2>5, <2>6 DEF Flow
<1>20. CASE LoginAccepted
  <2>1. /\ Run("login") /\ tasks' = Tail(tasks)
        /\ disPc' = "frame" /\ playing' = TRUE
        /\ UNCHANGED <<closeState, reading, pendingWrite, connection, hasProtocol, protocol,
                       hasConnection, msgVars, netHolds, poolHeld, netPc, timers>>
    BY <1>20 DEF LoginAccepted, Run, connVars
  <2>2. Change(-1, 0, 0, 0)
    BY <1>0, <2>1, RunChange
  <2>3. Handshake'
    BY <1>0, <2>1, <2>2, ChangeType DEF Flow, Handshake, UnderWay
  <2>4. Early' /\ Parsing' /\ Afterwards'
    BY <2>1 DEF Flow, Early, Parsing, Afterwards, msgVars
  <2>7. hasProtocol /\ protocol = "alive"
    <3>1. Queued("login") > 0
      BY <1>0, <2>2, ChangeType
    <3>2. hasProtocol
      BY <3>1 DEF Flow, Logins
    <3>. QED
      BY <1>0, <3>2 DEF Flow, FlowTypes, Handshake, UnderWay
  <2>5. Logins'
    BY <1>0, <2>1, <2>2, <2>7, ChangeType DEF Flow, Logins
  <2>6. FlowTypes'
    BY <1>0, <2>1 DEF FlowTypes
  <2>. QED
    BY <2>3, <2>4, <2>5, <2>6 DEF Flow
<1>21. CASE LoginRefused
  <2>1. /\ disPc' = "frame" /\ closeState' = CloseRequested /\ hasConnection
        /\ UNCHANGED <<reading, connection, protoVars, outputBuffer, netHolds, poolHeld, netPc,
                       timers>>
    BY <1>21 DEF LoginRefused, Run, DisconnectClient
  <2>2. Change(-1, IF closeState = "none" THEN 1 ELSE 0, 0, 0)
    BY <1>0, <1>21, LoginRefusedChange
  <2>7. /\ hasProtocol /\ closeState # "closing" /\ protocol = "alive"
        /\ connection = "alive"
    <3>1. hasProtocol /\ closeState # "closing"
      BY <1>0, <2>1 DEF Flow, Handshake
    <3>. QED
      BY <1>0, <3>1 DEF Flow, FlowTypes, Handshake, UnderWay
  <2>3. Handshake'
    <3>1. /\ Queued("close")' = Queued("close") + (IF closeState = "none" THEN 1 ELSE 0)
          /\ Queued("releaseProtocol")' = Queued("releaseProtocol")
          /\ Queued("releaseConnection")' = Queued("releaseConnection")
      BY <1>0, <2>2, ChangeType
    <3>. QED
      BY <1>0, <2>1, <2>7, <3>1 DEF Flow, Handshake, UnderWay, protoVars, CloseRequested
  <2>4. Early' /\ Parsing' /\ Afterwards'
    BY <2>1, <2>7 DEF Flow, Early, Parsing, Afterwards, protoVars
  <2>5. Logins'
    BY <1>0, <2>1, <2>2, <2>7, ChangeType DEF Flow, Logins, protoVars
  <2>6. FlowTypes'
    BY <1>0, <2>1 DEF FlowTypes, protoVars
  <2>. QED
    BY <2>3, <2>4, <2>5, <2>6 DEF Flow
<1>22. CASE GameClose
  <2>1. /\ playing /\ hasConnection /\ disPc' = "frame"
        /\ closeState' = CloseRequested /\ tasks' = CloseTask(tasks)
        /\ UNCHANGED <<reading, pendingWrite, connection, protoVars, msgVars, netHolds, poolHeld,
                       netPc, timers>>
    BY <1>22 DEF GameClose
  <2>2. Change(0, IF closeState = "none" THEN 1 ELSE 0, 0, 0)
    BY <1>0, <2>1, CloseTaskChange
  <2>3. Handshake'
    <3>1. /\ Queued("close")' = Queued("close") + (IF closeState = "none" THEN 1 ELSE 0)
          /\ Queued("releaseProtocol")' = Queued("releaseProtocol")
          /\ Queued("releaseConnection")' = Queued("releaseConnection")
      BY <1>0, <2>2, ChangeType
    <3>2. hasProtocol /\ closeState # "closing"
      BY <1>0, <2>1 DEF Flow, Handshake
    <3>. QED
      BY <1>0, <2>1, <3>1, <3>2 DEF Flow, Handshake, UnderWay, protoVars, CloseRequested
  <2>4. Early' /\ Parsing' /\ Afterwards'
    BY <2>1 DEF Flow, Logins, Early, Parsing, Afterwards, protoVars, msgVars
  <2>5. Logins'
    BY <1>0, <2>1, <2>2, ChangeType DEF Flow, Logins, protoVars
  <2>6. FlowTypes'
    BY <1>0, <2>1 DEF FlowTypes, protoVars
  <2>. QED
    BY <2>3, <2>4, <2>5, <2>6 DEF Flow
<1>23. CASE Timer
  <2>0. PICK kind \in timers :
          /\ timers' = timers \ {kind}
          /\ tasks' = Append(tasks, Task(kind))
          /\ UNCHANGED <<connVars, protoVars, msgVars, threadVars, accepted>>
    BY <1>23 DEF Timer
  <2>1. /\ timers' = timers \ {kind} /\ kind \in {"releaseProtocol", "releaseConnection"}
        /\ UNCHANGED <<closeState, reading, pendingWrite, connection, protoVars, outputBuffer,
                       pool, netHolds, poolHeld, netPc, disPc>>
    BY <1>0, <2>0 DEF FlowTypes, connVars, msgVars, threadVars
  <2>2. Change(0, 0, IF kind = "releaseProtocol" THEN 1 ELSE 0,
               IF kind = "releaseConnection" THEN 1 ELSE 0)
    BY <1>0, <2>0, TimerChange
  <2>3. Handshake'
    <3>1. /\ Queued("close")' = Queued("close")
          /\ Queued("releaseProtocol")'
               = Queued("releaseProtocol") + (IF kind = "releaseProtocol" THEN 1 ELSE 0)
          /\ Queued("releaseConnection")'
               = Queued("releaseConnection") + (IF kind = "releaseConnection" THEN 1 ELSE 0)
      BY <1>0, <2>2, ChangeType
    <3>2. /\ UnderWay("releaseProtocol")' = UnderWay("releaseProtocol")
          /\ UnderWay("releaseConnection")' = UnderWay("releaseConnection")
      BY <1>0, <2>0, <2>1, <3>1 DEF UnderWay
    <3>. QED
      BY <2>1, <3>1, <3>2 DEF Flow, Handshake, protoVars
  <2>4. Early' /\ Parsing' /\ Afterwards'
    BY <2>1 DEF Flow, Early, Parsing, Afterwards, protoVars
  <2>5. Logins'
    BY <1>0, <2>1, <2>2, ChangeType DEF Flow, Logins, protoVars
  <2>6. FlowTypes'
    BY <1>0, <2>1 DEF FlowTypes, protoVars
  <2>. QED
    BY <2>3, <2>4, <2>5, <2>6 DEF Flow
<1>. QED
  BY <1>1, <1>2, <1>3, <1>4, <1>5, <1>6, <1>7, <1>8, <1>9, <1>10, <1>11, <1>12, <1>13, <1>14,
     <1>15, <1>16, <1>17, <1>18, <1>19, <1>20, <1>21, <1>22, <1>23
     DEF Next, NetworkThread, ConnectionTask, SendAll
-----------------------------------------------------------------------------
(* The inductive invariant and what follows from it.                       *)
LEMMA LifeInit == Init => Life
<1>. SUFFICES ASSUME Init
              PROVE  Life
  OBVIOUS
<1>. USE DEF Init
<1>1. /\ \A V : Occ(<<>>, V) = 0
      /\ <<>> \in Seq(Msgs) /\ <<>> \in Seq(GoodTasks)
  BY OccEmpty
<1>2. Msgs \ Msgs = {} /\ Cardinality({}) = 0
  BY FS_EmptySet
<1>3. TypeOK
  <2>1. <<>> \in Seq([kind : Kinds, msg : Msgs \cup {NoMsg}])
    OBVIOUS
  <2>2. tasks \in Seq([kind : Kinds, msg : Msgs \cup {NoMsg}])
    BY <2>1
  <2>. QED
    BY <1>1, <2>2 DEF TypeOK
<1>4. WrittenInOrder /\ FlushedBeforeClose /\ Writes
  BY DEF WrittenInOrder, FlushedBeforeClose, Writes
<1>5. RefsCountMessages
  BY <1>2 DEF RefsCountMessages
<1>6. Owners
  <2>1. \A m \in Msgs : Uses(m) = 0
    BY <1>1, ConstantsAssumption DEF Uses
  <2>. QED
    BY <2>1 DEF Owners
<1>7. Handshake
  <2>1. /\ Queued("close") = 0 /\ UnderWay("releaseConnection") = 0
        /\ UnderWay("releaseProtocol") = 0
    BY <1>1 DEF UnderWay, Queued
  <2>2. /\ closeState = "none" /\ connection = "alive" /\ protocol = "none"
        /\ hasProtocol = FALSE /\ hasConnection = FALSE
    OBVIOUS
  <2>. QED
    <3>. HIDE DEF Init
    <3>1. Queued("close") = (IF closeState = "requested" THEN 1 ELSE 0)
      BY <2>1, <2>2
    <3>2. UnderWay("releaseConnection") + (IF connection = "deleted" THEN 1 ELSE 0)
            = (IF closeState = "closing" /\ reading = "none" /\ pendingWrite = 0 THEN 1 ELSE 0)
      BY <2>1, <2>2
    <3>3. UnderWay("releaseProtocol") + (IF protocol = "deleted" THEN 1 ELSE 0)
            + (IF protocol = "none" THEN 1 ELSE 0) + (IF hasProtocol THEN 1 ELSE 0) = 1
      BY <2>1, <2>2
    <3>4. /\ hasConnection = hasProtocol
          /\ hasProtocol <=> protocol # "none" /\ closeState # "closing"
      BY <2>2
    <3>. QED
      BY <3>1, <3>2, <3>3, <3>4 DEF Handshake
<1>8. Early /\ Parsing /\ Afterwards
  BY DEF Early, Parsing, Afterwards
<1>9. Logins
  BY <1>1 DEF Logins, LoginBeforeClose, Queued
<1>. QED
  BY <1>3, <1>4, <1>5, <1>6, <1>7, <1>8, <1>9 DEF Life

LEMMA LifeNext == Life /\ [Next]_vars => Life'
<1>. SUFFICES ASSUME Life, [Next]_vars
              PROVE  Life'
  OBVIOUS
<1>1. /\ TypeOK /\ Output /\ Held /\ Flow /\ Logins /\ Handshake /\ Early
  BY DEF Life, Output, Held, Flow
<1>2. Output' /\ OutTypes'
  BY <1>1, OutputNext
<1>3. Held' /\ MsgTypes'
  BY <1>1, MessagesNext
<1>4. Flow' /\ FlowTypes'
  BY <1>1, FlowNext
<1>5. (tasks \in Seq([kind : Kinds, msg : Msgs \cup {NoMsg}]))'
  <2>1. tasks' \in Seq(GoodTasks)
    BY <1>4 DEF Flow, Logins
  <2>2. GoodTasks \subseteq [kind : Kinds, msg : Msgs \cup {NoMsg}]
    BY TaskFacts
  <2>3. /\ Len(tasks') \in Nat /\ tasks' = [i \in 1 .. Len(tasks') |-> tasks'[i]]
        /\ \A i \in 1 .. Len(tasks') : tasks'[i] \in GoodTasks
    BY <2>1
  <2>4. \A i \in 1 .. Len(tasks') : tasks'[i] \in [kind : Kinds, msg : Msgs \cup {NoMsg}]
    BY <2>2, <2>3
  <2>5. tasks' \in [1 .. Len(tasks') -> [kind : Kinds, msg : Msgs \cup {NoMsg}]]
    BY <2>3, <2>4
  <2>. QED
    BY <2>3, <2>5, SeqDef
<1>6. TypeOK'
  BY <1>2, <1>3, <1>4, <1>5 DEF TypeOK, OutTypes, MsgTypes, FlowTypes
<1>. QED
  BY <1>2, <1>3, <1>4, <1>6 DEF Life, Output, Held, Flow

THEOREM LifeInvariant == Spec => []Life
<1>. QED
  BY LifeInit, LifeNext, PTL DEF Spec

(* What send() took is written in the order of the calls, and before the   *)
(* socket is closed unless a write failed.                                 *)
THEOREM OutputAlwaysComplete == Spec => []OutputComplete
<1>1. Life => OutputComplete
  BY DEF Life, OutputComplete
<1>. QED
  BY <1>1, LifeInvariant, PTL

LEMMA CountIsUnderWay ==
  ASSUME Logins, NEW kind \in TaskKinds
  PROVE  Count(kind) = UnderWay(kind) /\ UnderWay(kind) \in Nat
<1>1. \A i \in 1 .. Len(tasks) : tasks[i] \in GoodTasks
  BY DEF Logins
<1>2. {i \in 1 .. Len(tasks) : tasks[i].kind = kind} = Places(tasks, Of(kind))
  BY <1>1 DEF Places, Of
<1>3. Queued(kind) \in Nat
  BY OccType DEF Logins, Queued
<1>4. Count(kind) = Queued(kind) + (IF kind \in timers THEN 1 ELSE 0)
  BY <1>2 DEF Count, Queued, Occ
<1>. QED
  BY <1>3, <1>4 DEF UnderWay

(* Connection, protocol and messages are counted right and released once,  *)
(* when nobody uses them any more.                                         *)
THEOREM ReleasedWhenUnused == Spec => []DeletedWhenUnused
<1>1. Life => DeletedWhenUnused
  <2>. SUFFICES ASSUME Life
                PROVE  DeletedWhenUnused
    OBVIOUS
  <2>1. TypeOK /\ RefsCountMessages /\ WrittenInOrder /\ Handshake /\ Logins /\ Parsing
        /\ Afterwards
    BY DEF Life
  <2>2. /\ Count("login") = UnderWay("login") /\ Count("close") = UnderWay("close")
        /\ Count("releaseProtocol") = UnderWay("releaseProtocol")
        /\ Count("releaseConnection") = UnderWay("releaseConnection")
    BY <2>1, CountIsUnderWay, KindFacts
  <2>3. /\ UnderWay("login") = Queued("login") /\ UnderWay("close") = Queued("close")
    BY <2>1, QueuedType DEF UnderWay, TypeOK
  <2>4. /\ Queued("login") \in Nat /\ Queued("close") \in Nat
        /\ UnderWay("releaseProtocol") \in Nat /\ UnderWay("releaseConnection") \in Nat
    BY <2>1, QueuedType DEF UnderWay
  <2>5. ReleasedOnce
    BY <2>1, <2>2, <2>3, <2>4 DEF Handshake, ReleasedOnce
  <2>6. NoUseAfterDelete
    <3>1. ASSUME connection = "deleted"
          PROVE  /\ reading = "none" /\ pendingWrite = 0 /\ closeState = "closing"
      BY <2>1, <2>4, <3>1 DEF Handshake
    <3>. QED
      BY <2>1, <2>2, <2>3, <3>1
         DEF Handshake, WrittenInOrder, Parsing, Afterwards, NoUseAfterDelete
  <2>7. ProtocolUnusedAfterDelete
    <3>1. ASSUME protocol = "deleted"
          PROVE  ~hasProtocol
      BY <2>1, <2>4, <3>1 DEF Handshake
    <3>. QED
      BY <2>1, <2>2, <2>3, <2>4, <3>1
         DEF Logins, Afterwards, ProtocolUnusedAfterDelete
  <2>8. LoginFindsConnection
    BY <2>1, <2>2, <2>3 DEF Logins, Handshake, LoginFindsConnection
  <2>. QED
    BY <2>1, <2>5, <2>6, <2>7, <2>8 DEF DeletedWhenUnused
<1>. QED
  BY <1>1, LifeInvariant, PTL
=============================================================================
