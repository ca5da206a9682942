---------------------------- MODULE SessionProofs ----------------------------
(***************************************************************************)
(* Machine-checked proofs about module Session, for any set of Player      *)
(* objects, characters and accounts and any finite set of clients.         *)
(***************************************************************************)
EXTENDS Session, FiniteSetTheorems, TLAPS

(* The protocols that point to a player. *)
Pointing(p) == {c \in Clients : player[c] = p}

(* The phases of a client: one that waits for its login task, or for the   *)
(* scheduled connect(), has no player yet; one that is not there has       *)
(* nothing.                                                                *)
Phases ==
  \A c \in Clients :
    /\ conn[c] = "none" => player[c] = NoPlayer /\ want[c] = NoName /\ ~acceptPackets[c]
    /\ want[c] # NoName => /\ conn[c] \in {"open", "asked"}
                           /\ eventConnect[c] = NoPlayer
    /\ want[c] # NoName \/ eventConnect[c] # NoPlayer
         => conn[c] # "none" /\ player[c] = NoPlayer

(* A deleted player has no reference and no client. *)
Blank ==
  \A p \in Players : body[p] = "none" => refCount[p] = 0 /\ client[p] = NoClient

(* The inductive invariant.                                                *)
Counted == TypeOK /\ RefsCountHolders /\ NoDanglingPointer /\ Phases /\ Blank
Seats == Counted /\ OneBodyPerAccount /\ KeepsControl /\ ClosedMeansOut
-----------------------------------------------------------------------------
(* How many protocols point to a player, and how that changes.             *)
LEMMA PointingNumber ==
  ASSUME NEW p \in Players
  PROVE  /\ IsFiniteSet(Pointing(p))
         /\ Cardinality(Pointing(p)) \in Nat
         /\ \A c \in Clients : player[c] = p => Cardinality(Pointing(p)) # 0
<1>1. Pointing(p) \subseteq Clients /\ IsFiniteSet(Clients)
  BY SessionAssumption DEF Pointing
<1>2. IsFiniteSet(Pointing(p)) /\ Cardinality(Pointing(p)) \in Nat
  BY <1>1, FS_Subset, FS_CardinalityType
<1>3. \A c \in Clients : player[c] = p => c \in Pointing(p)
  BY DEF Pointing
<1>. QED
  BY <1>2, <1>3, FS_EmptySet

LEMMA PointsTo ==
  ASSUME NEW c \in Clients, NEW p \in Players, TypeOK,
         player[c] = NoPlayer, player' = [player EXCEPT ![c] = p]
  PROVE  /\ Cardinality(Pointing(p)') = Cardinality(Pointing(p)) + 1
         /\ \A q \in Players : q # p => Pointing(q)' = Pointing(q)
<1>1. player \in [Clients -> Players \cup {NoPlayer}] /\ NoPlayer \notin Players
  BY SessionAssumption DEF TypeOK
<1>2. Pointing(p)' = Pointing(p) \cup {c} /\ c \notin Pointing(p)
  BY <1>1 DEF Pointing
<1>3. \A q \in Players : q # p => Pointing(q)' = Pointing(q)
  BY <1>1 DEF Pointing
<1>4. Cardinality(Pointing(p) \cup {c}) = Cardinality(Pointing(p)) + 1
  BY <1>2, PointingNumber, FS_AddElement
<1>. QED
  BY <1>2, <1>3, <1>4

LEMMA PointsAway ==
  ASSUME NEW c \in Clients, NEW p \in Players, TypeOK,
         player[c] = p, player' = [player EXCEPT ![c] = NoPlayer]
  PROVE  /\ Cardinality(Pointing(p)') = Cardinality(Pointing(p)) - 1
         /\ \A q \in Players : q # p => Pointing(q)' = Pointing(q)
<1>1. player \in [Clients -> Players \cup {NoPlayer}] /\ NoPlayer \notin Players
  BY SessionAssumption DEF TypeOK
<1>2. Pointing(p)' = Pointing(p) \ {c} /\ c \in Pointing(p)
  BY <1>1 DEF Pointing
<1>3. \A q \in Players : q # p => Pointing(q)' = Pointing(q)
  BY <1>1 DEF Pointing
<1>4. Cardinality(Pointing(p) \ {c}) = Cardinality(Pointing(p)) - 1
  BY <1>2, PointingNumber, FS_RemoveElement
<1>. QED
  BY <1>2, <1>3, <1>4

LEMMA PointsAsBefore ==
  ASSUME player' = player
  PROVE  \A p \in Players : Pointing(p)' = Pointing(p)
BY DEF Pointing

(* Who is counted: RefsCountHolders with the protocols as a set. *)
LEMMA Counting ==
  RefsCountHolders <=>
    \A p \in Players :
      refCount[p] = Cardinality(Pointing(p)) + toRelease[p]
                      + (IF body[p] = "inGame" THEN 1 ELSE 0)
                      + (IF inCheck[p] THEN 1 ELSE 0)
BY DEF RefsCountHolders, Pointing

(* An object that nobody refers to has no other trace either. *)
LEMMA NoneLeft ==
  ASSUME TypeOK, RefsCountHolders, NEW p \in Players, refCount[p] = 0
  PROVE  /\ \A c \in Clients : player[c] # p
         /\ toRelease[p] = 0 /\ ~inCheck[p] /\ body[p] # "inGame"
<1>1. /\ 0 = Cardinality(Pointing(p)) + toRelease[p]
               + (IF body[p] = "inGame" THEN 1 ELSE 0)
               + (IF inCheck[p] THEN 1 ELSE 0)
      /\ toRelease[p] \in Nat /\ Cardinality(Pointing(p)) \in Nat
  BY Counting, PointingNumber DEF TypeOK
<1>2. Cardinality(Pointing(p)) = 0 /\ toRelease[p] = 0 /\ ~inCheck[p] /\ body[p] # "inGame"
  BY <1>1
<1>. QED
  BY <1>2, PointingNumber

LEMMA AskedType ==
  ASSUME TypeOK, NEW cs
  PROVE  /\ Asked(cs) \in [Clients -> ConnStates]
         /\ \A c \in Clients : /\ Asked(cs)[c] = "none" <=> conn[c] = "none"
                               /\ Asked(cs)[c] = "open" => conn[c] = "open"
                               /\ conn[c] \in {"open", "asked"} <=> Asked(cs)[c] \in {"open", "asked"}
                               /\ c \in cs => Asked(cs)[c] # "open"
BY DEF TypeOK, Asked, ConnStates
-----------------------------------------------------------------------------
LEMMA SeatsInit == Init => Seats
<1>. SUFFICES ASSUME Init
              PROVE  Seats
  OBVIOUS
<1>. USE SessionAssumption
<1>1. TypeOK
  BY DEF Init, TypeOK, ConnStates, Bodies
<1>2. RefsCountHolders
  <2>1. \A p \in Players : Pointing(p) = {}
    BY DEF Init, Pointing
  <2>. QED
    BY <2>1, FS_EmptySet DEF Init, RefsCountHolders, Pointing
<1>3. NoDanglingPointer /\ Phases /\ Blank
  BY DEF Init, NoDanglingPointer, Phases, Blank
<1>4. OneBodyPerAccount /\ KeepsControl /\ ClosedMeansOut
  BY DEF Init, OneBodyPerAccount, KeepsControl, ClosedMeansOut, InGame
<1>. QED
  BY <1>1, <1>2, <1>3, <1>4 DEF Seats, Counted

(* Steps that concern connections only. *)
LEMMA ConnSteps ==
  ASSUME Seats, NEW c \in Clients,
         (\E n \in Names : Accept(c, n)) \/ AskClose(c) \/ CloseTask(c)
           \/ (\E p \in Players : LoginNotReplacing(c, p))
  PROVE  Seats'
<1>. USE SessionAssumption
<1>0. /\ TypeOK /\ RefsCountHolders /\ NoDanglingPointer /\ Phases /\ Blank
      /\ OneBodyPerAccount /\ KeepsControl /\ ClosedMeansOut
  BY DEF Seats, Counted
<1>1. UNCHANGED <<gameState, player, acceptPackets, eventConnect, playerVars>>
  BY DEF Accept, AskClose, CloseTask, LoginNotReplacing
<1>2. TypeOK'
  BY <1>0, <1>1, AskedType
  DEF Accept, AskClose, CloseTask, LoginNotReplacing, LoginTask, TypeOK, ConnStates, playerVars
<1>3. RefsCountHolders'
  BY <1>0, <1>1, Counting, PointsAsBefore DEF playerVars, RefsCountHolders
<1>4. /\ \A d \in Clients : /\ conn[d] # "none" => conn'[d] # "none"
                            /\ conn'[d] = "open" /\ acceptPackets[d] => conn[d] = "open"
                            /\ want'[d] # NoName => conn'[d] # "none"
  BY <1>0, AskedType
  DEF Accept, AskClose, CloseTask, LoginNotReplacing, LoginTask, TypeOK, ConnStates, Phases
<1>5. NoDanglingPointer'
  BY <1>0, <1>1, <1>4 DEF NoDanglingPointer, playerVars, TypeOK
<1>6. Phases'
  BY <1>0, <1>1, AskedType
  DEF Accept, AskClose, CloseTask, LoginNotReplacing, LoginTask, TypeOK, ConnStates, Phases,
      NoDanglingPointer
<1>7. Blank' /\ OneBodyPerAccount' /\ ClosedMeansOut'
  BY <1>0, <1>1 DEF Blank, OneBodyPerAccount, ClosedMeansOut, InGame, playerVars
<1>8. KeepsControl'
  BY <1>0, <1>1, <1>4 DEF KeepsControl, InGame, playerVars
<1>. QED
  BY <1>2, <1>3, <1>5, <1>6, <1>7, <1>8 DEF Seats, Counted

(* Steps that take players off the map. *)
LEMMA RemoveSteps ==
  ASSUME Seats, NEW ps \in SUBSET InGame, NEW cs, RemoveCreatures(ps), conn' = Asked(cs),
         gameState' \in GameStates,
         gameState' # gameState /\ gameState' = "closed"
           => \A p \in InGame : name[p] \notin Privileged => p \in ps,
         UNCHANGED <<want, player, acceptPackets, name, client, refCount, isConnecting, inCheck>>
  PROVE  Seats'
<1>. USE SessionAssumption
<1>0. /\ TypeOK /\ RefsCountHolders /\ NoDanglingPointer /\ Phases /\ Blank
      /\ OneBodyPerAccount /\ KeepsControl /\ ClosedMeansOut
  BY DEF Seats, Counted
<1>1. /\ body' = [p \in Players |-> IF p \in ps THEN "removed" ELSE body[p]]
      /\ toRelease' = [p \in Players |-> IF p \in ps THEN toRelease[p] + 1 ELSE toRelease[p]]
      /\ eventConnect' = [c \in Clients |-> IF eventConnect[c] \in ps THEN Gone ELSE eventConnect[c]]
  BY DEF RemoveCreatures, Freed
<1>2. TypeOK'
  BY <1>0, <1>1, AskedType DEF TypeOK, Bodies
<1>3. RefsCountHolders'
  <2>1. \A p \in Players : Cardinality(Pointing(p)') = Cardinality(Pointing(p))
                             /\ Cardinality(Pointing(p)) \in Nat
    BY PointsAsBefore, PointingNumber
  <2>2. ASSUME NEW p \in Players
        PROVE  refCount'[p] = Cardinality(Pointing(p)') + toRelease'[p]
                 + (IF body'[p] = "inGame" THEN 1 ELSE 0) + (IF inCheck'[p] THEN 1 ELSE 0)
    <3>1. refCount[p] = Cardinality(Pointing(p)) + toRelease[p]
            + (IF body[p] = "inGame" THEN 1 ELSE 0) + (IF inCheck[p] THEN 1 ELSE 0)
      BY <1>0, Counting
    <3>2. CASE p \in ps
      BY <1>0, <1>1, <2>1, <3>1, <3>2 DEF TypeOK, InGame
    <3>3. CASE p \notin ps
      BY <1>0, <1>1, <2>1, <3>1, <3>3 DEF TypeOK
    <3>. QED
      BY <3>2, <3>3
  <2>. QED
    BY <2>2 DEF RefsCountHolders, Pointing
<1>4. \A c \in Clients : eventConnect'[c] = NoPlayer <=> eventConnect[c] = NoPlayer
  BY <1>0, <1>1 DEF TypeOK, InGame
<1>5. \A p \in Players : /\ body'[p] = "none" <=> body[p] = "none"
                         /\ body'[p] = "inGame" <=> body[p] = "inGame" /\ p \notin ps
  BY <1>0, <1>1 DEF TypeOK, InGame
<1>6. NoDanglingPointer' /\ Phases' /\ Blank'
  BY <1>0, <1>4, <1>5, AskedType DEF NoDanglingPointer, Phases, Blank, TypeOK
<1>7. OneBodyPerAccount' /\ ClosedMeansOut'
  BY <1>0, <1>5 DEF OneBodyPerAccount, ClosedMeansOut, InGame, TypeOK
<1>8. KeepsControl'
  BY <1>0, <1>5, AskedType DEF KeepsControl, InGame, TypeOK
<1>. QED
  BY <1>2, <1>3, <1>6, <1>7, <1>8 DEF Seats, Counted

(* A character enters with a new Player object: it is let in, refused, or  *)
(* kicked by a login script.                                               *)
LEMMA NewSteps ==
  ASSUME Seats, NEW c \in Clients, NEW p \in Players,
         LoginRefused(c, p) \/ LoginPlaced(c, p) \/ LoginKicked(c, p)
  PROVE  Seats'
<1>. USE SessionAssumption
<1>0. /\ TypeOK /\ RefsCountHolders /\ NoDanglingPointer /\ Phases /\ Blank
      /\ OneBodyPerAccount /\ KeepsControl /\ ClosedMeansOut
  BY DEF Seats, Counted
<1>. DEFINE n == want[c]
<1>1. /\ n # NoName /\ n \in Names /\ want' = [want EXCEPT ![c] = NoName]
      /\ BodiesOf(n) = {} /\ body[p] = "none"
      /\ player' = [player EXCEPT ![c] = p]
      /\ client' = [client EXCEPT ![p] = c]
      /\ name' = [name EXCEPT ![p] = n]
      /\ UNCHANGED <<gameState, isConnecting, eventConnect>>
  BY <1>0 DEF LoginRefused, LoginPlaced, LoginKicked, LoginPasses, LoginTask, NewPlayer, TypeOK
<1>2. /\ player[c] = NoPlayer /\ conn[c] \in {"open", "asked"} /\ eventConnect[c] = NoPlayer
      /\ refCount[p] = 0 /\ client[p] = NoClient
      /\ toRelease[p] = 0 /\ ~inCheck[p]
      /\ \A d \in Clients : player[d] # p
  BY <1>0, <1>1, NoneLeft DEF Phases, Blank
<1>3. \/ /\ LoginRefused(c, p)
         /\ body' = [body EXCEPT ![p] = "made"]
         /\ refCount' = [refCount EXCEPT ![p] = 1]
         /\ conn' = Asked({c})
         /\ UNCHANGED <<acceptPackets, inCheck, toRelease>>
      \/ /\ LoginPlaced(c, p)
         /\ body' = [body EXCEPT ![p] = "inGame"]
         /\ refCount' = [refCount EXCEPT ![p] = 3]
         /\ inCheck' = [inCheck EXCEPT ![p] = TRUE]
         /\ acceptPackets' = [acceptPackets EXCEPT ![c] = TRUE]
         /\ UNCHANGED <<conn, toRelease>>
      \/ /\ LoginKicked(c, p)
         /\ body' = [body EXCEPT ![p] = "removed"]
         /\ refCount' = [refCount EXCEPT ![p] = 3]
         /\ inCheck' = [inCheck EXCEPT ![p] = TRUE]
         /\ acceptPackets' = [acceptPackets EXCEPT ![c] = TRUE]
         /\ toRelease' = [q \in Players |-> IF q = p THEN toRelease[q] + 1 ELSE toRelease[q]]
         /\ conn' = Asked({c})
  BY DEF LoginRefused, LoginPlaced, LoginKicked, LoginPasses, LoginRef, PlaceRefs, Freed
<1>4. TypeOK'
  <2>1. /\ want' \in [Clients -> Names \cup {NoName}]
        /\ player' \in [Clients -> Players \cup {NoPlayer}]
        /\ client' \in [Players -> Clients \cup {NoClient}]
        /\ name' \in [Players -> Names \cup {NoName}]
        /\ UNCHANGED <<gameState, isConnecting, eventConnect>>
    BY <1>0, <1>1 DEF TypeOK
  <2>2. conn' \in [Clients -> ConnStates]
    BY <1>0, <1>3, AskedType DEF TypeOK
  <2>4. /\ acceptPackets' \in [Clients -> BOOLEAN]
        /\ inCheck' \in [Players -> BOOLEAN]
    BY <1>0, <1>3 DEF TypeOK
  <2>3. /\ body' \in [Players -> Bodies]
        /\ refCount' \in [Players -> Nat]
        /\ toRelease' \in [Players -> Nat]
    BY <1>0, <1>3 DEF TypeOK, Bodies
  <2>. QED
    BY <1>0, <2>1, <2>2, <2>3, <2>4 DEF TypeOK
<1>5. RefsCountHolders'
  <2>1. /\ Cardinality(Pointing(p)) = 0
        /\ Cardinality(Pointing(p)') = 1
        /\ \A q \in Players : q # p => Pointing(q)' = Pointing(q)
    <3>1. Pointing(p) = {}
      BY <1>2 DEF Pointing
    <3>2. /\ Cardinality(Pointing(p)') = Cardinality(Pointing(p)) + 1
          /\ \A q \in Players : q # p => Pointing(q)' = Pointing(q)
      BY <1>0, <1>1, <1>2, PointsTo
    <3>3. Cardinality(Pointing(p)) = 0
      BY <3>1, FS_EmptySet
    <3>. QED
      BY <3>2, <3>3
  <2>2. ASSUME NEW q \in Players
        PROVE  refCount'[q] = Cardinality(Pointing(q)') + toRelease'[q]
                 + (IF body'[q] = "inGame" THEN 1 ELSE 0) + (IF inCheck'[q] THEN 1 ELSE 0)
    <3>1. CASE q = p
      BY <1>0, <1>2, <1>3, <2>1, <3>1 DEF TypeOK
    <3>2. CASE q # p
      <4>1. refCount[q] = Cardinality(Pointing(q)) + toRelease[q]
            + (IF body[q] = "inGame" THEN 1 ELSE 0) + (IF inCheck[q] THEN 1 ELSE 0)
        BY <1>0, Counting
      <4>2. /\ refCount'[q] = refCount[q] /\ toRelease'[q] = toRelease[q]
            /\ body'[q] = body[q] /\ inCheck'[q] = inCheck[q]
        BY <1>0, <1>3, <3>2 DEF TypeOK
      <4>. QED
        BY <2>1, <3>2, <4>1, <4>2
    <3>. QED
      BY <3>1, <3>2
  <2>. QED
    BY <2>2 DEF RefsCountHolders, Pointing
<1>6. \A d \in Clients : /\ conn'[d] = "none" <=> conn[d] = "none"
                         /\ conn'[d] = "open" => conn[d] = "open"
                         /\ conn[d] \in {"open", "asked"} <=> conn'[d] \in {"open", "asked"}
                         /\ d # c => acceptPackets'[d] = acceptPackets[d]
  BY <1>0, <1>3, AskedType DEF TypeOK
<1>7. \A q \in Players : q # p => /\ body'[q] = body[q] /\ client'[q] = client[q]
                                  /\ name'[q] = name[q] /\ refCount'[q] = refCount[q]
  BY <1>0, <1>1, <1>3 DEF TypeOK
<1>8. body'[p] # "none" /\ client'[p] = c /\ name'[p] = n
      /\ (body'[p] = "inGame" => LoginPlaced(c, p) /\ conn'[c] = conn[c])
  BY <1>0, <1>1, <1>3 DEF TypeOK
<1>9. \A d \in Clients : player'[d] = (IF d = c THEN p ELSE player[d])
                         /\ want'[d] = (IF d = c THEN NoName ELSE want[d])
  BY <1>0, <1>1 DEF TypeOK
<1>10. NoDanglingPointer'
  <2>1. \A d \in Clients : player'[d] # NoPlayer => body'[player'[d]] # "none"
    BY <1>0, <1>2, <1>7, <1>8, <1>9 DEF NoDanglingPointer, TypeOK
  <2>2. \A d \in Clients : eventConnect'[d] # NoPlayer \/ want'[d] # NoName => conn'[d] # "none"
    BY <1>0, <1>1, <1>6, <1>9 DEF NoDanglingPointer, TypeOK
  <2>3. \A q \in Players :
          client'[q] # NoClient => conn'[client'[q]] # "none" /\ player'[client'[q]] = q
    BY <1>0, <1>2, <1>6, <1>7, <1>8, <1>9 DEF NoDanglingPointer, TypeOK
  <2>. QED
    BY <2>1, <2>2, <2>3 DEF NoDanglingPointer
<1>11. Phases' /\ Blank'
  BY <1>0, <1>1, <1>2, <1>6, <1>7, <1>8, <1>9 DEF Phases, Blank, TypeOK
<1>12. OneBodyPerAccount'
  <2>1. ASSUME NEW q \in Players, body'[q] = "inGame", q # p, body'[p] = "inGame",
               NEW a \in Accounts, name'[p] \in a, name'[q] \in a
        PROVE  FALSE
    <3>1. ~AccountBusy(n) /\ q \in InGame /\ name'[q] = name[q] /\ name'[p] = n
      BY <1>7, <1>8, <2>1 DEF LoginPlaced, LoginPasses, InGame
    <3>2. name[q] # n
      BY <1>1, <3>1 DEF BodiesOf
    <3>. QED
      BY <2>1, <3>1, <3>2 DEF AccountBusy
  <2>2. ASSUME NEW q \in InGame', NEW r \in InGame', NEW a \in Accounts,
               name'[q] \in a, name'[r] \in a
        PROVE  q = r
    <3>1. CASE q # p /\ r # p
      BY <1>0, <1>7, <2>2, <3>1 DEF OneBodyPerAccount, InGame
    <3>2. CASE q = p \/ r = p
      BY <2>1, <2>2, <3>2 DEF InGame
    <3>. QED
      BY <3>1, <3>2
  <2>. QED
    BY <2>2 DEF OneBodyPerAccount
<1>13. KeepsControl'
  BY <1>0, <1>2, <1>6, <1>7, <1>8, <1>9 DEF KeepsControl, InGame, TypeOK
<1>14. ClosedMeansOut'
  <2>1. body'[p] = "inGame" /\ gameState = "closed" => n \in Privileged
    BY <1>8 DEF LoginPlaced, LoginPasses, ClosedTo
  <2>. QED
    BY <1>0, <1>1, <1>7, <1>8, <2>1 DEF ClosedMeansOut, InGame
<1>. QED
  BY <1>4, <1>5, <1>10, <1>11, <1>12, <1>13, <1>14 DEF Seats, Counted

(* A client is told to wait for the place of another. *)
LEMMA ReplaceStep ==
  ASSUME Seats, NEW c \in Clients, NEW p \in Players, LoginReplaces(c, p)
  PROVE  Seats'
<1>. USE SessionAssumption
<1>0. /\ TypeOK /\ RefsCountHolders /\ NoDanglingPointer /\ Phases /\ Blank
      /\ OneBodyPerAccount /\ KeepsControl /\ ClosedMeansOut
  BY DEF Seats, Counted
<1>1. /\ want[c] # NoName /\ want' = [want EXCEPT ![c] = NoName]
      /\ conn' = Asked({client[p]})
      /\ isConnecting' = [isConnecting EXCEPT ![p] = TRUE]
      /\ eventConnect' = [eventConnect EXCEPT ![c] = p]
      /\ UNCHANGED <<gameState, player, acceptPackets, body, name, client, refCount, inCheck,
                     toRelease>>
  BY DEF LoginReplaces, LoginTask
<1>2. TypeOK'
  BY <1>0, <1>1, AskedType DEF TypeOK
<1>3. RefsCountHolders'
  BY <1>0, <1>1 DEF RefsCountHolders
<1>4. NoDanglingPointer' /\ Phases' /\ Blank'
  BY <1>0, <1>1, AskedType DEF NoDanglingPointer, Phases, Blank, TypeOK
<1>5. OneBodyPerAccount' /\ ClosedMeansOut'
  BY <1>0, <1>1 DEF OneBodyPerAccount, ClosedMeansOut, InGame
<1>6. KeepsControl'
  BY <1>0, <1>1, AskedType DEF KeepsControl, InGame, TypeOK
<1>. QED
  BY <1>2, <1>3, <1>4, <1>5, <1>6 DEF Seats, Counted

(* A client takes over a player who is in the game without one, at once or *)
(* by the scheduled connect().                                             *)
LEMMA ConnectSteps ==
  ASSUME Seats, NEW c \in Clients,
         Connect(c) \/ \E p \in Players : LoginReconnects(c, p)
  PROVE  Seats'
<1>. USE SessionAssumption
<1>0. /\ TypeOK /\ RefsCountHolders /\ NoDanglingPointer /\ Phases /\ Blank
      /\ OneBodyPerAccount /\ KeepsControl /\ ClosedMeansOut
  BY DEF Seats, Counted
<1>1. PICK p : /\ ConnectTo(c, p)
               /\ want' \in {want, [want EXCEPT ![c] = NoName]}
               /\ eventConnect' \in {eventConnect, [eventConnect EXCEPT ![c] = NoPlayer]}
  BY DEF Connect, LoginReconnects, LoginTask
<1>2. player[c] = NoPlayer /\ conn[c] # "none" /\ want'[c] = NoName /\ eventConnect'[c] = NoPlayer
  BY <1>0 DEF Connect, LoginReconnects, LoginTask, Phases, TypeOK
<1>3. UNCHANGED <<gameState, body, name, inCheck, toRelease>>
  BY <1>1 DEF ConnectTo
<1>4. OneBodyPerAccount' /\ ClosedMeansOut'
  BY <1>0, <1>3 DEF OneBodyPerAccount, ClosedMeansOut, InGame
<1>5. CASE Connectable(p)
  <2>1. /\ p \in Players /\ body[p] = "inGame" /\ client[p] = NoClient
        /\ player' = [player EXCEPT ![c] = p]
        /\ refCount' = [refCount EXCEPT ![p] = @ + 1]
        /\ isConnecting' = [isConnecting EXCEPT ![p] = FALSE]
        /\ client' = [client EXCEPT ![p] = c]
        /\ acceptPackets' = [acceptPackets EXCEPT ![c] = TRUE]
        /\ conn' = conn
    BY <1>1, <1>5 DEF ConnectTo, Connectable, InGame
  <2>2. TypeOK'
    BY <1>0, <1>1, <1>3, <2>1 DEF TypeOK
  <2>3. RefsCountHolders'
    <3>1. /\ Cardinality(Pointing(p)') = Cardinality(Pointing(p)) + 1
          /\ \A q \in Players : q # p => Pointing(q)' = Pointing(q)
          /\ \A q \in Players : Cardinality(Pointing(q)) \in Nat
      BY <1>0, <1>2, <2>1, PointsTo, PointingNumber
    <3>2. ASSUME NEW q \in Players
          PROVE  refCount'[q] = Cardinality(Pointing(q)') + toRelease'[q]
                   + (IF body'[q] = "inGame" THEN 1 ELSE 0) + (IF inCheck'[q] THEN 1 ELSE 0)
      <4>1. refCount[q] = Cardinality(Pointing(q)) + toRelease[q]
            + (IF body[q] = "inGame" THEN 1 ELSE 0) + (IF inCheck[q] THEN 1 ELSE 0)
        BY <1>0, Counting
      <4>. QED
        BY <1>0, <1>3, <2>1, <3>1, <4>1 DEF TypeOK
    <3>. QED
      BY <3>2 DEF RefsCountHolders, Pointing
  <2>4. NoDanglingPointer' /\ Phases' /\ Blank'
    BY <1>0, <1>1, <1>2, <1>3, <2>1 DEF NoDanglingPointer, Phases, Blank, TypeOK
  <2>5. KeepsControl'
    BY <1>0, <1>2, <1>3, <2>1 DEF KeepsControl, InGame, TypeOK
  <2>. QED
    BY <1>4, <2>2, <2>3, <2>4, <2>5 DEF Seats, Counted
<1>6. CASE ~Connectable(p)
  <2>1. /\ conn' = Asked({c})
        /\ UNCHANGED <<player, refCount, isConnecting, client, acceptPackets>>
    BY <1>1, <1>6 DEF ConnectTo
  <2>2. TypeOK'
    BY <1>0, <1>1, <1>3, <2>1, AskedType DEF TypeOK
  <2>3. RefsCountHolders'
    BY <1>0, <1>3, <2>1 DEF RefsCountHolders
  <2>4. NoDanglingPointer' /\ Phases' /\ Blank'
    BY <1>0, <1>1, <1>2, <1>3, <2>1, AskedType DEF NoDanglingPointer, Phases, Blank, TypeOK
  <2>5. KeepsControl'
    BY <1>0, <1>3, <2>1, AskedType DEF KeepsControl, InGame, TypeOK
  <2>. QED
    BY <1>4, <2>2, <2>3, <2>4, <2>5 DEF Seats, Counted
<1>. QED
  BY <1>5, <1>6

(* The protocol is released, and deleted unless something still holds it.  *)
LEMMA ReleaseStep ==
  ASSUME Seats, NEW c \in Clients, NEW held \in BOOLEAN, ReleaseProtocol(c, held)
  PROVE  Seats'
<1>. USE SessionAssumption
<1>0. /\ TypeOK /\ RefsCountHolders /\ NoDanglingPointer /\ Phases /\ Blank
      /\ OneBodyPerAccount /\ KeepsControl /\ ClosedMeansOut
  BY DEF Seats, Counted
<1>1. /\ conn[c] \in {"closed", "released"}
      /\ UNCHANGED <<gameState, want, eventConnect, body, name, refCount, isConnecting, inCheck>>
  BY DEF ReleaseProtocol
<1>2. /\ client' \in [Players -> Clients \cup {NoClient}]
      /\ \A p \in Players : client'[p] = IF client[p] = c THEN NoClient ELSE client[p]
  BY <1>0 DEF ReleaseProtocol, Leaves, NoDanglingPointer, TypeOK
<1>3. OneBodyPerAccount' /\ ClosedMeansOut' /\ Blank'
  BY <1>0, <1>1, <1>2 DEF OneBodyPerAccount, ClosedMeansOut, InGame, Blank
<1>4. CASE Deletable(c) /\ ~held
  <2>1. /\ conn' = [conn EXCEPT ![c] = "none"]
        /\ player' = [player EXCEPT ![c] = NoPlayer]
        /\ acceptPackets' = [acceptPackets EXCEPT ![c] = FALSE]
        /\ toRelease' = [p \in Players |-> IF p \in {player[c]} \ {NoPlayer}
                                           THEN toRelease[p] + 1 ELSE toRelease[p]]
        /\ eventConnect[c] = NoPlayer
    BY <1>4 DEF ReleaseProtocol, Freed, Deletable
  <2>2. TypeOK'
    BY <1>0, <1>1, <1>2, <2>1 DEF TypeOK, ConnStates
  <2>3. RefsCountHolders'
    <3>1. CASE player[c] = NoPlayer
      <4>1. toRelease' = toRelease /\ player' = player
        BY <1>0, <2>1, <3>1 DEF TypeOK
      <4>. QED
        BY <1>0, <1>1, <4>1 DEF RefsCountHolders
    <3>2. CASE player[c] # NoPlayer
      <4>. DEFINE p == player[c]
      <4>1. p \in Players
        BY <1>0, <3>2 DEF TypeOK
      <4>2. /\ \A q \in Players : q # p => Cardinality(Pointing(q)') = Cardinality(Pointing(q))
            /\ Cardinality({d \in Clients : player'[d] = p}) = Cardinality({d \in Clients : player[d] = p}) - 1
            /\ \A q \in Players : Cardinality(Pointing(q)) \in Nat
        <5>1. PICK r \in Players : r = p
          BY <4>1
        <5>2. /\ Cardinality(Pointing(r)') = Cardinality(Pointing(r)) - 1
              /\ \A q \in Players : q # r => Pointing(q)' = Pointing(q)
          BY <1>0, <2>1, <5>1, PointsAway
        <5>. QED
          BY <5>1, <5>2, PointingNumber DEF Pointing
      <4>3. ASSUME NEW q \in Players
            PROVE  refCount'[q] = Cardinality({d \in Clients : player'[d] = q}) + toRelease'[q]
                     + (IF body'[q] = "inGame" THEN 1 ELSE 0) + (IF inCheck'[q] THEN 1 ELSE 0)
        <5>1. refCount[q] = Cardinality({d \in Clients : player[d] = q}) + toRelease[q]
                + (IF body[q] = "inGame" THEN 1 ELSE 0) + (IF inCheck[q] THEN 1 ELSE 0)
          BY <1>0 DEF RefsCountHolders
        <5>2. Cardinality({d \in Clients : player[d] = q}) \in Nat /\ toRelease[q] \in Nat
          BY <1>0, <4>2 DEF Pointing, TypeOK
        <5>3. CASE q = p
          BY <1>1, <2>1, <3>2, <4>2, <5>1, <5>2, <5>3
        <5>4. CASE q # p
          <6>1. Cardinality({d \in Clients : player'[d] = q}) = Cardinality({d \in Clients : player[d] = q})
            BY <4>2, <5>4 DEF Pointing
          <6>. QED
            BY <1>1, <2>1, <5>1, <5>4, <6>1
        <5>. QED
          BY <5>3, <5>4
      <4>. QED
        BY <4>3 DEF RefsCountHolders
    <3>. QED
      BY <3>1, <3>2
  <2>4. NoDanglingPointer'
    BY <1>0, <1>1, <1>2, <2>1 DEF NoDanglingPointer, Phases, TypeOK
  <2>5. Phases'
    BY <1>0, <1>1, <2>1 DEF Phases, TypeOK
  <2>6. KeepsControl'
    BY <1>0, <1>1, <1>2, <2>1 DEF KeepsControl, InGame, TypeOK
  <2>. QED
    BY <1>3, <2>2, <2>3, <2>4, <2>5, <2>6 DEF Seats, Counted
<1>5. CASE ~(Deletable(c) /\ ~held)
  <2>1. /\ conn' = [conn EXCEPT ![c] = "released"]
        /\ UNCHANGED <<player, acceptPackets, toRelease>>
    BY <1>5 DEF ReleaseProtocol
  <2>2. TypeOK'
    BY <1>0, <1>1, <1>2, <2>1 DEF TypeOK, ConnStates
  <2>3. RefsCountHolders'
    BY <1>0, <1>1, <2>1 DEF RefsCountHolders
  <2>4. NoDanglingPointer' /\ Phases'
    BY <1>0, <1>1, <1>2, <2>1 DEF NoDanglingPointer, Phases, TypeOK
  <2>5. KeepsControl'
    BY <1>0, <1>1, <1>2, <2>1 DEF KeepsControl, InGame, TypeOK
  <2>. QED
    BY <1>3, <2>2, <2>3, <2>4, <2>5 DEF Seats, Counted
<1>. QED
  BY <1>4, <1>5

(* Game::cleanup deletes the players nobody refers to, and no others.      *)
LEMMA CleanupStep ==
  ASSUME Seats, NEW unchecked \in SUBSET Removed, Cleanup(unchecked)
  PROVE  Seats'
<1>. USE SessionAssumption
<1>0. /\ TypeOK /\ RefsCountHolders /\ NoDanglingPointer /\ Phases /\ Blank
      /\ OneBodyPerAccount /\ KeepsControl /\ ClosedMeansOut
  BY DEF Seats, Counted
<1>. DEFINE rel(p) == toRelease[p] + (IF p \in unchecked THEN 1 ELSE 0)
            del(p) == body[p] # "none" /\ refCount[p] = rel(p)
<1>1. /\ refCount' = [p \in Players |-> refCount[p] - rel(p)]
      /\ toRelease' = [p \in Players |-> 0]
      /\ inCheck' = [p \in Players |-> inCheck[p] /\ p \notin unchecked]
      /\ body' = [p \in Players |-> IF del(p) THEN "none" ELSE body[p]]
      /\ name' = [p \in Players |-> IF del(p) THEN NoName ELSE name[p]]
      /\ client' = [p \in Players |-> IF del(p) THEN NoClient ELSE client[p]]
      /\ UNCHANGED <<gameState, clientVars>>
  BY DEF Cleanup
<1>2. isConnecting' \in [Players -> BOOLEAN]
  BY DEF Cleanup
<1>3. ASSUME NEW p \in Players
      PROVE  /\ refCount[p] - rel(p) = Cardinality(Pointing(p))
                  + (IF body[p] = "inGame" THEN 1 ELSE 0)
                  + (IF inCheck[p] /\ p \notin unchecked THEN 1 ELSE 0)
             /\ rel(p) \in Nat
             /\ refCount[p] - rel(p) \in Nat
             /\ Cardinality(Pointing(p)) \in Nat
  <2>1. /\ refCount[p] = Cardinality(Pointing(p)) + toRelease[p]
                  + (IF body[p] = "inGame" THEN 1 ELSE 0) + (IF inCheck[p] THEN 1 ELSE 0)
        /\ Cardinality(Pointing(p)) \in Nat /\ toRelease[p] \in Nat
        /\ p \in unchecked => inCheck[p]
    BY <1>0, Counting, PointingNumber DEF TypeOK, Removed
  <2>. QED
    BY <2>1
<1>4. \A p \in Players : del(p) => body[p] # "inGame" /\ \A c \in Clients : player[c] # p
  <2>1. ASSUME NEW p \in Players, del(p)
        PROVE  body[p] # "inGame" /\ Cardinality(Pointing(p)) = 0
    <3>1. 0 = Cardinality(Pointing(p))
                  + (IF body[p] = "inGame" THEN 1 ELSE 0)
                  + (IF inCheck[p] /\ p \notin unchecked THEN 1 ELSE 0)
      BY <1>0, <1>3, <2>1 DEF TypeOK
    <3>. QED
      BY <1>3, <3>1
  <2>. QED
    BY <2>1, PointingNumber
<1>5. TypeOK'
  <2>1. refCount' \in [Players -> Nat] /\ toRelease' \in [Players -> Nat]
    BY <1>1, <1>3
  <2>2. inCheck' \in [Players -> BOOLEAN]
    BY <1>1
  <2>3. /\ body' \in [Players -> Bodies]
        /\ name' \in [Players -> Names \cup {NoName}]
        /\ client' \in [Players -> Clients \cup {NoClient}]
    BY <1>0, <1>1 DEF TypeOK, Bodies
  <2>. QED
    BY <1>0, <1>1, <1>2, <2>1, <2>2, <2>3 DEF TypeOK, clientVars
<1>6. RefsCountHolders'
  <2>1. \A p \in Players : Pointing(p)' = Pointing(p)
    BY <1>1 DEF Pointing, clientVars
  <2>2. \A p \in Players : body'[p] = "inGame" <=> body[p] = "inGame"
    BY <1>1, <1>4
  <2>3. ASSUME NEW p \in Players
        PROVE  refCount'[p] = Cardinality(Pointing(p)') + toRelease'[p]
                 + (IF body'[p] = "inGame" THEN 1 ELSE 0) + (IF inCheck'[p] THEN 1 ELSE 0)
    <3>1. refCount'[p] = refCount[p] - rel(p) /\ toRelease'[p] = 0
      BY <1>1
    <3>2. inCheck'[p] <=> inCheck[p] /\ p \notin unchecked
      BY <1>1
    <3>3. refCount'[p] = Cardinality(Pointing(p))
                  + (IF body[p] = "inGame" THEN 1 ELSE 0)
                  + (IF inCheck[p] /\ p \notin unchecked THEN 1 ELSE 0)
      BY <1>3, <3>1
    <3>. QED
      BY <1>3, <2>1, <2>2, <3>1, <3>2, <3>3
  <2>. QED
    BY <2>3 DEF RefsCountHolders, Pointing
<1>7. NoDanglingPointer'
  BY <1>0, <1>1, <1>4 DEF NoDanglingPointer, clientVars, TypeOK
<1>8. Phases'
  BY <1>0, <1>1 DEF Phases, clientVars
<1>9. Blank'
  <2>1. ASSUME NEW p \in Players, body'[p] = "none"
        PROVE  refCount'[p] = 0 /\ client'[p] = NoClient
    <3>1. CASE del(p)
      BY <1>0, <1>1, <1>3, <3>1 DEF TypeOK
    <3>2. CASE ~del(p)
      <4>1. refCount[p] = 0 /\ client[p] = NoClient
        BY <1>0, <1>1, <2>1, <3>2 DEF Blank
      <4>2. refCount'[p] = refCount[p] - rel(p) /\ client'[p] = client[p]
        BY <1>1, <3>2
      <4>. QED
        BY <1>3, <4>1, <4>2
    <3>. QED
      BY <3>1, <3>2
  <2>. QED
    BY <2>1 DEF Blank
<1>10. \A p \in InGame' : p \in InGame /\ name'[p] = name[p] /\ client'[p] = client[p]
  BY <1>1, <1>4 DEF InGame
<1>11. OneBodyPerAccount' /\ ClosedMeansOut' /\ KeepsControl'
  <2>1. OneBodyPerAccount'
    BY <1>0, <1>10 DEF OneBodyPerAccount
  <2>2. ClosedMeansOut'
    BY <1>0, <1>1, <1>10 DEF ClosedMeansOut
  <2>3. KeepsControl'
    BY <1>0, <1>1, <1>10 DEF KeepsControl, clientVars
  <2>. QED
    BY <2>1, <2>2, <2>3
<1>. QED
  BY <1>5, <1>6, <1>7, <1>8, <1>9, <1>11 DEF Seats, Counted
-----------------------------------------------------------------------------
LEMMA SeatsNext == Seats /\ [Next]_vars => Seats'
<1>. SUFFICES ASSUME Seats, [Next]_vars
              PROVE  Seats'
  OBVIOUS
<1>. USE SessionAssumption
<1>0. /\ TypeOK /\ NoDanglingPointer
  BY DEF Seats, Counted
<1>1. ASSUME NEW c \in Clients, ClientStep(c), ~Logout(c)
      PROVE  Seats'
  BY <1>1, ConnSteps, NewSteps, ReplaceStep, ConnectSteps, ReleaseStep DEF ClientStep, Login
<1>2. ASSUME NEW c \in Clients, Logout(c)
      PROVE  Seats'
  BY <1>0, <1>2, RemoveSteps DEF Logout, TypeOK
<1>3. ASSUME NEW ps \in SUBSET InGame
      PROVE  ({p \in ps : client[p] = NoClient}
                \cup {player[c] : c \in {client[p] : p \in ps} \ {NoClient}}) \cap InGame = ps
  BY <1>0 DEF NoDanglingPointer, InGame
<1>4. ASSUME NEW p \in Players, KickPlayer(p)
      PROVE  Seats'
  <2>1. {p} \in SUBSET InGame
    BY <1>4 DEF KickPlayer
  <2>2. \E cs : RemoveCreatures({p}) /\ conn' = Asked(cs)
    BY <1>3, <1>4, <2>1 DEF KickPlayer, Kick
  <2>. QED
    BY <1>0, <1>4, <2>1, <2>2, RemoveSteps DEF KickPlayer, TypeOK
<1>5. ASSUME NEW p \in Players, Die(p)
      PROVE  Seats'
  <2>1. conn = Asked({})
    BY <1>0 DEF TypeOK, Asked
  <2>2. conn' = Asked({}) /\ {p} \in SUBSET InGame
    BY <1>5, <2>1 DEF Die
  <2>. QED
    BY <1>0, <1>5, <2>2, RemoveSteps DEF Die, TypeOK
<1>6. ASSUME NEW s \in GameStates, SetGameState(s)
      PROVE  Seats'
  <2>1. MustLeave(s) \in SUBSET InGame
    BY DEF MustLeave
  <2>2. \E cs : RemoveCreatures(MustLeave(s)) /\ conn' = Asked(cs)
    BY <1>3, <1>6, <2>1 DEF SetGameState, Kick
  <2>3. s = "closed" => \A p \in InGame : name[p] \notin Privileged => p \in MustLeave(s)
    BY DEF MustLeave
  <2>. QED
    BY <1>0, <1>6, <2>1, <2>2, <2>3, RemoveSteps DEF SetGameState
<1>7. ASSUME NEW ps \in SUBSET Removed, Cleanup(ps)
      PROVE  Seats'
  BY <1>7, CleanupStep
<1>8. CASE UNCHANGED vars
  <2>1. UNCHANGED vars => TypeOK' /\ RefsCountHolders' /\ NoDanglingPointer' /\ Phases' /\ Blank'
    BY DEF Seats, Counted, TypeOK, RefsCountHolders, NoDanglingPointer, Phases, Blank,
      vars, clientVars, playerVars
  <2>2. UNCHANGED vars => OneBodyPerAccount' /\ KeepsControl' /\ ClosedMeansOut'
    BY DEF Seats, OneBodyPerAccount, KeepsControl, ClosedMeansOut, InGame,
      vars, clientVars, playerVars
  <2>. QED
    BY <1>8, <2>1, <2>2 DEF Seats, Counted
<1>. QED
  BY <1>1, <1>2, <1>4, <1>5, <1>6, <1>7, <1>8 DEF Next, PlayerStep

LEMMA SeatsInvariant == Spec => []Seats
  BY SeatsInit, SeatsNext, PTL DEF Spec

(* The reference count of every Player object is the number of its         *)
(* holders, and no pointer between clients and players dangles, in every   *)
(* order of logins, replacements, kicks, deaths, releases and cleanups.    *)
THEOREM PlayersAlwaysCounted == Spec => []PlayersCounted
<1>1. Seats => PlayersCounted
  BY DEF Seats, Counted, PlayersCounted
<1>. QED
  BY <1>1, SeatsInvariant, PTL

(* No account ever has two characters in the game, and no character two    *)
(* bodies.                                                                 *)
THEOREM OneBody == Spec => []OneBodyPerAccount
<1>1. Seats => OneBodyPerAccount
  BY DEF Seats
<1>. QED
  BY <1>1, SeatsInvariant, PTL

(* A client that was let in keeps its player until it asks to close.       *)
THEOREM ControlKept == Spec => []KeepsControl
<1>1. Seats => KeepsControl
  BY DEF Seats
<1>. QED
  BY <1>1, SeatsInvariant, PTL

(* In a closed game there are only the privileged.                         *)
THEOREM ClosedGame == Spec => []ClosedMeansOut
<1>1. Seats => ClosedMeansOut
  BY DEF Seats
<1>. QED
  BY <1>1, SeatsInvariant, PTL
=============================================================================
