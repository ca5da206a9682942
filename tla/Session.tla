------------------------------- MODULE Session -------------------------------
(***************************************************************************)
(* Entering and leaving the game: ProtocolGame::login, connect, logout and *)
(* releaseProtocol (800/protocolgame.cpp), Game::placeCreature,            *)
(* removeCreature, checkCreatures, cleanup and setGameState (game.cpp).    *)
(* A client is a ProtocolGame object with its connection, a player is a    *)
(* Player object: one character may have several of either.                *)
(*                                                                         *)
(* All of it happens in the dispatcher thread, one action per task.  Of    *)
(* module Connection only the order matters here: the connection is asked  *)
(* to close, later the close task parts it from the protocol, and later    *)
(* the release task, tried again while something holds the protocol,       *)
(* deletes it.  A login task is run before the close task (Connection's    *)
(* LoginFindsConnection).  What WaitingList answers is left open (module   *)
(* Waiting).  GAMESTATE_SHUTDOWN, after which no task is accepted, the     *)
(* account manager and cloned characters are not modelled.                 *)
(***************************************************************************)
EXTENDS Naturals, FiniteSets

CONSTANTS
  Clients,     \* ProtocolGame objects; used again after they were deleted
  NoClient,
  Players,     \* Player objects, likewise
  NoPlayer,
  Gone,        \* the id of a player who is no longer in the game
  Names,       \* characters
  NoName,
  Privileged,  \* those with PlayerFlag_CanAlwaysLogin
  Accounts,    \* the characters of each account
  GameStates,  \* those the server takes
  MaxPending   \* bound: nobody comes while a player is to be released more often

ASSUME SessionAssumption ==
  /\ IsFiniteSet(Clients)
  /\ NoClient \notin Clients
  /\ {NoPlayer, Gone} \cap Players = {}
  /\ NoPlayer # Gone
  /\ NoName \notin Names
  /\ Privileged \subseteq Names
  /\ \A n \in Names : \E a \in Accounts : n \in a
  /\ MaxPending \in Nat
  /\ "normal" \in GameStates /\ GameStates \subseteq {"normal", "closing", "closed"}

VARIABLES
  gameState,      \* Game::gameState
  conn,           \* where the connection of a client is
  want,           \* the character of its login task
  player,         \* ProtocolGame::player
  acceptPackets,  \* ProtocolGame::m_acceptPackets
  eventConnect,   \* the player id that the scheduled connect() will look for
  body,           \* where a Player object is
  name,           \* Player::name
  client,         \* Player::client
  refCount,       \* Player::refCount
  isConnecting,   \* Player::isConnecting
  inCheck,        \* Creature::checkVector is not -1
  toRelease       \* how often a player is in Game::releaseThings

clientVars == <<conn, want, player, acceptPackets, eventConnect>>
playerVars == <<body, name, client, refCount, isConnecting, inCheck, toRelease>>
vars == <<gameState, clientVars, playerVars>>

(* "asked": Connection::close was called; "closed": the connection is gone *)
(* and releaseProtocol about to run; "released": it is tried again.        *)
ConnStates == {"none", "open", "asked", "closed", "released"}

(* "made": not yet, or never, placed on the map; "inGame": in              *)
(* Player::autoList; "removed": taken off the map, not yet deleted.        *)
Bodies == {"none", "made", "inGame", "removed"}

TypeOK ==
  /\ gameState \in GameStates
  /\ conn \in [Clients -> ConnStates]
  /\ want \in [Clients -> Names \cup {NoName}]
  /\ player \in [Clients -> Players \cup {NoPlayer}]
  /\ acceptPackets \in [Clients -> BOOLEAN]
  /\ eventConnect \in [Clients -> Players \cup {NoPlayer, Gone}]
  /\ body \in [Players -> Bodies]
  /\ name \in [Players -> Names \cup {NoName}]
  /\ client \in [Players -> Clients \cup {NoClient}]
  /\ refCount \in [Players -> Nat]
  /\ isConnecting \in [Players -> BOOLEAN]
  /\ inCheck \in [Players -> BOOLEAN]
  /\ toRelease \in [Players -> Nat]

Init ==
  /\ gameState = "normal"
  /\ conn = [c \in Clients |-> "none"]
  /\ want = [c \in Clients |-> NoName]
  /\ player = [c \in Clients |-> NoPlayer]
  /\ acceptPackets = [c \in Clients |-> FALSE]
  /\ eventConnect = [c \in Clients |-> NoPlayer]
  /\ body = [p \in Players |-> "none"]
  /\ name = [p \in Players |-> NoName]
  /\ client = [p \in Players |-> NoClient]
  /\ refCount = [p \in Players |-> 0]
  /\ isConnecting = [p \in Players |-> FALSE]
  /\ inCheck = [p \in Players |-> FALSE]
  /\ toRelease = [p \in Players |-> 0]

-----------------------------------------------------------------------------
(* What the operations share.  A definition may be preceded by mutated     *)
(* forms of it, which nothing in the model uses: the properties are tried  *)
(* against them.                                                           *)

InGame == {p \in Players : body[p] = "inGame"}
Online == Cardinality(InGame)

BodiesWithClient(n) == {p \in InGame : name[p] = n /\ client[p] # NoClient}

(* getPlayerByName *)
BodiesOf(n) == {p \in InGame : name[p] = n}

(* Connection::close for the clients cs. *)
Asked(cs) == [c \in Clients |-> IF c \in cs /\ conn[c] = "open" THEN "asked" ELSE conn[c]]

NotFreed(ps) == toRelease

(* Game::removeCreature for the players ps: freeThing.  The connect() that *)
(* is scheduled for one of them will find nobody.                          *)
Freed(ps) == [p \in Players |-> IF p \in ps THEN toRelease[p] + 1 ELSE toRelease[p]]

RemoveCreatures(ps) ==
  /\ body' = [p \in Players |-> IF p \in ps THEN "removed" ELSE body[p]]
  /\ toRelease' = Freed(ps)
  /\ eventConnect' = [c \in Clients |->
                        IF eventConnect[c] \in ps THEN Gone ELSE eventConnect[c]]

(* Player::kickPlayer(true, true) for the players ps: their clients log    *)
(* out, each the player it points to, and close their connections.         *)
Kick(ps) ==
  LET cs == {client[p] : p \in ps} \ {NoClient}
      kicked == {p \in ps : client[p] = NoClient} \cup {player[c] : c \in cs} IN
  /\ RemoveCreatures(kicked \cap InGame)
  /\ conn' = Asked(cs)

-----------------------------------------------------------------------------
(* A client comes.                                                         *)

(* parseFirstPacket has accepted the account and posts the login task. *)
Accept(c, n) ==
  /\ conn[c] = "none"
  /\ \A p \in Players : toRelease[p] <= MaxPending
  /\ conn' = [conn EXCEPT ![c] = "open"]
  /\ want' = [want EXCEPT ![c] = n]
  /\ UNCHANGED <<gameState, player, acceptPackets, eventConnect, playerVars>>

LoginTask(c) ==
  /\ want[c] # NoName
  /\ want' = [want EXCEPT ![c] = NoName]

ClosedToNobody(n) == FALSE

ClosedTo(n) == n \notin Privileged /\ gameState \in {"closing", "closed"}

NeverBusy(n) == FALSE

(* Another character of the account is in the game. *)
AccountBusy(n) == \E p \in InGame, a \in Accounts : {n, name[p]} \subseteq a /\ n # name[p]

NoRef == 0

TwoRefs == 2

(* player->addRef() after its construction. *)
LoginRef == 1

(* addRef in internalPlaceCreature and addCreatureCheck. *)
PlaceRefs == 2

(* The character is not in the game: p is constructed for the client c. *)
NewPlayer(c, p) ==
  /\ BodiesOf(want[c]) = {}
  /\ body[p] = "none"
  /\ player' = [player EXCEPT ![c] = p]
  /\ client' = [client EXCEPT ![p] = c]
  /\ name' = [name EXCEPT ![p] = want[c]]
  /\ UNCHANGED <<gameState, isConnecting, eventConnect>>

(* He is not let in: he is banned, locked or no gamemaster, cannot be       *)
(* loaded, the game is closed, the account is in use, he has to wait, or    *)
(* there is no place for him on the map.  The protocol keeps him.           *)
LoginRefused(c, p) ==
  /\ LoginTask(c)
  /\ NewPlayer(c, p)
  /\ body' = [body EXCEPT ![p] = "made"]
  /\ refCount' = [refCount EXCEPT ![p] = LoginRef]
  /\ conn' = Asked({c})
  /\ UNCHANGED <<acceptPackets, inCheck, toRelease>>

(* He is let in and placed on the map. *)
LoginPasses(c, p) ==
  /\ LoginTask(c)
  /\ ~ClosedTo(want[c])
  /\ ~AccountBusy(want[c])
  /\ NewPlayer(c, p)
  /\ refCount' = [refCount EXCEPT ![p] = LoginRef + PlaceRefs]
  /\ inCheck' = [inCheck EXCEPT ![p] = TRUE]
  /\ acceptPackets' = [acceptPackets EXCEPT ![c] = TRUE]

LoginPlaced(c, p) ==
  /\ LoginPasses(c, p)
  /\ body' = [body EXCEPT ![p] = "inGame"]
  /\ UNCHANGED <<conn, toRelease>>

(* A login script may still say no: he is kicked at once. *)
LoginKicked(c, p) ==
  /\ LoginPasses(c, p)
  /\ body' = [body EXCEPT ![p] = "removed"]
  /\ toRelease' = Freed({p})
  /\ conn' = Asked({c})

(* The character is in the game with another client, which is told to     *)
(* close; connect() will try to take its place a second later.             *)
LoginReplaces(c, p) ==
  /\ LoginTask(c)
  /\ p \in BodiesOf(want[c])
  /\ client[p] # NoClient
  /\ eventConnect[c] = NoPlayer
  /\ conn' = Asked({client[p]})
  /\ isConnecting' = [isConnecting EXCEPT ![p] = TRUE]
  /\ eventConnect' = [eventConnect EXCEPT ![c] = p]
  /\ UNCHANGED <<gameState, player, acceptPackets, body, name, client, refCount, inCheck,
                 toRelease>>

(* REPLACE_KICK_ON_LOGIN, which a reload of the configuration may change,  *)
(* can forbid that.                                                        *)
LoginNotReplacing(c, p) ==
  /\ LoginTask(c)
  /\ p \in BodiesOf(want[c])
  /\ client[p] # NoClient
  /\ conn' = Asked({c})
  /\ UNCHANGED <<gameState, player, acceptPackets, eventConnect, playerVars>>

ConnectsAlways(p) == p \in InGame

Connectable(p) == p \in InGame /\ client[p] = NoClient

(* ProtocolGame::connect *)
ConnectTo(c, p) ==
  /\ IF Connectable(p)
     THEN /\ player' = [player EXCEPT ![c] = p]
          /\ refCount' = [refCount EXCEPT ![p] = @ + 1]
          /\ isConnecting' = [isConnecting EXCEPT ![p] = FALSE]
          /\ client' = [client EXCEPT ![p] = c]
          /\ acceptPackets' = [acceptPackets EXCEPT ![c] = TRUE]
          /\ UNCHANGED conn
     ELSE /\ conn' = Asked({c})
          /\ UNCHANGED <<player, refCount, isConnecting, client, acceptPackets>>
  /\ UNCHANGED <<gameState, body, name, inCheck, toRelease>>

(* The character is in the game without a client. *)
LoginReconnects(c, p) ==
  /\ LoginTask(c)
  /\ p \in BodiesOf(want[c])
  /\ client[p] = NoClient
  /\ ConnectTo(c, p)
  /\ UNCHANGED eventConnect

Login(c, p) ==
  \/ LoginRefused(c, p)
  \/ LoginPlaced(c, p)
  \/ LoginKicked(c, p)
  \/ LoginReplaces(c, p)
  \/ LoginNotReplacing(c, p)
  \/ LoginReconnects(c, p)

(* The scheduled connect(): the connection may be closing by now. *)
Connect(c) ==
  /\ eventConnect[c] # NoPlayer
  /\ ConnectTo(c, eventConnect[c])
  /\ eventConnect' = [eventConnect EXCEPT ![c] = NoPlayer]
  /\ UNCHANGED want

-----------------------------------------------------------------------------
(* A player leaves.                                                        *)

(* ProtocolGame::logout for a logout packet that was read before the       *)
(* connection closed; a fight, the place or a script may forbid it.        *)
Logout(c) ==
  /\ acceptPackets[c]
  /\ conn[c] \in {"open", "asked", "closed"}
  /\ player[c] # NoPlayer
  /\ RemoveCreatures({player[c]} \cap InGame)
  /\ conn' = Asked({c})
  /\ UNCHANGED <<gameState, want, player, acceptPackets, name, client, refCount,
                 isConnecting, inCheck>>

(* Game::kickPlayer, or the player has not answered pings for a minute. *)
KickPlayer(p) ==
  /\ p \in InGame
  /\ Kick({p})
  /\ UNCHANGED <<gameState, want, player, acceptPackets, name, client, refCount,
                 isConnecting, inCheck>>

(* The player dies; the client stays. *)
Die(p) ==
  /\ p \in InGame
  /\ RemoveCreatures({p})
  /\ UNCHANGED <<gameState, conn, want, player, acceptPackets, name, client,
                 refCount, isConnecting, inCheck>>

KicksNobody(s) == {}

(* Who has to leave when the state becomes s. *)
MustLeave(s) == IF s = "closed" THEN {p \in InGame : name[p] \notin Privileged} ELSE {}

SetGameState(s) ==
  /\ s # gameState
  /\ gameState' = s
  /\ Kick(MustLeave(s))
  /\ UNCHANGED <<want, player, acceptPackets, name, client, refCount, isConnecting, inCheck>>

-----------------------------------------------------------------------------
(* A client goes.                                                          *)

(* The client closes its connection, or the connection fails. *)
AskClose(c) ==
  /\ conn[c] = "open"
  /\ conn' = Asked({c})
  /\ UNCHANGED <<gameState, want, player, acceptPackets, eventConnect, playerVars>>

CloseTask(c) ==
  /\ conn[c] = "asked"
  /\ want[c] = NoName
  /\ conn' = [conn EXCEPT ![c] = "closed"]
  /\ UNCHANGED <<gameState, want, player, acceptPackets, eventConnect, playerVars>>

LeavesForNobody(c) == [client EXCEPT ![player[c]] = NoClient]

(* The player stays in the game without a client, unless another client    *)
(* has taken over.                                                         *)
Leaves(c) ==
  [p \in Players |-> IF p = player[c] /\ client[p] = c THEN NoClient ELSE client[p]]

DeletableAlways(c) == TRUE

(* connect() still needs the protocol: it holds a reference. *)
Deletable(c) == eventConnect[c] = NoPlayer

(* ProtocolGame::releaseProtocol; held says that a message holds a         *)
(* reference to the protocol.                                              *)
ReleaseProtocol(c, held) ==
  /\ conn[c] \in {"closed", "released"}
  /\ client' = Leaves(c)
  /\ IF Deletable(c) /\ ~held
     THEN /\ conn' = [conn EXCEPT ![c] = "none"]
          /\ player' = [player EXCEPT ![c] = NoPlayer]
          /\ acceptPackets' = [acceptPackets EXCEPT ![c] = FALSE]
          /\ toRelease' = Freed({player[c]} \ {NoPlayer})
     ELSE /\ conn' = [conn EXCEPT ![c] = "released"]
          /\ UNCHANGED <<player, acceptPackets, toRelease>>
  /\ UNCHANGED <<gameState, want, eventConnect, body, name, refCount, isConnecting, inCheck>>

(* Game::cleanup gives back the references of releaseThings, and an object *)
(* without references is deleted.  checkCreatures has added those of the   *)
(* removed players whom it no longer checks, checkCreatureWalk none.       *)
Cleanup(unchecked) ==
  LET releases == [p \in Players |-> toRelease[p] + (IF p \in unchecked THEN 1 ELSE 0)]
      deleted == {p \in Players : body[p] # "none" /\ refCount[p] = releases[p]} IN
  /\ \E p \in Players : releases[p] > 0
  /\ refCount' = [p \in Players |-> refCount[p] - releases[p]]
  /\ toRelease' = [p \in Players |-> 0]
  /\ inCheck' = [p \in Players |-> inCheck[p] /\ p \notin unchecked]
  /\ body' = [p \in Players |-> IF p \in deleted THEN "none" ELSE body[p]]
  /\ name' = [p \in Players |-> IF p \in deleted THEN NoName ELSE name[p]]
  /\ client' = [p \in Players |-> IF p \in deleted THEN NoClient ELSE client[p]]
  /\ isConnecting' = [p \in Players |-> isConnecting[p] /\ p \notin deleted]
  /\ UNCHANGED <<gameState, clientVars>>

Removed == {p \in Players : body[p] = "removed" /\ inCheck[p]}

ClientStep(c) ==
  \/ \E n \in Names : Accept(c, n)
  \/ \E p \in Players : Login(c, p)
  \/ Connect(c)
  \/ Logout(c)
  \/ AskClose(c)
  \/ CloseTask(c)
  \/ \E held \in BOOLEAN : ReleaseProtocol(c, held)

PlayerStep(p) == KickPlayer(p) \/ Die(p)

Next ==
  \/ \E c \in Clients : ClientStep(c)
  \/ \E p \in Players : PlayerStep(p)
  \/ \E s \in GameStates : SetGameState(s)
  \/ \E ps \in SUBSET Removed : Cleanup(ps)

Spec == Init /\ [][Next]_vars

(* The dispatcher runs its tasks and the scheduler its events; the         *)
(* messages that hold a protocol leave in the end; checkCreatures comes    *)
(* round to everybody.  No client, fight or administrator has to do        *)
(* anything.                                                               *)
Fairness ==
  /\ \A c \in Clients :
       /\ WF_vars(\E p \in Players : Login(c, p))
       /\ WF_vars(Connect(c))
       /\ WF_vars(CloseTask(c))
       /\ WF_vars(ReleaseProtocol(c, FALSE))
  /\ WF_vars(Cleanup(Removed))

FairSpec == Spec /\ Fairness

-----------------------------------------------------------------------------
(* Properties.                                                             *)

(* A player's reference count is the number of those who may use him: the  *)
(* map, the creature check, the list of things to release, and the         *)
(* protocols that point to him - more than one while a client is replaced. *)
(* Otherwise he would be deleted too early or never.                       *)
RefsCountHolders ==
  \A p \in Players :
    refCount[p] = Cardinality({c \in Clients : player[c] = p}) + toRelease[p]
                    + (IF body[p] = "inGame" THEN 1 ELSE 0) + (IF inCheck[p] THEN 1 ELSE 0)

(* No pointer outlives what it points to: a client that a player or a      *)
(* scheduled connect() will use is there, and so is a client's player,     *)
(* whatever the order of kicks, logins, deaths, releases and cleanups.     *)
NoDanglingPointer ==
  /\ \A c \in Clients :
       /\ player[c] # NoPlayer => body[player[c]] # "none"
       /\ eventConnect[c] # NoPlayer \/ want[c] # NoName => conn[c] # "none"
  /\ \A p \in Players :
       client[p] # NoClient => conn[client[p]] # "none" /\ player[client[p]] = p

(* An account has one character in the game, and the character one body,   *)
(* although login looks for both while others log in, leave or reconnect.  *)
OneBodyPerAccount ==
  \A p, q \in InGame, a \in Accounts :
    name[p] \in a /\ name[q] \in a => p = q

(* As long as nobody has asked to close its connection, a client that was  *)
(* let in controls its player: the late release of a client that was       *)
(* replaced, or a second client that was told to wait for the place, does  *)
(* not take him away.                                                      *)
KeepsControl ==
  \A c \in Clients :
    conn[c] = "open" /\ acceptPackets[c] /\ player[c] \in InGame => client[player[c]] = c

(* Only the privileged are in a closed game, whoever was about to log in,  *)
(* to reconnect or to replace a client when it was closed.                 *)
ClosedMeansOut == gameState = "closed" => \A p \in InGame : name[p] \in Privileged

(* A player who was refused or has left the game is deleted in the end,     *)
(* unless a client that has not closed its connection still points to him: *)
(* no order of replacing, dying, logging out and releasing leaks one.      *)
GoneIsDeleted ==
  \A p \in Players :
    []<>(body[p] \in {"none", "inGame"} \/ \E c \in Clients : player[c] = p /\ conn[c] = "open")

(* "A task has already been scheduled just bail out (should not be          *)
(* overriden)", says a comment in ProtocolGame::login: only one client is  *)
(* on its way to replace another.                                          *)
OneTakeover ==
  \A c, d \in Clients : eventConnect[c] = eventConnect[d] /\ eventConnect[c] \in Players => c = d

(* Players are deleted when their last user is gone, neither sooner nor    *)
(* later, and no pointer is left to a client or a player that was deleted. *)
PlayersCounted == TypeOK /\ RefsCountHolders /\ NoDanglingPointer
=============================================================================
