-------------------------------- MODULE MCLive --------------------------------
(***************************************************************************)
(* A small instance for TLC of the modules with liveness properties under  *)
(* weak fairness (the decay of items, the game state, the waiting list and *)
(* a session) and of the movement of items.  They share no state: in a     *)
(* behaviour one part moves, and the others stay as they began.            *)
(***************************************************************************)
EXTENDS Decay, GameState, Items,
        Waiting    \* whose Init, Next and vars have no prefix

CONSTANTS c1, c2, NoClient, p1, p2, NoPlayer, Gone, n1, n2, NoName

\* What scripts give.
Gems == {[kind |-> "rune", count |-> 1], [kind |-> "rune", count |-> 2],
         [kind |-> "gold", count |-> 2]}

VARIABLES
  part,
  \* of Session; sessionState is its gameState
  sessionState, conn, want, player, acceptPackets, eventConnect,
  body, name, client, refCount, isConnecting, inCheck, toRelease

\* Two clients, two characters of one account and two players; the game is not closed.
Sess == INSTANCE Session WITH
  Clients <- {c1, c2}, Players <- {p1, p2}, Names <- {n1, n2}, Privileged <- {n2},
  Accounts <- {{n1, n2}}, MaxPending <- 0, GameStates <- {"normal"},
  gameState <- sessionState

sessVars == <<sessionState, conn, want, player, acceptPackets, eventConnect, body, name,
              client, refCount, isConnecting, inCheck, toRelease>>
liveVars == <<part, decayVars, stateVars, vars, sessVars, itemVars>>

LiveInit ==
  /\ part \in {"decay", "state", "waiting", "session", "items"}
  /\ DecayInit /\ StateInit /\ Init /\ Sess!Init /\ ItemsInit
  /\ part # "items" => Len(inside[Floor]) = 1

LiveNext ==
  /\ part' = part
  /\ IF part = "decay" THEN DecayNext ELSE UNCHANGED decayVars
  /\ IF part = "state" THEN StateNext ELSE UNCHANGED stateVars
  /\ IF part = "waiting" THEN Next ELSE UNCHANGED vars
  /\ IF part = "session" THEN Sess!Next ELSE UNCHANGED sessVars
  /\ IF part = "items" THEN ItemsNext ELSE UNCHANGED itemVars

-----------------------------------------------------------------------------
(* The fairness that the modules state, each action within its part.       *)
In(p, A) == part = p /\ A

(* checkDecay adds itself to the scheduler again. *)
DecayFairness == WF_decayVars(In("decay", CheckDecay))

(* A thread goes on with what it has begun, the dispatcher takes its tasks, *)
(* and the scheduler its events.                                           *)
StateFairness ==
  /\ WF_stateVars(In("state", \E t \in ThreadNames : ThreadStep(t)))
  /\ WF_stateVars(In("state", TaskBegins))
  /\ WF_stateVars(In("state", SaveDue))

WaitFairness ==
  \A n \in Names : /\ WF_vars(In("waiting", Waits(n) /\ Try(n)))
                   /\ WF_vars(In("waiting", Leave(n)))

SessFairness ==
  /\ \A c \in {c1, c2} :
       /\ WF_sessVars(In("session", \E p \in {p1, p2} : Sess!Login(c, p)))
       /\ WF_sessVars(In("session", Sess!Connect(c)))
       /\ WF_sessVars(In("session", Sess!CloseTask(c)))
       /\ WF_sessVars(In("session", Sess!ReleaseProtocol(c, FALSE)))
  /\ WF_sessVars(In("session", Sess!Cleanup(Sess!Removed)))

LiveSpec ==
  /\ LiveInit /\ [][LiveNext]_liveVars
  /\ DecayFairness /\ StateFairness /\ WaitFairness /\ SessFairness

-----------------------------------------------------------------------------
(* SavesGoOn of GameState, where that is the part that moves. *)
SavesContinue ==
  []<>(part # "state" \/ gameState = "closed" \/ ~accepting \/ power # "on")

(* GoneIsDeleted of Session. *)
GoneIsDeleted == Sess!GoneIsDeleted
=============================================================================
