-------------------------------- MODULE Trade --------------------------------
(***************************************************************************)
(* Trading between players: playerRequestTrade, playerAcceptTrade and      *)
(* internalCloseTrade of Game, with the hooks of Player that end a trade   *)
(* when an item on offer or its surroundings change (800/game.cpp,         *)
(* 800/player.cpp).  All of it runs in the dispatcher thread.              *)
(*                                                                         *)
(* Items lie on the ground, in a slot of a player or in a box; weights,    *)
(* stacks and positions are left out.  Traders stand close enough to be    *)
(* notified of what happens to every box; walking away cancels.            *)
(***************************************************************************)
EXTENDS Naturals, FiniteSets, People

CONSTANTS
  Goods, NoGood,
  Boxes,     \* the containers among Goods
  Ground, Gone,
  Slots,     \* bound: slots of a player
  BoxRoom    \* bound: capacity of a box

ASSUME TradeAssumption ==
  /\ NoGood \notin Goods /\ Boxes \subseteq Goods
  /\ IsFiniteSet(Goods) /\ Players \cap Goods = {}
  /\ Ground \notin Players \cup Goods /\ Gone \notin Players \cup Goods
  /\ Slots \in Nat /\ BoxRoom \in Nat

VARIABLES
  trader,     \* tradeState, tradePartner and tradeItem of each player
  tradeItems, \* the map of Game from items to their players
  place,      \* where each item is
  shown,      \* what the partner was shown: places of the offered item and
              \* of what is in it, when it was offered
  outcome     \* of the last exchange

tradeVars == <<trader, tradeItems, place, shown, outcome>>

NotTrading == [state |-> "none", partner |-> NoPlayer, item |-> NoGood]

(* Who accepts before he has offered anything keeps state accept without   *)
(* an item.                                                                *)
TradeTypeOK ==
  /\ trader \in [Players ->
       {NotTrading}
       \cup [state : {"acknowledge"}, partner : Players, item : {NoGood}]
       \cup [state : {"initiated"}, partner : Players, item : Goods]
       \cup [state : {"accept"}, partner : Players, item : Goods \cup {NoGood}]]
  /\ tradeItems \in [Goods -> Players \cup {NoPlayer}]
  /\ place \in [Goods -> Players \cup Boxes \cup {Ground, Gone}]
  /\ outcome \in {"none", "kept", "swapped", "intoOwnOffer", "half"}

(* The items in box c, at any depth: the least set that holds what lies in *)
(* c and what lies in what it holds.                                       *)
Within(at, c) ==
  {i \in Goods : \A held \in SUBSET Goods :
     (\A j \in Goods : at[j] = c \/ at[j] \in held => j \in held) => i \in held}

Nested(at, i, o) == i = o \/ i \in Within(at, o) \/ o \in Within(at, i)

Carries(at, p, i) == i \in Within(at, p)

Snapshot(at, i) ==
  [j \in Goods |-> IF j = i \/ j \in Within(at, i) THEN at[j] ELSE Gone]

NoShow == [j \in Goods |-> Gone]

TradeInit ==
  /\ trader = [p \in Players |-> NotTrading]
  /\ tradeItems = [i \in Goods |-> NoPlayer]
  /\ place \in [Goods -> Players \cup {Ground}]
  /\ shown = [p \in Players |-> NoShow]
  /\ outcome = "none"

-----------------------------------------------------------------------------
(* Offering.  Mutated forms precede the definitions they mutate.           *)

NotThisOffered(i) == tradeItems[i] = NoPlayer

(* "This item is already being traded." *)
Available(i) == \A o \in Goods : tradeItems[o] # NoPlayer => ~Nested(place, i, o)

(* internalStartTrade, for an item within reach that nothing forbids. *)
MayStart(p, q) ==
  /\ \/ trader[p].state = "none"
     \/ trader[p].state = "acknowledge" /\ trader[p].partner = q
  /\ \/ trader[q].state = "none"
     \/ trader[q].partner = p

RequestTrade(p, q, i) ==
  /\ p # q
  /\ Carries(place, p, i) \/ i \in Within(place, Ground)
  /\ Available(i)
  /\ MayStart(p, q)
  /\ trader' = [trader EXCEPT
       ![p] = [state |-> "initiated", partner |-> q, item |-> i],
       ![q] = IF @.state = "none"
              THEN [state |-> "acknowledge", partner |-> p, item |-> NoGood] ELSE @]
  /\ tradeItems' = [tradeItems EXCEPT ![i] = p]
  /\ shown' = [shown EXCEPT ![p] = Snapshot(place, i)]
  /\ UNCHANGED <<place, outcome>>

-----------------------------------------------------------------------------
(* Closing.                                                                *)

(* The players whose trade ends when that of each player of ps is closed. *)
ClosedWith(ps) ==
  ps \cup {trader[p].partner : p \in {r \in ps : trader[r].partner # NoPlayer}}

OneSideClosed(ps) ==
  /\ trader' = [p \in Players |->
       IF p \in ClosedWith(ps) THEN [trader[p] EXCEPT !.partner = NoPlayer, !.item = NoGood]
       ELSE trader[p]]
  /\ tradeItems' = [i \in Goods |->
       IF tradeItems[i] \in ClosedWith(ps) THEN NoPlayer ELSE tradeItems[i]]
  /\ shown' = [p \in Players |-> IF p \in ClosedWith(ps) THEN NoShow ELSE shown[p]]

PartnerForgotten(ps) ==
  /\ trader' = [p \in Players |-> IF p \in ps THEN NotTrading ELSE trader[p]]
  /\ tradeItems' = [i \in Goods |->
       IF tradeItems[i] \in ps THEN NoPlayer ELSE tradeItems[i]]
  /\ shown' = [p \in Players |-> IF p \in ps THEN NoShow ELSE shown[p]]

(* internalCloseTrade of each player of ps. *)
TradesClosed(ps) ==
  /\ trader' = [p \in Players |-> IF p \in ClosedWith(ps) THEN NotTrading ELSE trader[p]]
  /\ tradeItems' = [i \in Goods |->
       IF tradeItems[i] \in ClosedWith(ps) THEN NoPlayer ELSE tradeItems[i]]
  /\ shown' = [p \in Players |-> IF p \in ClosedWith(ps) THEN NoShow ELSE shown[p]]

(* The player cancels, walks or is moved away, becomes a ghost or leaves   *)
(* the game: each of these calls internalCloseTrade.                       *)
CancelTrade(p) ==
  /\ trader[p].partner # NoPlayer
  /\ TradesClosed({p})
  /\ UNCHANGED <<place, outcome>>

-----------------------------------------------------------------------------
(* Items move while trades are open.                                       *)

Offer(p) == trader[p].item

(* onRemoveContainerItem, onRemoveInventoryItem and onRemoveTileItem, each *)
(* with checkTradeState: is p's offer touched when i is taken from where   *)
(* it is?  In a box the test is for the box, not for i.                    *)
TouchedByRemoval(p, i) ==
  LET o == Offer(p) IN
  /\ o # NoGood
  /\ \/ i = o
     \/ i \in Within(place, o)
     \/ IF place[i] \in Boxes
        THEN place[o] # place[i] /\ o \in Within(place, place[i])
        ELSE i \in Boxes /\ o \in Within(place, i)

NothingAdded(p, to) == FALSE

(* onAddContainerItem: something is put into p's offer. *)
TouchedByAdding(p, to) ==
  LET o == Offer(p) IN o # NoGood /\ (to = o \/ to \in Within(place, o))

Free(at, to) ==
  \/ to = Ground
  \/ to \in Players /\ Cardinality({i \in Goods : at[i] = to}) < Slots
  \/ to \in Boxes /\ Cardinality({i \in Goods : at[i] = to}) < BoxRoom

MoveGood(i, to) ==
  /\ place[i] # Gone
  /\ to # place[i] /\ to # i /\ to \notin Within(place, i)
  /\ to \in Goods => place[to] # Gone
  /\ Free(place, to)
  /\ TradesClosed({p \in Players : TouchedByRemoval(p, i) \/ TouchedByAdding(p, to)})
  /\ place' = [place EXCEPT ![i] = to]
  /\ UNCHANGED outcome

(* An item decays, is used up or changes; a box goes with what is in it. *)
LoseGood(i) ==
  /\ place[i] # Gone
  /\ TradesClosed({p \in Players : TouchedByRemoval(p, i)})
  /\ place' = [place EXCEPT ![i] = Gone]
  /\ UNCHANGED outcome

ChangeGood(i) ==
  /\ place[i] # Gone
  /\ TradesClosed({p \in Players : Offer(p) # NoGood /\ (i = Offer(p) \/ i \in Within(place, Offer(p)))})
  /\ UNCHANGED <<place, outcome>>

-----------------------------------------------------------------------------
(* The exchange.                                                           *)

(* Player::__queryDestination while p trades: a free slot, or one of his   *)
(* boxes that has room and is neither his offer nor in it, whichever comes *)
(* first; if there is none, p himself.  A box that an earlier trade has    *)
(* left in the cache of the player (backpack) is taken without these tests. *)
Destinations(at, p, i, cached) ==
  LET boxes == {b \in Boxes : /\ Carries(at, p, b) /\ Free(at, b)
                              /\ b # i /\ b # Offer(p) /\ b \notin Within(at, Offer(p))}
  IN IF cached # NoGood THEN {cached}
     ELSE IF Free(at, p) \/ boxes = {}
     THEN boxes \cup {p} ELSE boxes

Fits(at, i, to) == Free(at, to)

OneFits(at, i1, d1, i2, d2) == Fits(at, i1, d1)

(* Both items are tested before any is moved. *)
BothFit(at, i1, d1, i2, d2) == Fits(at, i1, d1) /\ Fits(at, i2, d2)

Moved(at, i, to) == IF Fits(at, i, to) THEN [at EXCEPT ![i] = to] ELSE at

OutcomeOf(at, p, q, i1, i2, cp, cq) ==
  CASE Carries(at, q, i1) /\ Carries(at, p, i2) -> "swapped"
    [] at = place -> "kept"
    [] cp \in {i1} \cup Within(place, i1) \/ cq \in {i2} \cup Within(place, i2) ->
         "intoOwnOffer"
    [] OTHER -> "half"

(* A script may deny: the state stays accept, and only closing ends it. *)
SetAccept(p) ==
  /\ trader' = [trader EXCEPT ![p].state = "accept"]
  /\ UNCHANGED <<tradeItems, place, shown, outcome>>

(* The second to accept, p, moves his item to q first; that empties p's    *)
(* cache unless the item lay on the ground.  cp and cq: the boxes in the   *)
(* caches of p and q.  removable: both tests of internalRemoveItem succeed. *)
Exchange(p, q, removable, cp, cq) ==
  LET i1 == Offer(p)
      i2 == Offer(q)
  IN
  /\ IF i1 = NoGood \/ i2 = NoGood
     THEN UNCHANGED place /\ outcome' = "kept"
     ELSE
     /\ \E d1 \in Destinations(place, q, i1, cq), d2 \in Destinations(place, p, i2, cp) :
          IF BothFit(place, i1, d1, i2, d2) /\ removable
          THEN LET first == Moved(place, i1, d1) IN
               \E d \in IF place[i1] = Ground THEN {d2}
                        ELSE Destinations(first, p, i2, NoGood) :
                  place' = Moved(first, i2, d)
          ELSE UNCHANGED place
     /\ outcome' = OutcomeOf(place', p, q, i1, i2, cp, cq)
  /\ TradesClosed({p})

AcceptTrade(p) ==
  LET q == trader[p].partner IN
  /\ trader[p].state \in {"acknowledge", "initiated"}
  /\ \/ SetAccept(p)
     \/ /\ trader[q].state = "accept"
        /\ \E removable \in BOOLEAN,
              cp \in {NoGood} \cup {b \in Boxes : Carries(place, p, b)},
              cq \in {NoGood} \cup {b \in Boxes : Carries(place, q, b)} :
             Exchange(p, q, removable, cp, cq)

TradeNext ==
  \/ \E p \in Players :
       \/ \E q \in Players, i \in Goods : RequestTrade(p, q, i)
       \/ AcceptTrade(p)
       \/ CancelTrade(p)
  \/ \E i \in Goods :
       \/ \E to \in Players \cup Boxes \cup {Ground} : MoveGood(i, to)
       \/ LoseGood(i)
       \/ ChangeGood(i)

TradeSpec == TradeInit /\ [][TradeNext]_tradeVars

-----------------------------------------------------------------------------
(* Properties.                                                             *)

(* Partners point to each other, and tradeItems names exactly the items    *)
(* that players have on offer, whoever closed which trade before.          *)
TradesMutual ==
  /\ \A p, q \in Players : trader[p].partner = q => trader[q].partner = p
  /\ \A p \in Players, i \in Goods : Offer(p) = i <=> tradeItems[i] = p

(* No item is on offer twice, neither itself nor inside another one. *)
OffersDisjoint ==
  \A i, o \in Goods :
    i # o /\ tradeItems[i] # NoPlayer /\ tradeItems[o] # NoPlayer =>
      ~Nested(place, i, o)

(* As long as the trade is open the offered item is where it was when the  *)
(* partner was shown it, with the same things in it.                       *)
OfferAsShown ==
  \A p \in Players : Offer(p) # NoGood => Snapshot(place, Offer(p)) = shown[p]

(* Accepting exchanges both items or none, although the results of the two *)
(* moves are ignored: the tests done before are enough.  The exception is  *)
(* a player whose cached box is part of what he gives himself.             *)
BothOrNone == outcome # "half"

(* What is on offer is known to both sides, there, unchanged, and offered  *)
(* once, and accepting it swaps both items or none.                        *)
TradeFair == TradeTypeOK /\ TradesMutual /\ OffersDisjoint /\ OfferAsShown /\ BothOrNone
=============================================================================
