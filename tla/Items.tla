-------------------------------- MODULE Items --------------------------------
(***************************************************************************)
(* Moving, stacking, paying with and removing items: internalMoveItem,     *)
(* internalAddItem, internalRemoveItem, removeItemOfType, removeMoney and  *)
(* addMoney of Game over the cylinders Player, Container and Tile          *)
(* (800/game.cpp, 800/player.cpp, 800/container.cpp, 800/tile.cpp).  All   *)
(* of it runs in the dispatcher thread.                                    *)
(*                                                                         *)
(* One player with two slots stands on a plain tile.  Bags never end; the  *)
(* other items are created and freed.  Left out: equipment scripts, two-   *)
(* handed items, shields, hangable items and items that may not be moved.  *)
(* Nobody has traded: only a trade fills the backpack cache of Player,     *)
(* which then also directs what does not stack (see Trade for the cache).  *)
(***************************************************************************)
EXTENDS Integers, Sequences, FiniteSets, FiniteSetsExt, SequencesExt

CONSTANTS
  Floor, Body, Back, Hand,  \* the tile, the player and his slots
  Void,        \* no parent
  Bags,        \* containers, numbers
  Worlds,      \* the sets of bags there are in the runs
  Pieces,      \* the other items, numbers
  MaxThings,   \* bound: the items there can be at once
  MaxStack,    \* 100 in the code; the worth of a plat
  BagRoom,     \* capacity of a bag
  FreeWeight,  \* the capacity of the player
  Prices,      \* bound: what is paid and earned
  Gifts,       \* bound: what scripts give, records of kind and count
  MaxGiven     \* bound: pieces there can be before a script gives another

ASSUME ItemsAssumption ==
  /\ Bags \subseteq Nat /\ Pieces \subseteq Nat \ Bags
  /\ Worlds \subseteq SUBSET Bags /\ MaxThings \in Nat
  /\ IsFiniteSet(Bags) /\ IsFiniteSet(Pieces) /\ 0 \notin Bags \cup Pieces
  /\ {Floor, Body, Back, Hand, Void} \cap (Bags \cup Pieces) = {}
  /\ Cardinality({Floor, Body, Back, Hand, Void}) = 5
  /\ MaxStack \in Nat \ {0} /\ BagRoom \in Nat \ {0} /\ FreeWeight \in Nat
  /\ Prices \subseteq Nat \ {0} /\ MaxGiven \in Nat
  /\ Gifts \subseteq [kind : {"rune", "gold", "plat"}, count : 1 .. MaxStack]

VARIABLES
  inside,  \* what is in every place, the front of a list first
  thing,   \* kind and count of every item; the count of a rune is its charges
  receipt  \* of the last operation: its kind, and the price

itemVars == <<inside, thing, receipt>>

Anywhere == -1     \* INDEX_WHEREEVER; the window of the capacity also gives it
MoveUp == 254
NoItem == 0

Slot == <<Back, Hand>>
Worn == Range(Slot)
Places == {Floor, Void} \cup Worn \cup Bags
Owners == {Floor, Body} \cup Bags            \* the cylinders

Stackable(kind) == kind \in {"gold", "plat"}
Worth(kind) == CASE kind = "gold" -> 1 [] kind = "plat" -> MaxStack [] OTHER -> 0
Weight(kind) == 1
Unused == [kind |-> "none", count |-> 0]

(* A stack holds at most MaxStack, every item that exists lies in one      *)
(* place, a slot holds one thing and only a bag fits on the back.          *)
ItemsTypeOK ==
  /\ thing \in [Bags \cup Pieces ->
       [kind : {"bag", "rune", "gold", "plat"}, count : 1 .. MaxStack] \cup {Unused}]
  /\ \A p \in Places : Range(inside[p]) \subseteq Bags \cup Pieces
  /\ \A t \in Bags \cup Pieces :
       FoldSet(LAMBDA p, n : n + Len(SelectSeq(inside[p], LAMBDA u : u = t)), 0, Places)
         = IF thing[t] = Unused THEN 0 ELSE 1
  /\ \A slot \in Worn : Len(inside[slot]) <= 1
  /\ Range(inside[Back]) \subseteq Bags
  /\ inside[Void] = <<>>

ItemsInit ==
  /\ \E bags \in Worlds :
     /\ inside = [p \in Places |-> IF p = Floor THEN SetToSortSeq(bags, <) ELSE <<>>]
     /\ thing = [t \in Bags \cup Pieces |->
                IF t \in bags THEN [kind |-> "bag", count |-> 1] ELSE Unused]
  /\ receipt = [for |-> "none", price |-> 0]

------------------------------------------------------------------------------
(* A store s is a value of inside and thing; every operation maps stores   *)
(* to stores.  A store that is short would need another item: MaxThings    *)
(* bounds the steps to those that do not.                                  *)
Store == [in |-> inside, of |-> thing, short |-> FALSE]

Kind(s, t) == s.of[t].kind
Count(s, t) == IF Stackable(Kind(s, t)) THEN s.of[t].count ELSE 1
Alike(s, t, u) == Kind(s, t) = Kind(s, u)
StackHasRoom(s, t, u) == Stackable(Kind(s, u)) /\ Alike(s, t, u) /\ Count(s, u) < MaxStack
PlaceOf(s, t) == CHOOSE p \in Places : t \in Range(s.in[p])
OwnerOf(s, t) == IF PlaceOf(s, t) \in Worn THEN Body ELSE PlaceOf(s, t)

(* The places from p upwards: getParent until the player or the tile. *)
Upwards(s, p) ==
  LET up[q \in Places] == IF q \in Bags THEN {q} \cup up[PlaceOf(s, q)] ELSE {q}
  IN up[p]

OnPlayer(s, p) == Upwards(s, p) \cap Worn # {}

Carried(s) ==
  MapThenSumSet(LAMBDA t : Weight(Kind(s, t)) * Count(s, t),
                {t \in Bags \cup Pieces :
                   s.of[t] # Unused /\ OnPlayer(s, PlaceOf(s, t))})

WeightOf(s, t, n) ==
  IF t \in Bags
  THEN MapThenSumSet(LAMBDA u : Weight(Kind(s, u)) * Count(s, u),
         {u \in Bags \cup Pieces :
            u = t \/ (s.of[u] # Unused /\ t \in Upwards(s, PlaceOf(s, u)))})
  ELSE Weight(Kind(s, t)) * (IF Stackable(Kind(s, t)) THEN n ELSE 1)

HasCapacityUnits(s, t, n) ==    \* mutant: one unit of the stack is weighed
  OnPlayer(s, PlaceOf(s, t)) \/ WeightOf(s, t, 1) < FreeWeight - Carried(s)

HasCapacity(s, t, n) ==
  OnPlayer(s, PlaceOf(s, t)) \/ WeightOf(s, t, n) < FreeWeight - Carried(s)

InSlot(s, i) == IF i \in DOMAIN Slot /\ s.in[Slot[i]] # <<>> THEN s.in[Slot[i]][1] ELSE NoItem
At(s, bag, i) == IF i + 1 \in DOMAIN s.in[bag] THEN s.in[bag][i + 1] ELSE NoItem

------------------------------------------------------------------------------
(* __queryAdd of the three cylinders *)
AddToBagDirect(s, bag, index, t, n, noLimit) ==    \* mutant: only the bag itself is compared
  /\ t # bag
  /\ index = Anywhere /\ ~noLimit => Len(s.in[bag]) < BagRoom
  /\ OnPlayer(s, bag) => noLimit \/ HasCapacity(s, t, n)

AddToBag(s, bag, index, t, n, noLimit) ==
  /\ t \notin Upwards(s, bag)
  /\ index = Anywhere /\ ~noLimit => Len(s.in[bag]) < BagRoom
  /\ OnPlayer(s, bag) => noLimit \/ HasCapacity(s, t, n)

AddToSlot(s, index, t, n) ==
  CASE index \notin DOMAIN Slot \/ (Slot[index] = Back /\ t \notin Bags) -> "refused"
    [] InSlot(s, index) # NoItem
         /\ ~(Stackable(Kind(s, t)) /\ Alike(s, t, InSlot(s, index))) -> "exchange"
    [] OTHER -> IF HasCapacity(s, t, n) THEN "ok" ELSE "refused"

QueryAdd(s, to, index, t, n, noLimit) ==
  CASE to = Floor -> "ok"
    [] to = Body -> AddToSlot(s, index, t, n)
    [] OTHER -> IF AddToBag(s, to, index, t, n, noLimit) THEN "ok" ELSE "refused"

FreeRoomOneMore(s, bag) == Max({BagRoom + 1 - Len(s.in[bag]), 0})    \* mutant: one too many

FreeRoom(s, bag) == Max({BagRoom - Len(s.in[bag]), 0})

(* __queryMaxCount: how many fit, and whether that is all of them.  What   *)
(* would fill a stack of a bag must be accepted there.  With an index a    *)
(* bag looks at the item before that index, which is right for the index   *)
(* its own autostack search gives and wrong for the others.                *)
QueryMaxCount(s, to, index, t, n, noLimit) ==
  LET free == FreeRoom(s, to)
      space(u, at) ==
        LET rest == MaxStack - Count(s, u)
        IN IF StackHasRoom(s, t, u) /\ QueryAdd(s, to, at, t, rest, FALSE) = "ok" THEN rest ELSE 0
      before == At(s, to, index - 1)
      stacked == IF index = Anywhere
                 THEN MapThenSumSet(LAMBDA i : space(s.in[to][i], i - 1),
                                    {i \in DOMAIN s.in[to] : s.in[to][i] # t})
                 ELSE IF before # NoItem THEN space(before, index) ELSE 0
      dest == InSlot(s, index)
      answer(max, all) == [max |-> max, all |-> all]
  IN CASE to = Floor -> answer(Max({1, n}), TRUE)
       [] to = Body /\ dest = NoItem ->
            answer(IF Stackable(Kind(s, t)) THEN MaxStack ELSE 1, TRUE)
       [] to = Body /\ dest # NoItem ->
            LET max == IF Stackable(Kind(s, t)) /\ Alike(s, t, dest)
                       THEN MaxStack - Count(s, dest) ELSE 0
            IN answer(max, max >= n)
       [] to \in Bags /\ noLimit -> answer(Max({1, n}), TRUE)
       [] to \in Bags /\ ~noLimit /\ Stackable(Kind(s, t)) ->
            answer(free * MaxStack + stacked, free * MaxStack + stacked >= n)
       [] OTHER -> answer(free, free > 0)

QueryRemove(s, t, n) == n # 0 /\ (Stackable(Kind(s, t)) => n <= Count(s, t))

------------------------------------------------------------------------------
(* __queryDestination: the cylinder and the index to go on with, and the   *)
(* item found there.                                                       *)
Destination(at, index, onto) == [at |-> at, index |-> index, onto |-> onto]

(* The bags the player wears and what is in them, breadth first; a bag is  *)
(* scanned to its capacity, the item itself is skipped.                    *)
BagsSearched(s, t) ==
  LET seen(p) == SubSeq(s.in[p], 1, Min({Len(s.in[p]), BagRoom}))
      bagsIn(p) == SelectSeq(seen(p), LAMBDA u : u \in Bags /\ u # t)
  IN FoldLeft(LAMBDA queue, i :
                IF i \in DOMAIN queue THEN queue \o bagsIn(queue[i]) ELSE queue,
              bagsIn(Back) \o bagsIn(Hand),
              [i \in 1 .. Cardinality(Bags) |-> i])

FindPlace(s, t, index, noLimit) ==
  LET n == Count(s, t)
      worn == SelectSeq([i \in DOMAIN Slot |-> Destination(Body, i, InSlot(s, i))],
                        LAMBDA d : d.onto # t)
      ofBag(bag) == [i \in 1 .. Min({Len(s.in[bag]) + 1, BagRoom}) |->
                       Destination(bag, i - 1, At(s, bag, i - 1))]
      bags == BagsSearched(s, t)
      spots == worn \o FlattenSeq([i \in DOMAIN bags |-> ofBag(bags[i])])
      accepts(d, limitless) == QueryAdd(s, d.at, d.index, t, n, limitless) = "ok"
      stacks == SelectSeq(spots, LAMBDA d : d.onto \notin {NoItem, t}
                                              /\ StackHasRoom(s, t, d.onto) /\ accepts(d, FALSE))
      frees == SelectSeq(spots, LAMBDA d : d.onto = NoItem /\ accepts(d, noLimit))
  IN Head(stacks \o frees \o <<Destination(Body, index, NoItem)>>)

InBag(s, bag, asked, t) ==
  LET index == IF asked >= BagRoom THEN Anywhere ELSE asked
      stacks == {i \in DOMAIN s.in[bag] : StackHasRoom(s, t, s.in[bag][i])}
      onto == At(s, bag, index)
  IN CASE asked = MoveUp ->
            Destination(IF PlaceOf(s, bag) \in Bags THEN PlaceOf(s, bag) ELSE bag,
                        Anywhere, NoItem)
       [] asked # MoveUp /\ PlaceOf(s, t) # bag /\ stacks # {} ->
            Destination(bag, Max(stacks), s.in[bag][Max(stacks)])    \* its index plus one
       [] asked # MoveUp /\ ~(PlaceOf(s, t) # bag /\ stacks # {}) /\ onto \in Bags ->
            Destination(onto, Anywhere, NoItem)
       [] OTHER -> Destination(bag, index, onto)

QueryDestination(s, to, index, t, noLimit) ==
  CASE to = Floor ->
         Destination(to, index, IF s.in[to] = <<>> THEN NoItem ELSE s.in[to][1])
    [] to = Body /\ index \notin DOMAIN Slot -> FindPlace(s, t, index, noLimit)
    [] to = Body /\ index \in DOMAIN Slot ->
         IF InSlot(s, index) \in Bags THEN Destination(InSlot(s, index), Anywhere, NoItem)
         ELSE Destination(to, index, InSlot(s, index))
    [] OTHER -> InBag(s, to, index, t)

(* The loop of internalMoveItem: until a cylinder names itself. *)
Settled(s, to, index, t) ==
  FoldLeft(LAMBDA d, i :
             IF d.done THEN d
             ELSE LET e == QueryDestination(s, d.at, d.index, t, FALSE)
                  IN [at |-> e.at, index |-> e.index, onto |-> e.onto, done |-> e.at = d.at],
           [at |-> to, index |-> index, onto |-> NoItem, done |-> FALSE],
           [i \in 1 .. Cardinality(Bags) + 3 |-> i])

------------------------------------------------------------------------------
(* __addThing, __updateThing and __removeThing.  An index out of range is  *)
(* dropped without a word.                                                 *)
Into(s, p, t) == [s EXCEPT !.in = [@ EXCEPT ![Void] = SelectSeq(@, LAMBDA u : u # t),
                                            ![p] = <<t>> \o @]]
AddThing(s, to, index, t) ==
  CASE to = Floor -> Into(s, to, t)
    [] to = Body /\ index \in DOMAIN Slot -> Into([s EXCEPT !.in[Slot[index]] = <<>>], Slot[index], t)
    [] to \in Bags /\ index < BagRoom -> Into(s, to, t)
    [] OTHER -> s

SetCount(s, t, n) == [s EXCEPT !.of[t].count = n]

RemoveThing(s, t, n) ==
  IF Stackable(Kind(s, t)) /\ n # Count(s, t) THEN SetCount(s, t, Count(s, t) - n)
  ELSE [s EXCEPT !.in = [p \in Places |-> IF p = Void THEN Append(s.in[p], t)
                                          ELSE SelectSeq(s.in[p], LAMBDA u : u # t)]]

FreeItem(s, t) == [s EXCEPT !.in[Void] = SelectSeq(@, LAMBDA u : u # t), !.of[t] = Unused]

Existing(s) == {t \in Bags \cup Pieces : s.of[t] # Unused}
Spare(s) == IF Cardinality(Existing(s)) < MaxThings
            THEN {t \in Pieces : s.of[t] = Unused} ELSE {}

Create(s, kind, n) ==    \* the new item is the last of Void
  LET t == Min(Spare(s))
  IN [s EXCEPT !.of[t] = [kind |-> kind, count |-> n], !.in[Void] = Append(@, t)]

------------------------------------------------------------------------------
(* The exchange of internalMoveItem: the item found at the destination     *)
(* goes to where the moved one comes from, before it is asked again        *)
(* whether that one fits.                                                  *)
FromIndex(s, from, t) ==
  IF from = Body THEN CHOOSE i \in DOMAIN Slot : InSlot(s, i) = t
  ELSE (CHOOSE i \in DOMAIN s.in[from] : s.in[from][i] = t) - 1

MayExchange(s, from, t, onto) ==
  /\ QueryAdd(s, from, FromIndex(s, from, t), onto, Count(s, onto), FALSE) = "ok"
  /\ LET room == QueryMaxCount(s, from, Anywhere, onto, Count(s, onto), FALSE)
     IN room.all \/ room.max # 0

ExchangeWornKept(s, from, onto) == RemoveThing(s, onto, Count(s, onto))    \* mutant: nobody gets it

ExchangeWorn(s, from, onto) ==
  AddThing(RemoveThing(s, onto, Count(s, onto)), from, 0, onto)

CarryWhole(s, d, t, m) ==    \* mutant: what does not fit on the stack vanishes
  LET taken == RemoveThing(s, t, m)
      topped == IF d.onto = NoItem THEN taken
                ELSE SetCount(taken, d.onto, Min({MaxStack, Count(s, d.onto) + m}))
  IN AddThing(topped, d.at, d.index, t)

(* The move itself: m of t, n of them onto a stack that is there. *)
Carry(s, d, t, m) ==
  LET n == IF d.onto # NoItem /\ Stackable(Kind(s, t)) /\ Alike(s, t, d.onto)
           THEN Min({MaxStack - Count(s, d.onto), m}) ELSE 0
      taken == RemoveThing(s, t, m)
      topped == IF n > 0 THEN SetCount(taken, d.onto, Count(s, d.onto) + n) ELSE taken
      whole == t \in Range(topped.in[Void])
      freed == IF whole THEN FreeItem(topped, t) ELSE topped
      split == Create(freed, Kind(s, t), m - n)
      bound == [s EXCEPT !.short = TRUE]
  IN CASE ~Stackable(Kind(s, t)) -> AddThing(taken, d.at, d.index, t)
       [] Stackable(Kind(s, t)) /\ m = n -> freed
       [] OTHER -> IF Spare(freed) = {} THEN bound
                   ELSE AddThing(split, d.at, d.index, Last(split.in[Void]))

(* What the cylinder that was found takes of the n, if it takes any. *)
Deliver(s, d, t, n) ==
  LET room == QueryMaxCount(s, d.at, d.index, t, n, FALSE)
      m == IF Stackable(Kind(s, t)) THEN Min({n, room.max}) ELSE room.max
      goes == /\ QueryAdd(s, d.at, d.index, t, n, FALSE) = "ok"
              /\ room.max # 0 /\ QueryRemove(s, t, m)
  IN IF goes THEN Carry(s, d, t, m) ELSE s

MoveTo(s, from, t, d, n) ==
  LET swaps == QueryAdd(s, d.at, d.index, t, n, FALSE) = "exchange"
                 /\ MayExchange(s, from, t, d.onto)
  IN CASE d.onto = t -> s
       [] d.onto # t /\ swaps ->
            Deliver(ExchangeWorn(s, from, d.onto), [d EXCEPT !.onto = NoItem], t, n)
       [] OTHER -> Deliver(s, d, t, n)

MoveItem(s, from, t, to, index, n) == MoveTo(s, from, t, Settled(s, to, index, t), n)

(* internalAddItem of a new item, with one __queryDestination only *)
AddAt(s, d, t, noLimit) ==
  LET n == Count(s, t)
      m == QueryMaxCount(s, d.at, d.index, t, n, noLimit)
      onto == IF d.onto # NoItem /\ StackHasRoom(s, t, d.onto)
              THEN Min({MaxStack - Count(s, d.onto), n}) ELSE 0
      topped == IF onto > 0 THEN SetCount(s, d.onto, Count(s, d.onto) + onto) ELSE s
  IN CASE QueryAdd(s, d.at, d.index, t, n, noLimit) # "ok" \/ ~m.all -> [s |-> s, ok |-> FALSE]
       [] onto = n -> [s |-> FreeItem(topped, t), ok |-> TRUE]
       [] OTHER -> [s |-> AddThing(SetCount(topped, t, s.of[t].count - onto), d.at, d.index, t),
                    ok |-> TRUE]

InternalAdd(s, to, t, noLimit) ==
  AddAt(s, QueryDestination(s, to, Anywhere, t, noLimit), t, noLimit)

(* internalPlayerAddItem, and the same within addMoney *)
GiveOrLose(s, t, noLimit) ==    \* mutant: what does not fit is not dropped
  LET r == InternalAdd(s, Body, t, noLimit) IN IF r.ok THEN r.s ELSE FreeItem(s, t)

DropRest(r, t) == IF r.ok THEN r.s ELSE InternalAdd(r.s, Floor, t, TRUE).s

GiveOrDrop(s, t, noLimit) == DropRest(InternalAdd(s, Body, t, noLimit), t)

InternalRemove(s, t, n) ==
  LET r == RemoveThing(s, t, n) IN IF t \in Range(r.in[Void]) THEN FreeItem(r, t) ELSE r

GiveNew(s, kind, n, noLimit) ==
  IF Spare(s) = {} THEN [s EXCEPT !.short = TRUE]
  ELSE LET made == Create(s, kind, n) IN GiveOrDrop(made, Last(made.in[Void]), noLimit)

AddCoins(s, kind, n, noLimit) == IF n > 0 THEN GiveNew(s, kind, n, noLimit) ELSE s

AddMoney(s, money, noLimit) ==
  AddCoins(AddCoins(s, "plat", money \div MaxStack, noLimit), "gold", money % MaxStack, noLimit)

------------------------------------------------------------------------------
(* What the player carries, in the order removeMoney and removeItemOfType  *)
(* look at it: the slots, then the bags breadth first.                     *)
Scanned(s) ==
  LET bags(p) == SelectSeq(s.in[p], LAMBDA u : u \in Bags)
      worn == s.in[Back] \o s.in[Hand]
      queue == FoldLeft(LAMBDA q, i : IF i \in DOMAIN q THEN q \o bags(q[i]) ELSE q,
                        SelectSeq(worn, LAMBDA u : u \in Bags),
                        [i \in 1 .. Cardinality(Bags) |-> i])
  IN worn \o FlattenSeq([i \in DOMAIN queue |-> s.in[queue[i]]])

WorthOf(s, t) == Worth(Kind(s, t)) * Count(s, t)
Wealth(s) == MapThenSumSet(LAMBDA t : WorthOf(s, t), Range(Scanned(s)))

(* removeMoney takes the least valuable stacks first and gives the change. *)
PayStep(acc, t) ==
  LET w == WorthOf(acc.s, t)
      taken == InternalRemove(acc.s, t, Count(acc.s, t))
  IN CASE acc.owed = 0 -> acc
       [] acc.owed > 0 /\ w > acc.owed ->
            [s |-> AddMoney(taken, w - acc.owed, FALSE), owed |-> 0]
       [] OTHER -> [s |-> taken, owed |-> acc.owed - w]

Cheapest(s) ==
  LET scan == Scanned(s)
      coins == {i \in DOMAIN scan : WorthOf(s, scan[i]) > 0}
      w(i) == WorthOf(s, scan[i])
      order == SetToSortSeq(coins, LAMBDA i, j : w(i) < w(j) \/ (w(i) = w(j) /\ i < j))
  IN [i \in DOMAIN order |-> scan[order[i]]]

RemoveMoney(s, price) == FoldLeft(PayStep, [s |-> s, owed |-> price], Cheapest(s)).s

(* removeItemOfType.  It meets a rune of another charge and never goes on: *)
(* the index is not advanced.                                              *)
TakeStep(acc, t, kind, charges) ==
  CASE acc.left = 0 \/ acc.hangs \/ Kind(acc.s, t) # kind -> acc
    [] OTHER ->
         IF ~Stackable(kind) /\ acc.s.of[t].count # charges THEN [acc EXCEPT !.hangs = TRUE]
         ELSE LET n == Min({Count(acc.s, t), acc.left})
              IN [acc EXCEPT !.s = InternalRemove(acc.s, t, n), !.left = @ - n]

TakeOfType(s, kind, n, charges) ==
  LET scan == Scanned(s)
  IN FoldLeft(LAMBDA acc, t : TakeStep(acc, t, kind, charges),
              [s |-> s, left |-> n, hangs |-> FALSE], scan)

Amount(s, kind, charges) ==
  MapThenSumSet(LAMBDA t : IF Kind(s, t) = kind /\ (Stackable(kind) \/ s.of[t].count = charges)
                           THEN Count(s, t) ELSE 0,
                Range(Scanned(s)))

------------------------------------------------------------------------------
Settles(s, what, price) ==
  /\ s # Store /\ ~s.short
  /\ inside' = s.in /\ thing' = s.of
  /\ receipt' = [for |-> what, price |-> price]

Running == receipt.for # "hangs"

(* playerMoveItem: from the ground only the topmost item can be taken. *)
Move(t, to, index, n) ==
  /\ Running /\ thing[t] # Unused /\ (to \in Bags => thing[to] # Unused)
  /\ Stackable(thing[t].kind) \/ n = 1    \* the count says nothing of other items
  /\ PlaceOf(Store, t) = Floor => t = inside[Floor][1]
  /\ Settles(MoveItem(Store, OwnerOf(Store, t), t, to, index, n), "move", 0)

AskedIndex(to) ==
  CASE to = Floor -> {0}
    [] to = Body -> {Anywhere} \cup DOMAIN Slot
    [] OTHER -> 0 .. BagRoom \cup {MoveUp}    \* BagRoom stands for all beyond it, and for 255

(* A script or a vendor takes money: removeMoney. *)
Pay(price) ==
  /\ Running /\ Wealth(Store) >= price
  /\ Settles(RemoveMoney(Store, price), "pay", price)

(* A vendor buys an item: removeItemOfType, then addMoney without limit. *)
Sell(kind, charges, n, price) ==
  LET taken == TakeOfType(Store, kind, n, charges)
  IN /\ Running /\ Amount(Store, kind, charges) >= n
     /\ IF taken.hangs
        THEN /\ receipt' = [for |-> "hangs", price |-> 0]
             /\ inside' = taken.s.in /\ thing' = taken.s.of
        ELSE Settles(AddMoney(taken.s, price, TRUE), "sell", price)

(* A script gives an item: internalPlayerAddItem. *)
Give(gift) ==
  /\ Running /\ Cardinality(Existing(Store) \cap Pieces) <= MaxGiven
  /\ Settles(GiveNew(Store, gift.kind, gift.count, FALSE), "give", 0)

ItemsNext ==
  \/ \E t \in Bags \cup Pieces, to \in Owners, n \in 1 .. MaxStack :
       \E index \in AskedIndex(to) : Move(t, to, index, n)
  \/ \E price \in Prices : Pay(price)
  \/ \E g \in Gifts, price \in Prices : g.kind = "rune" /\ Sell("rune", g.count, 1, price)
  \/ \E g \in Gifts : Give(g)

------------------------------------------------------------------------------
Total(kind) ==
  MapThenSumSet(LAMBDA t : IF thing[t].kind = kind
                           THEN (IF kind = "rune" THEN 1 ELSE thing[t].count) ELSE 0, Pieces)
AllWealth == Total("gold") + MaxStack * Total("plat")

(* No bag is inside itself, through any chain of bags: every bag is on the *)
(* player or on the ground.                                                *)
NoBagInItself ==
  \A b \in Existing(Store) \cap Bags :
    LET up[n \in Nat] == IF n = 0 THEN PlaceOf(Store, b)
                         ELSE IF up[n - 1] \in Bags THEN PlaceOf(Store, up[n - 1]) ELSE up[n - 1]
    IN up[Cardinality(Bags)] \notin Bags

(* Moving items neither makes nor loses any, whatever is stacked, split,   *)
(* exchanged or refused on the way.                                        *)
MovesKeepAll ==
  [][receipt'.for = "move" => \A kind \in {"rune", "gold", "plat"} : Total(kind)' = Total(kind)]_itemVars

(* A payment takes exactly the price: the change is on the player or on    *)
(* the ground, also when there is no room for it.  A sale earns it.        *)
MoneyExact ==
  [][/\ receipt'.for = "pay" => AllWealth' = AllWealth - receipt'.price
     /\ receipt'.for = "sell" => AllWealth' = AllWealth + receipt'.price
                                   /\ Total("rune")' = Total("rune") - 1]_itemVars

(* Only the proceeds of a sale, which are added without limits, make the   *)
(* player carry more than he can.                                          *)
OverloadedBySale ==
  [][Carried(Store)' >= FreeWeight /\ Carried(Store)' > Carried(Store)
       => receipt'.for = "sell"]_itemVars

(* A bag is filled beyond its capacity only with an item of which it has a *)
(* stack already: a stack split within a full bag, an exchange that counts *)
(* on room in a stack and then adds beside it, or the proceeds of a sale.  *)
OverfullBesideStack ==
  [][\A b \in Bags :
       Len(inside'[b]) > Max({BagRoom, Len(inside[b])})
         => \A new \in Range(inside'[b]) \ Range(inside[b]) :
              \E old \in Range(inside[b]) :
                Stackable(thing[old].kind) /\ thing[old].kind = thing'[new].kind]_itemVars

(* Things lie in one place each and are neither made nor lost, and money   *)
(* is neither made nor lost by paying and selling, within the limits.      *)
GoodsConserved ==
  /\ [](ItemsTypeOK /\ NoBagInItself)
  /\ MovesKeepAll
  /\ MoneyExact
  /\ OverloadedBySale
  /\ OverfullBesideStack
==============================================================================
