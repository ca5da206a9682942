-------------------------------- MODULE Decay --------------------------------
(***************************************************************************)
(* The decay of items: startDecay, internalDecayItem, checkDecay and       *)
(* cleanup of Game (800/game.cpp), canDecay and setID of Item              *)
(* (800/item.cpp), and the scripts and equipment that transform an item    *)
(* which is waiting to decay.  All of it runs in the dispatcher thread.    *)
(*                                                                         *)
(* Items wait in buckets, and each second the next bucket is visited.  The *)
(* unit of duration is half a second, so that durations between two visits *)
(* occur.  Kinds of item: one that burns becomes embers, embers vanish;    *)
(* resting is what burning is transformed to while it must not lose time   *)
(* (stopTime); inert has no duration.                                      *)
(***************************************************************************)
EXTENDS Integers, SequencesExt

CONSTANTS
  Things,       \* Item objects
  Buckets,      \* EVENT_DECAYBUCKETS
  MaxDuration,  \* bound: of an item put into the world
  MaxPlaces,    \* bound: of an item in the lists
  BurnTime, EmberTime  \* decayTime of the two kinds that decay

ASSUME DecayAssumption ==
  /\ Buckets \in Nat \ {0} /\ MaxDuration \in Nat /\ MaxPlaces \in Nat
  /\ BurnTime \in Nat \ {0} /\ EmberTime \in Nat \ {0}

VARIABLES
  items,        \* the objects; refs = 0: deleted
  toDecayItems,
  decayItems,   \* by bucket
  lastBucket,
  releaseThings \* what freeThing has collected

decayVars == <<items, toDecayItems, decayItems, lastBucket, releaseThings>>

World == [items |-> items, toDecay |-> toDecayItems, buckets |-> decayItems,
          released |-> releaseThings]

DecayBecomes(w) ==
  /\ items' = w.items
  /\ toDecayItems' = w.toDecay
  /\ decayItems' = w.buckets
  /\ releaseThings' = w.released

Second == 2
Round == Second * Buckets
DecayTime == [burning |-> BurnTime, embers |-> EmberTime, resting |-> 0, inert |-> 0]
Deleted == [kind |-> "inert", dur |-> 0, decaying |-> FALSE, placed |-> FALSE,
            refs |-> 0, timed |-> FALSE, late |-> 0]

DecayInit ==
  /\ items = [i \in Things |-> Deleted]
  /\ toDecayItems = <<>>
  /\ decayItems = [b \in 0 .. Buckets - 1 |-> <<>>]
  /\ lastBucket = 0
  /\ releaseThings = <<>>

Untimed(it) == [it EXCEPT !.timed = FALSE, !.late = 0]
OutOfWorld(it) == [Untimed(it) EXCEPT !.placed = FALSE]

CanDecay(it) == it.placed /\ DecayTime[it.kind] > 0

(* setID: time is kept by what rests, set anew by what begins to decay, and *)
(* the place in a bucket is not given up.                                  *)
Become(it, k) ==
  LET new == [Untimed(it) EXCEPT !.kind = k] IN
  IF k = "inert" THEN [new EXCEPT !.decaying = FALSE, !.dur = 0]
  ELSE IF DecayTime[k] > 0 /\ it.kind # "resting"
  THEN [new EXCEPT !.decaying = FALSE, !.dur = DecayTime[k]]
  ELSE new

FreeThing(w, i) == [w EXCEPT !.released = Append(@, i)]

(* How many places an item has in the lists. *)
Indices(s, i) == {n \in DOMAIN s : s[n] = i}
Listings(w, i) ==
  Cardinality(Indices(w.toDecay, i))
  + Cardinality(UNION {{b} \X Indices(w.buckets[b], i) : b \in 0 .. Buckets - 1})

(* startDecay of an item that has time left; it is timed if this is its    *)
(* only place.                                                             *)
Enlist(w, i) ==
  [w EXCEPT
     !.toDecay = Append(@, i),
     !.items[i] = [@ EXCEPT !.refs = @ + 1, !.decaying = TRUE,
                            !.timed = Listings(w, i) = 0,
                            !.late = IF Listings(w, i) = 0 THEN -w.items[i].dur ELSE 0]]

(* internalDecayItem, with the startDecay of what the item becomes. *)
InternalDecay(w, i) ==
  IF w.items[i].kind = "burning"
  THEN Enlist([w EXCEPT !.items[i] = Become(@, "embers")], i)
  ELSE FreeThing([w EXCEPT !.items[i] = OutOfWorld(@)], i)

StartDecay(w, i) ==
  LET it == w.items[i] IN
  IF ~CanDecay(it) \/ it.decaying THEN w
  ELSE IF it.dur > 0 THEN Enlist(w, i) ELSE InternalDecay(w, i)

Release(w, i) ==
  [w EXCEPT !.items[i] = IF @.refs = 1 THEN Deleted ELSE [@ EXCEPT !.refs = @ - 1]]

(* Where an item waits that begins to decay, and one with less than a      *)
(* round left that is visited in bucket b, rounded to the next second.     *)
FirstBucket(dur, last) ==
  IF dur >= Round THEN last ELSE (last + 1 + dur \div Second) % Buckets
NextBucketLate(dur, b) == (b + 1 + dur \div Second) % Buckets
NextBucket(dur, b) == (b + (dur + 1) \div Second) % Buckets

(* cleanup *)
CleanedBucket(w, last) ==
  LET freed == [FoldLeft(Release, w, w.released) EXCEPT !.released = <<>>] IN
  [FoldLeft(LAMBDA v, i :
       [v EXCEPT !.buckets[FirstBucket(v.items[i].dur, last)] = Append(@, i)],
     freed, w.toDecay) EXCEPT !.toDecay = <<>>]

LeftUnbounded(dur) == dur - Round    \* mutant
LeftUncharged(dur) == dur            \* mutant
Left(dur) == IF dur < Round THEN 0 ELSE dur - Round

DroppedDecaying(w, i) == FreeThing(w, i)
DroppedUnfreed(w, i) == [w EXCEPT !.items[i].decaying = FALSE]
Dropped(w, i) == FreeThing([w EXCEPT !.items[i].decaying = FALSE], i)

(* The visit of one item; it has been taken out of bucket b.  Time is      *)
(* charged before it is asked whether the item still decays.               *)
Visit(w, i, b) ==
  LET left == Left(w.items[i].dur)
      v == [w EXCEPT !.items[i].dur = left]
      n == IF left < Round THEN NextBucket(left, b) ELSE b
  IN IF ~CanDecay(v.items[i]) THEN Dropped(v, i)
     ELSE IF left <= 0 \/ (left < Round /\ n = b)
     THEN FreeThing(InternalDecay(v, i), i)
     ELSE [v EXCEPT !.buckets[n] = Append(@, i)]
-----------------------------------------------------------------------------
(* Once a second.  late counts from when the item waits in a bucket.       *)
CheckDecay ==
  LET b == (lastBucket + 1) % Buckets
      w == [World EXCEPT
              !.buckets[b] = <<>>,
              !.items = [i \in Things |->
                 IF items[i].timed /\ i \notin ToSet(toDecayItems)
                 THEN [items[i] EXCEPT !.late = @ + Second] ELSE items[i]]]
  IN /\ DecayBecomes(CleanedBucket(FoldLeft(LAMBDA v, i : Visit(v, i, b), w, decayItems[b]), b))
     /\ lastBucket' = b

(* cleanup at the end of checkCreatures. *)
Cleanup == DecayBecomes(CleanedBucket(World, lastBucket)) /\ UNCHANGED lastBucket

(* An item is made, or loaded with what was left of its time. *)
MakeItem(i, d) ==
  /\ items[i].refs = 0
  /\ DecayBecomes(StartDecay([World EXCEPT !.items[i] =
       [Deleted EXCEPT !.kind = "burning", !.dur = d, !.placed = TRUE, !.refs = 1]], i))
  /\ UNCHANGED lastBucket

(* internalRemoveItem *)
RemoveItem(i) ==
  /\ items[i].placed
  /\ DecayBecomes(FreeThing([World EXCEPT !.items[i] = OutOfWorld(@)], i))
  /\ UNCHANGED lastBucket

(* EquipItem, DeEquipItem: transformItem, then startDecay. *)
EquipItem(i) ==
  /\ items[i].placed /\ items[i].kind = "resting"
  /\ Listings(World, i) < MaxPlaces
  /\ DecayBecomes(StartDecay([World EXCEPT !.items[i] = Become(@, "burning")], i))
  /\ UNCHANGED lastBucket

DeEquipItem(i) ==
  /\ items[i].placed /\ items[i].kind = "burning"
  /\ DecayBecomes([World EXCEPT !.items[i] = Become(@, "resting")])
  /\ UNCHANGED lastBucket

(* A script transforms an item, or starts its decay. *)
Transform(i, k) ==
  /\ items[i].placed /\ items[i].kind # k
  /\ DecayBecomes([World EXCEPT !.items[i] = Become(@, k)])
  /\ UNCHANGED lastBucket

ScriptDecay(i) ==
  /\ items[i].placed
  /\ Listings(World, i) < MaxPlaces
  /\ StartDecay(World, i) # World
  /\ DecayBecomes(StartDecay(World, i))
  /\ UNCHANGED lastBucket

DecayNext ==
  \/ CheckDecay \/ Cleanup
  \/ \E i \in Things :
       \/ \E d \in 1 .. MaxDuration : MakeItem(i, d)
       \/ RemoveItem(i) \/ EquipItem(i) \/ DeEquipItem(i) \/ ScriptDecay(i)
       \/ \E k \in {"burning", "embers", "inert"} : Transform(i, k)

DecaySpec == DecayInit /\ [][DecayNext]_decayVars
-----------------------------------------------------------------------------
(* Properties.                                                             *)

DecayTypeOK ==
  /\ items \in [Things -> [kind : DOMAIN DecayTime, dur : Nat, decaying : BOOLEAN,
                           placed : BOOLEAN, refs : Nat, timed : BOOLEAN, late : Int]]
  /\ lastBucket \in DOMAIN decayItems
  /\ toDecayItems \in Seq(Things) /\ releaseThings \in Seq(Things)

(* Every place of an item in a list, and its place in the world, until     *)
(* they are released, is counted: no list leads to a deleted item, and     *)
(* none is deleted twice.                                                  *)
RefsCountPlaces ==
  \A i \in Things :
    items[i].refs = (IF items[i].placed THEN 1 ELSE 0) + Listings(World, i)
                    + Cardinality(Indices(releaseThings, i))

(* What is marked as decaying waits in a list, so that startDecay may      *)
(* leave it alone.                                                         *)
DecayingIsListed == \A i \in Things : items[i].decaying => Listings(World, i) > 0

(* An item left alone decays between half a second before its time and     *)
(* one second after, however often it is moved from bucket to bucket; but  *)
(* with half a second less than a round left the next second is that of    *)
(* the bucket at hand, and it decays almost a round early.                 *)
DecaysInTime ==
  [][\A i \in Things : items[i].timed =>
       /\ items[i].late < Second
       /\ lastBucket' # lastBucket /\ (items'[i].kind # items[i].kind \/ ~items'[i].placed) =>
            items[i].late + Second \in -1 .. Second \/ items[i].dur % Round = Round - 1]_decayVars

(* Embers-to-be do not wait for ever: whatever burns and decays becomes    *)
(* something else, is stopped or removed, however long its duration is and *)
(* however often its bucket is taken over into the next round.             *)
BurnsOut ==
  \A i \in Things : []<>~(items[i].kind = "burning" /\ items[i].decaying)

(* The lists of items that decay lead to items that exist and wait there,  *)
(* and each of these decays when it is time.                               *)
DecayKept ==
  /\ [](DecayTypeOK /\ RefsCountPlaces /\ DecayingIsListed)
  /\ DecaysInTime
  /\ BurnsOut
=============================================================================
