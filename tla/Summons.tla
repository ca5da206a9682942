------------------------------- MODULE Summons -------------------------------
(***************************************************************************)
(* Masters and summons: who is removed, killed and deleted with whom       *)
(* (800/creature.cpp, monster.cpp, game.cpp).  A body stays in its         *)
(* master's list by reference, in the list of creatures to be checked by   *)
(* reference, and in the lists that other monsters keep of what they see.  *)
(*                                                                         *)
(* Which of the ten check vectors is due is left open, and so are the      *)
(* chances of combat.  A convincer is a player, as with the rune.          *)
(***************************************************************************)
EXTENDS Integers, SequencesExt

CONSTANTS
  Masters,   \* Player objects
  Beasts,    \* Monster objects
  NoMaster

ASSUME SummonsAssumption ==
  /\ IsFiniteSet(Masters) /\ IsFiniteSet(Beasts)
  /\ Masters \cap Beasts = {}
  /\ NoMaster \notin Masters \cup Beasts

VARIABLES bodies

Bodies == Masters \cup Beasts

\* Nobody: an object that does not exist.
Nobody == [placed |-> FALSE, removed |-> FALSE, healthy |-> FALSE, checked |-> FALSE,
           listed |-> FALSE, master |-> NoMaster, summons |-> {}, seen |-> FALSE,
           released |-> 0, refs |-> 0]

SummonInit == bodies = [c \in Bodies |-> Nobody]

Exists(c) == bodies[c].placed \/ bodies[c].removed
InGame(c) == bodies[c].placed /\ ~bodies[c].removed

\* Lost(w, G, c): the references to c that are lost with the bodies of G.
Lost(w, G, c) == Cardinality({m \in G : c \in w[m].summons})

\* Buried(w): Thing::unRef deletes what nothing refers to; the destructor of a
\* master lets go of its summons, which may be deleted in turn.
Buried(w) ==
  LET Closed(G) == \A c \in Bodies : w[c].refs <= Lost(w, G, c) => c \in G
      closed == {G \in SUBSET Bodies : Closed(G)}
      gone == {c \in Bodies : \A G \in closed : c \in G}
  IN  [c \in Bodies |->
         IF c \in gone THEN Nobody
         ELSE IF Lost(w, gone, c) > 0
              THEN [w[c] EXCEPT !.master = NoMaster, !.refs = @ - Lost(w, gone, c)]
              ELSE w[c]]

AddSummon(w, m, c) ==
  [w EXCEPT ![m].summons = @ \cup {c}, ![c].master = m, ![c].refs = @ + 1]

RemoveSummonKeeping(w, m, c) ==
  IF c \notin w[m].summons THEN w
  ELSE [w EXCEPT ![m].summons = @ \ {c}, ![c].master = NoMaster]

RemoveSummon(w, m, c) ==
  IF c \notin w[m].summons THEN w
  ELSE [w EXCEPT ![m].summons = @ \ {c}, ![c].master = NoMaster, ![c].refs = @ - 1]

\* AddCreatureCheck(b): an entry that still waits to be dropped is used again.
AddCreatureCheckTwice(b) ==
  IF b.removed THEN b ELSE [b EXCEPT !.checked = TRUE, !.listed = TRUE, !.refs = @ + 1]

AddCreatureCheck(b) ==
  IF b.removed THEN b
  ELSE [b EXCEPT !.checked = TRUE, !.listed = TRUE, !.refs = @ + (IF b.listed THEN 0 ELSE 1)]

\* SetIdle(b, idle): a monster without health keeps being checked.
SetIdleAnyway(b, idle) ==
  IF b.removed THEN b
  ELSE IF idle THEN [b EXCEPT !.checked = FALSE] ELSE AddCreatureCheck(b)

SetIdle(b, idle) ==
  IF b.removed \/ ~b.healthy THEN b
  ELSE IF idle THEN [b EXCEPT !.checked = FALSE] ELSE AddCreatureCheck(b)

\* Killed(b): changeHealth of a monster wakes it first.
KilledAsleep(b) == [b EXCEPT !.healthy = FALSE]

Killed(b) == [SetIdle(b, FALSE) EXCEPT !.healthy = FALSE]

DestroySummonsOwned(w, m) ==
  [c \in Bodies |->
     IF c = m THEN [w[c] EXCEPT !.summons = {}]
     ELSE IF c \in w[m].summons THEN [Killed(w[c]) EXCEPT !.refs = @ - 1] ELSE w[c]]

DestroySummons(w, m) ==
  [c \in Bodies |->
     IF c = m THEN [w[c] EXCEPT !.summons = {}]
     ELSE IF c \in w[m].summons
          THEN [Killed(w[c]) EXCEPT !.master = NoMaster, !.refs = @ - 1]
          ELSE w[c]]

FollowingNone(w, far) == far

\* Following(w, far): those of far and, as removeCreature calls itself for each
\* summon, those that go with them.
Following(w, far) ==
  LET Closed(S) == \A m \in S : \A d \in w[m].summons : w[d].removed \/ d \in S
      closed == {S \in SUBSET Bodies : far \subseteq S /\ Closed(S)}
  IN  {c \in Bodies : \A S \in closed : c \in S}

\* LetGo(w, gone): whom onRemovedCreature takes off a list; a master who has been
\* removed before keeps them on the list that his own removal is going through.
LetGoAlways(w, gone) == {c \in gone : w[c].master # NoMaster}

LetGo(w, gone) ==
  {c \in gone : \E m \in Bodies \ gone : ~w[m].removed /\ w[c].master = m /\ c \in w[m].summons}

Removed(b) ==
  [b EXCEPT !.removed = TRUE, !.placed = FALSE, !.checked = FALSE, !.released = @ + 1]

RemoveCreatures(w, far) ==
  LET gone == Following(w, {c \in far : ~w[c].removed})
      free == LetGo(w, gone)
      Stripped(c) == [w[c] EXCEPT !.summons = @ \ free]
      Freed(c) == [Stripped(c) EXCEPT !.master = NoMaster, !.refs = @ - 1]
  IN  [c \in Bodies |-> IF c \in free THEN Removed(Freed(c))
                        ELSE IF c \in gone THEN Removed(Stripped(c)) ELSE Stripped(c)]

RemoveCreature(w, c) == RemoveCreatures(w, {c})

CleanupKept(w) == [c \in Bodies |-> [w[c] EXCEPT !.refs = @ - w[c].released]]

\* Cleanup(w): every entry of releaseThings is let go.
Cleanup(w) == [c \in Bodies |-> [w[c] EXCEPT !.refs = @ - w[c].released, !.released = 0]]

\* OnDeath(w, c, how): a script may deny the death; a player who drops nothing
\* stays in the world.
OnDeath(w, c, how) ==
  LET freed == IF w[c].master = NoMaster THEN w ELSE RemoveSummon(w, w[c].master, c)
  IN  CASE how = "denied" -> w
        [] how = "stays" /\ c \in Masters -> [freed EXCEPT ![c].healthy = TRUE]
        [] OTHER -> RemoveCreature(IF c \in Beasts THEN DestroySummons(freed, c) ELSE freed, c)

\* Checked(w, c, how): one turn of the loop of checkCreatures; the entry of a
\* creature that need not be checked is given to freeThing.
Checked(w, c, how) ==
  IF ~w[c].checked
  THEN [w EXCEPT ![c].listed = FALSE, ![c].released = @ + 1]
  ELSE IF w[c].healthy THEN w ELSE OnDeath(w, c, how)

Become(w) == bodies' = Buried(w)
----------------------------------------------------------------------------
\* Place(c): placeCreature of a player who logs in, or of a monster.
Placed(w, c) ==
  LET b == [w[c] EXCEPT !.placed = TRUE, !.healthy = TRUE, !.refs = @ + 1]
  IN  [w EXCEPT ![c] = AddCreatureCheck(b)]

Place(c) == ~Exists(c) /\ Become(Placed(bodies, c))

\* PlaceSummon(m, c): the summon is on its master's list before there is room.
PlaceSummon(m, c) ==
  /\ InGame(m) /\ ~Exists(c)
  /\ LET w == AddSummon(bodies, m, c)
     IN  \/ Become(Placed(w, c))
         \/ Become(RemoveSummon(w, m, c))

\* Convince(m, c): convinceCreature; a player's summon stays his.
Convince(m, c) ==
  /\ InGame(m) /\ InGame(c) /\ bodies[c].master \notin Masters
  /\ LET old == bodies[c].master
         w == IF old = NoMaster THEN bodies ELSE RemoveSummon(bodies, old, c)
     IN  Become(AddSummon(DestroySummons(w, c), m, c))

Hurt(c) ==
  /\ InGame(c) /\ bodies[c].healthy
  /\ LET b == IF c \in Beasts THEN Killed(bodies[c]) ELSE [bodies[c] EXCEPT !.healthy = FALSE]
     IN  Become([bodies EXCEPT ![c] = b])

UpdateIdle(c, idle) == InGame(c) /\ Become([bodies EXCEPT ![c] = SetIdle(bodies[c], idle)])

\* Depart(c): it logs out, despawns or is removed by a script.
Depart(c) == InGame(c) /\ Become(RemoveCreature(bodies, c))

\* MoveAway(m, far): onCreatureMove removes the summons left too far behind.
MoveAway(m, far) ==
  /\ InGame(m) /\ far # {} /\ far \subseteq bodies[m].summons
  /\ Become(RemoveCreatures(bodies, far))

\* CheckCreatures(due, how): the loop over one vector, and cleanup.  Scripts answer
\* alike for all that die in it.
CheckCreatures(due, how) ==
  /\ \A i \in DOMAIN due : bodies[due[i]].listed
  /\ LET after[n \in 0 .. Len(due)] ==
           IF n = 0 THEN bodies ELSE Checked(after[n - 1], due[n], how)
     IN  Become(Cleanup(after[Len(due)]))

\* CleanUp: at the end of checkDecay.
CleanUp == Become(Cleanup(bodies))

\* Notice(c), Lose(c): a monster takes c on its list of targets or friends, and
\* drops it, with a reference.
Notice(c) ==
  InGame(c) /\ ~bodies[c].seen /\ Become([bodies EXCEPT ![c].seen = TRUE, ![c].refs = @ + 1])
Lose(c) ==
  bodies[c].seen /\ Become([bodies EXCEPT ![c].seen = FALSE, ![c].refs = @ - 1])

Orders == {s \in UNION {[1 .. n -> Bodies] : n \in 1 .. Cardinality(Bodies)} : IsInjective(s)}

SummonNext ==
  \/ \E c \in Bodies : Place(c) \/ Hurt(c) \/ Depart(c) \/ Notice(c) \/ Lose(c)
  \/ \E m \in Bodies, c \in Beasts : PlaceSummon(m, c)
  \/ \E m \in Masters, c \in Beasts : Convince(m, c)
  \/ \E c \in Beasts, idle \in BOOLEAN : UpdateIdle(c, idle)
  \/ \E m \in Bodies : \E far \in SUBSET bodies[m].summons : MoveAway(m, far)
  \/ \E due \in Orders, how \in {"dies", "stays", "denied"} : CheckCreatures(due, how)
  \/ CleanUp

SummonSpec == SummonInit /\ [][SummonNext]_bodies
----------------------------------------------------------------------------
SummonTypeOK ==
  bodies \in [Bodies -> [placed : BOOLEAN, removed : BOOLEAN, healthy : BOOLEAN,
    checked : BOOLEAN, listed : BOOLEAN, master : Bodies \cup {NoMaster},
    summons : SUBSET Beasts, seen : BOOLEAN, released : 0 .. 2, refs : 0 .. 6]]

\* A body has a master exactly when it is on the list of that master, and then
\* the master has not been deleted: neither pointer dangles, in whatever order
\* the two are killed, removed, convinced and deleted (removeCreature,
\* destroySummons, ~Creature).
MastersMutual ==
  \A c \in Bodies, m \in Bodies :
    /\ bodies[c].master = m <=> c \in bodies[m].summons
    /\ c \in bodies[m].summons => Exists(c) /\ Exists(m)

\* A body has one reference for its place in the world or in releaseThings, one
\* for the check list, one for its master's and one for a viewer's: it is
\* deleted when it leaves the last, neither before nor never.
BodyRefs ==
  \A c \in Bodies : LET b == bodies[c] IN
    b.refs = Cardinality({k \in 1 .. 4 : <<b.placed, b.listed, b.master # NoMaster, b.seen>>[k]})
             + b.released

\* Who has died in the world is being checked, also a summon that slept when its
\* master's death took its health: the check is what makes him leave, as
\* updateIdleStatus no longer does anything for him (monster.cpp:509).
DeadAreChecked == \A c \in Bodies : InGame(c) /\ ~bodies[c].healthy => bodies[c].checked

\* A summon of a master who has left has left with him.
NobodyLeftBehind ==
  \A c \in Bodies : InGame(c) /\ bodies[c].master # NoMaster => InGame(bodies[c].master)

\* While the removal of a player goes through his list of summons and removes them,
\* the list does not change: what has left it had died (game.cpp:1004).
WalkedListStays ==
  [][\A m \in Masters : \A c \in bodies[m].summons :
       InGame(m) /\ bodies'[m].removed /\ bodies[c].healthy => c \in bodies'[m].summons]_bodies

\* Masters and summons know each other, are counted and checked as long as they
\* exist, and leave together (creature.cpp, monster.cpp, game.cpp).
SummonsKept ==
  /\ [](SummonTypeOK /\ MastersMutual /\ BodyRefs /\ DeadAreChecked /\ NobodyLeftBehind)
  /\ WalkedListStays
=============================================================================
