-------------------------------- MODULE Raids --------------------------------
(***************************************************************************)
(* Raids: the check that starts them, their events, the references that    *)
(* spawned monsters and items hold, and reloading (800/raids.cpp, raids.h, *)
(* 800/monster.cpp, 800/item.cpp, 800/luascript.cpp, 800/game.cpp).        *)
(*                                                                         *)
(* There is one raid of each reference type.  reload deletes the Raid      *)
(* objects and makes new ones: an object is a type and a generation.  What *)
(* an event does but for spawning, and the chances of raids, are left out. *)
(***************************************************************************)
EXTENDS Naturals, SequencesExt

CONSTANTS
  RefTypes,    \* those of REF_NONE, REF_SINGLE and REF_BLOCK there is a raid of
  LastEvent,   \* how many events each raid has
  Spawned,     \* Monster and Item objects that a raid may spawn
  NoRaid,
  MaxRaidReloads,  \* bound
  MaxChecks    \* bound: events of checkRaids at a time

ASSUME RaidsAssumption ==
  /\ RefTypes \subseteq {"none", "single", "block"}
  /\ LastEvent \in Nat \ {0} /\ MaxRaidReloads \in Nat /\ MaxChecks \in Nat \ {0}
  /\ NoRaid \notin [type : RefTypes, made : 0 .. MaxRaidReloads]
  /\ IsFiniteSet(Spawned)

VARIABLES
  raids,        \* the Raid objects
  running,
  raidReloads,  \* how often raids were reloaded
  started,
  checkRaidsEvent,
  raidEvents,   \* of raids and of checkRaids, in the scheduler
  raidTasks,    \* the same, passed to the dispatcher
  holds,        \* the raid a spawned thing belongs to
  heldAtReload, \* a raid was deleted that was referred to, or about to run
  misused       \* a deleted raid was used

raidVars == <<raids, running, raidReloads, started, checkRaidsEvent, raidEvents, raidTasks,
              holds, heldAtReload, misused>>

Raids == [type : RefTypes, made : 0 .. MaxRaidReloads]
CheckIds == 1 .. MaxChecks
RaidEvent(r) == [raid |-> r, id |-> 0]
CheckEvent(i) == [raid |-> NoRaid, id |-> i]

NewRaid == [alive |-> TRUE, refCount |-> 0, lost |-> 0, eventCount |-> 0, nextEvent |-> FALSE]

RaidInit ==
  /\ raids = [r \in Raids |-> [NewRaid EXCEPT !.alive = r.made = 0]]
  /\ running = NoRaid
  /\ raidReloads = 0
  /\ started = TRUE
  /\ checkRaidsEvent = 1 /\ raidEvents = {CheckEvent(1)} /\ raidTasks = <<>>
  /\ holds = [s \in Spawned |-> NoRaid]
  /\ heldAtReload = FALSE /\ misused = FALSE
-----------------------------------------------------------------------------
(* The functions work on what they may change.                             *)

Lair == [raids |-> raids, running |-> running, events |-> raidEvents]

RaidsBecome(w) == raids' = w.raids /\ running' = w.running /\ raidEvents' = w.events

StopEvents(w, r) ==
  IF w.raids[r].nextEvent
  THEN [w EXCEPT !.raids[r].nextEvent = FALSE, !.events = @ \ {RaidEvent(r)}]
  ELSE w

(* getNextRaidEvent and addEvent; nothing is left to run otherwise. *)
HasNextOrNot(w, r) == w.raids[r].eventCount <= LastEvent
HasNext(w, r) == w.raids[r].eventCount < LastEvent
AddNext(w, r) ==
  [w EXCEPT !.raids[r].eventCount = @ + 1, !.raids[r].nextEvent = TRUE,
            !.events = @ \cup {RaidEvent(r)}]

(* startRaid of a raid without references. *)
StartRaid(w, r) == [AddNext(w, r) EXCEPT !.running = r]

ResetKeepingCount(w, r, checkExecution) ==
  IF checkExecution /\ w.raids[r].nextEvent THEN w
  ELSE LET v == StopEvents(w, r) IN
       IF r.type = "block" /\ v.raids[r].refCount > 0 THEN v
       ELSE [v EXCEPT !.running = IF @ = r THEN NoRaid ELSE @,
                      !.raids[r].eventCount = IF r.type # "single" THEN 0 ELSE @]
ResetAnyway(w, r, checkExecution) ==
  LET v == StopEvents(w, r) IN
  IF r.type = "block" /\ v.raids[r].refCount > 0 THEN v
  ELSE [v EXCEPT !.running = IF @ = r THEN NoRaid ELSE @,
                 !.raids[r].eventCount =
                   IF r.type # "single" \/ v.raids[r].refCount = 0 THEN 0 ELSE @]
ResetRaid(w, r, checkExecution) ==
  IF checkExecution /\ w.raids[r].nextEvent THEN w
  ELSE LET v == StopEvents(w, r) IN
       IF r.type = "block" /\ v.raids[r].refCount > 0 THEN v
       ELSE [v EXCEPT !.running = IF @ = r THEN NoRaid ELSE @,
                      !.raids[r].eventCount =
                        IF r.type # "single" \/ v.raids[r].refCount = 0 THEN 0 ELSE @]

UnRef(w, r) ==
  LET v == [w EXCEPT !.raids[r].refCount = @ - 1] IN
  IF v.raids[r].refCount = 0 THEN ResetRaid(v, r, TRUE) ELSE v

SpawnForOnce(w, r, things, merged) ==
  IF r.type = "none" \/ things = {} THEN w ELSE [w EXCEPT !.raids[r].refCount = @ + 1]

(* What executeEvent spawns belongs to the raid.  An item that is merged   *)
(* into a stack is gone before it is told so: its reference is never given *)
(* back.                                                                   *)
SpawnFor(w, r, things, merged) ==
  IF r.type = "none" THEN w
  ELSE [w EXCEPT !.raids[r].refCount = @ + Cardinality(things) + merged,
                 !.raids[r].lost = @ + merged]

(* executeRaidEvent, once executeEvent is done. *)
GoOn(w, r, done) ==
  IF done /\ HasNext(w, r) THEN AddNext(w, r) ELSE ResetRaid(w, r, FALSE)
-----------------------------------------------------------------------------
Survives == ~misused   \* the process survives so long at least
TaskIs(e) == Survives /\ raidTasks # <<>> /\ Head(raidTasks) = e

PassRaidEvent ==
  /\ Survives
  /\ \E e \in raidEvents : raidEvents' = raidEvents \ {e} /\ raidTasks' = Append(raidTasks, e)
  /\ UNCHANGED <<raids, running, raidReloads, started, checkRaidsEvent, holds,
                 heldAtReload, misused>>

(* executeRaidEvent; an event may fail. *)
RunRaidEvent ==
  \E r \in Raids :
    /\ TaskIs(RaidEvent(r))
    /\ raidTasks' = Tail(raidTasks)
    /\ IF raids[r].alive
       THEN \E things \in SUBSET {s \in Spawned : holds[s] = NoRaid},
               merged \in {0, 1}, done \in BOOLEAN :
              /\ merged = 1 => raids[r].lost = 0 /\ r.type # "none"
              /\ RaidsBecome(GoOn(SpawnFor(Lair, r, things, merged), r, done))
              /\ holds' = [s \in Spawned |-> IF s \in things /\ r.type # "none"
                                             THEN r ELSE holds[s]]
              /\ UNCHANGED misused
       ELSE misused' = TRUE /\ UNCHANGED <<raids, running, raidEvents, holds>>
    /\ UNCHANGED <<raidReloads, started, checkRaidsEvent, heldAtReload>>

(* checkRaids comes again whatever it does; the id is free again. *)
Quiet(w) == w.running = NoRaid
Startable == {r \in Raids : raids[r].alive /\ raids[r].refCount = 0 /\ HasNext(Lair, r)}
FreeCheck(i) == \A e \in raidEvents \cup ToSet(raidTasks) : e.id # i

CheckAgainIfQuiet(w, i) == IF Quiet(w) THEN [w EXCEPT !.events = @ \cup {CheckEvent(i)}] ELSE w
CheckAgain(w, i) == [w EXCEPT !.events = @ \cup {CheckEvent(i)}]

CheckRaids ==
  \E i \in CheckIds :
    /\ TaskIs(CheckEvent(i))
    /\ raidTasks' = Tail(raidTasks)
    /\ checkRaidsEvent' = i
    /\ LET w == CheckAgain(Lair, i) IN
       \/ RaidsBecome(w)
       \/ Quiet(w) /\ \E r \in Startable : RaidsBecome(StartRaid(w, r))
    /\ UNCHANGED <<raidReloads, started, holds, heldAtReload, misused>>

(* doExecuteRaid *)
ExecuteRaid ==
  /\ Survives /\ Quiet(Lair)
  /\ \E r \in Startable : RaidsBecome(StartRaid(Lair, r))
  /\ UNCHANGED <<raidReloads, started, checkRaidsEvent, raidTasks, holds, heldAtReload, misused>>

(* A monster dies, is convinced or removed, an item is removed. *)
Vanish(s) ==
  /\ Survives /\ holds[s] # NoRaid
  /\ holds' = [holds EXCEPT ![s] = NoRaid]
  /\ IF raids[holds[s]].alive
     THEN RaidsBecome(UnRef(Lair, holds[s])) /\ UNCHANGED misused
     ELSE misused' = TRUE /\ UNCHANGED <<raids, running, raidEvents>>
  /\ UNCHANGED <<raidReloads, started, checkRaidsEvent, raidTasks, heldAtReload>>

(* clear, in reload: the objects are deleted, ~Raid stops their events. *)
ClearQuietly ==
  [raids |-> [r \in Raids |-> [raids[r] EXCEPT !.alive = FALSE]],
   running |-> NoRaid, events |-> raidEvents \ {CheckEvent(checkRaidsEvent)}]
Clear ==
  [raids |-> [r \in Raids |-> [raids[r] EXCEPT !.alive = FALSE]],
   running |-> NoRaid,
   events |-> {e \in raidEvents : e.raid = NoRaid /\ e.id # checkRaidsEvent}]

(* reload and startup, unless the new raids cannot be loaded. *)
Reload ==
  /\ Survives /\ raidReloads < MaxRaidReloads
  /\ raidReloads' = raidReloads + 1
  /\ heldAtReload' = (heldAtReload \/ (\E s \in Spawned : holds[s] # NoRaid)
                                  \/ (\E e \in ToSet(raidTasks) : e.raid # NoRaid))
  /\ \/ /\ RaidsBecome(Clear)
        /\ started' = FALSE /\ checkRaidsEvent' = 0
     \/ \E j \in CheckIds :
          /\ FreeCheck(j) /\ (\A k \in CheckIds : FreeCheck(k) => j <= k)
          /\ RaidsBecome([Clear EXCEPT !.events = @ \cup {CheckEvent(j)},
               !.raids = [r \in Raids |-> IF r.made = raidReloads' THEN NewRaid ELSE @[r]]])
          /\ started' = TRUE /\ checkRaidsEvent' = j
  /\ UNCHANGED <<raidTasks, holds, misused>>

RaidNext ==
  \/ PassRaidEvent \/ RunRaidEvent \/ CheckRaids \/ ExecuteRaid \/ Reload
  \/ \E s \in Spawned : Vanish(s)

RaidSpec == RaidInit /\ [][RaidNext]_raidVars
-----------------------------------------------------------------------------
(* Properties.                                                             *)

ComingRaids == {e.raid : e \in raidEvents \cup ToSet(raidTasks)} \ {NoRaid}

RaidTypeOK ==
  /\ \A r \in Raids : raids[r].refCount \in Nat /\ raids[r].eventCount \in 0 .. LastEvent
  /\ running \in Raids \cup {NoRaid}
  /\ checkRaidsEvent \in CheckIds \cup {0}
  /\ holds \in [Spawned -> Raids \cup {NoRaid}]

(* The running raid has an event to come, or waits for the last of its     *)
(* monsters; no other raid has any.  So raids do not get stuck, and no two *)
(* run at a time, however monsters die between the events.                 *)
RunningGoesOn ==
  ~heldAtReload =>
    /\ ComingRaids \subseteq {running}
    /\ running # NoRaid /\ running \notin ComingRaids =>
         running.type = "block" /\ raids[running].refCount > 0

(* The count is that of the monsters that hold the raid, but for the       *)
(* references that were lost with merged items.                            *)
RefsCountSpawned ==
  \A r \in Raids : raids[r].alive =>
    raids[r].refCount = raids[r].lost + Cardinality({s \in Spawned : holds[s] = r})

(* A raid that may be started begins with its first event. *)
StartsFromFirst ==
  ~heldAtReload =>
    \A r \in Raids : raids[r].alive /\ running # r /\ raids[r].refCount = 0 =>
      raids[r].eventCount = 0

(* A raid deleted by reload is used only if a monster still belonged to    *)
(* it, which need not be one of a running raid, or if its event had been   *)
(* passed to the dispatcher.                                               *)
UsedIfHeld == misused => heldAtReload

(* Once started, checkRaids comes again and again; after a reload it may   *)
(* come twice as often, if its event had been passed to the dispatcher.    *)
CheckComes ==
  started => \E e \in raidEvents \cup ToSet(raidTasks) : e.raid = NoRaid

(* Raids run one at a time, from their first event to their last, and      *)
(* again, as their events, monsters and reloads come.                      *)
RaidsKept ==
  RaidTypeOK /\ RunningGoesOn /\ RefsCountSpawned /\ StartsFromFirst /\ UsedIfHeld /\ CheckComes
=============================================================================
