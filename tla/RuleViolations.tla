--------------------------- MODULE RuleViolations ---------------------------
(***************************************************************************)
(* Rule violation reports: the map ruleViolations of Game, the handlers    *)
(* that report, process, close and cancel (800/game.cpp), what a player's  *)
(* leaving does to them (800/player.cpp), and the channel of those who     *)
(* answer.  All of it runs in the dispatcher thread.                       *)
(*                                                                         *)
(* A report points to its reporter and, once it is processed, to its       *)
(* gamemaster.  desks are the channel as the clients show it.              *)
(***************************************************************************)
EXTENDS Naturals, People

CONSTANT Gamemasters  \* whose group may answer reports when they log in

ASSUME GamemastersAssumption ==
  /\ Gamemasters \subseteq Players
  /\ {"none", "open", "stale"} \cap Players = {}  \* the marks of a report, below

VARIABLES
  reports,  \* by reporter: none, open, or the gamemaster who took it; stale:
            \* that gamemaster is gone
  answerers,\* users of the channel CHANNEL_RVR
  desks,    \* of each player: whether he is in game, has a client, may
            \* answer, has the channel open, and the reports listed in it
  reportLost \* the pointer to a gamemaster who is gone has been used

reportVars == <<reports, answerers, desks, reportLost>>

NoReport == "none"
OpenReport == "open"
StaleReport == "stale"

NoDesk == [online |-> FALSE, linked |-> FALSE, mayAnswer |-> FALSE,
           open |-> FALSE, list |-> {}]

ReportTypeOK ==
  /\ reports \in [Players -> {NoReport, OpenReport, StaleReport} \cup Players]
  /\ reportLost \in BOOLEAN
  /\ answerers \subseteq Players
  /\ desks \in [Players -> [online : BOOLEAN, linked : BOOLEAN, mayAnswer : BOOLEAN,
                            open : BOOLEAN, list : SUBSET Players]]

ReportInit ==
  /\ reports = [p \in Players |-> NoReport]
  /\ answerers = {}
  /\ desks = [p \in Players |-> NoDesk]
  /\ reportLost = FALSE

Reading(g) == g \in answerers /\ desks[g].linked /\ desks[g].open

(* sendToChannel and sendRemoveReport to every user of the channel. *)
WithListed(p) == [g \in Players |->
  IF Reading(g) THEN [desks[g] EXCEPT !.list = @ \cup {p}] ELSE desks[g]]

WithUnlisted(R) == [g \in Players |->
  IF Reading(g) THEN [desks[g] EXCEPT !.list = @ \ R] ELSE desks[g]]

(* cancelRuleViolation: who has taken the report is told, else all are. *)
WithCancelled(p) == IF reports[p] = OpenReport THEN WithUnlisted({p}) ELSE desks
UsesStale(p) == reports[p] = StaleReport
-----------------------------------------------------------------------------
(* playerReportRuleViolation *)
Report(p) ==
  /\ desks[p].online
  /\ reports' = [reports EXCEPT ![p] = OpenReport]
  /\ desks' = WithListed(p)
  /\ reportLost' = UsesStale(p)
  /\ UNCHANGED answerers

ProcessQuietly(g, p) ==
  /\ desks[g].online /\ desks[p].online
  /\ desks[g].mayAnswer
  /\ reports[p] = OpenReport
  /\ reports' = [reports EXCEPT ![p] = g]
  /\ UNCHANGED <<answerers, desks, reportLost>>

ProcessByNobody(g, p) ==
  /\ desks[g].online /\ desks[p].online
  /\ desks[g].mayAnswer
  /\ reports[p] = OpenReport
  /\ reports' = [reports EXCEPT ![p] = NoPlayer]
  /\ desks' = WithUnlisted({p})
  /\ UNCHANGED <<answerers, reportLost>>

(* playerProcessRuleViolation *)
Process(g, p) ==
  /\ desks[g].online /\ desks[p].online
  /\ desks[g].mayAnswer
  /\ reports[p] = OpenReport
  /\ reports' = [reports EXCEPT ![p] = g]
  /\ desks' = WithUnlisted({p})
  /\ UNCHANGED <<answerers, reportLost>>

(* playerCloseRuleViolation: anyone may. *)
CloseReport(p) ==
  /\ desks[p].online
  /\ reports[p] # NoReport
  /\ reports' = [reports EXCEPT ![p] = NoReport]
  /\ desks' = WithUnlisted({p})
  /\ UNCHANGED <<answerers, reportLost>>

(* playerCancelRuleViolation *)
CancelReport(p) ==
  /\ desks[p].online
  /\ reports[p] # NoReport
  /\ reports' = [reports EXCEPT ![p] = NoReport]
  /\ desks' = WithCancelled(p)
  /\ reportLost' = UsesStale(p)
  /\ UNCHANGED answerers

(* playerOpenChannel: the channel comes with the open reports.  Who is a   *)
(* user already gets nothing.                                              *)
OpenDesk(g) ==
  /\ desks[g].online
  /\ desks[g].mayAnswer
  /\ g \notin answerers
  /\ answerers' = answerers \cup {g}
  /\ desks' = IF desks[g].linked
              THEN [desks EXCEPT ![g].open = TRUE,
                      ![g].list = {p \in Players : reports[p] = OpenReport}]
              ELSE desks
  /\ UNCHANGED <<reports, reportLost>>

(* playerCloseChannel finds the channel only for who may answer. *)
CloseDesk(g) ==
  /\ desks[g].online
  /\ desks[g].mayAnswer
  /\ g \in answerers
  /\ answerers' = answerers \ {g}
  /\ desks' = [desks EXCEPT ![g].open = FALSE, ![g].list = {}]
  /\ UNCHANGED <<reports, reportLost>>

(* Another client asks for the player: he is taken out of all channels. *)
TakeDesk(g) ==
  /\ desks[g].linked
  /\ answerers' = answerers \ {g}
  /\ desks' = [desks EXCEPT ![g].open = FALSE, ![g].list = {}]
  /\ UNCHANGED <<reports, reportLost>>

OnlyHisOwn(g) == {g}

(* The reports that go with g when he leaves the game. *)
Orphans(g) == {g} \cup {p \in Players : desks[g].mayAnswer /\ reports[p] = g}

(* Player::onCreatureDisappear *)
LeaveDesk(g) ==
  /\ desks[g].online
  /\ reports' = [p \in Players |-> 
       IF p \in Orphans(g) THEN NoReport
       ELSE IF reports[p] = g THEN StaleReport ELSE reports[p]]
  /\ answerers' = answerers \ {g}
  /\ desks' = [WithUnlisted(Orphans(g)) EXCEPT ![g] = NoDesk]
  /\ reportLost' = UsesStale(g)

(* A login, or a client that comes back for a player without one; who      *)
(* comes back is still a user of the channel that his client does not show.*)
ComeToDesk(g) ==
  /\ ~desks[g].linked
  /\ desks' = [desks EXCEPT ![g].online = TRUE, ![g].linked = TRUE,
                 ![g].mayAnswer = IF desks[g].online THEN @ ELSE g \in Gamemasters]
  /\ UNCHANGED <<reports, answerers, reportLost>>

DeskGone(g) ==
  /\ desks[g].linked
  /\ desks' = [desks EXCEPT ![g].linked = FALSE, ![g].open = FALSE, ![g].list = {}]
  /\ UNCHANGED <<reports, answerers, reportLost>>

(* A script changes the player's group: setGroup. *)
Regroup(g) ==
  /\ desks[g].online
  /\ desks' = [desks EXCEPT ![g].mayAnswer = ~@]
  /\ UNCHANGED <<reports, answerers, reportLost>>

(* Chat::reload makes the channel anew, without users. *)
ReloadDesks == answerers' = {} /\ UNCHANGED <<reports, desks, reportLost>>

ReportNext ==
  /\ ~reportLost
  /\ \/ ReloadDesks
     \/ \E p \in Players :
          \/ Report(p) \/ CloseReport(p) \/ CancelReport(p)
          \/ OpenDesk(p) \/ CloseDesk(p) \/ TakeDesk(p)
          \/ LeaveDesk(p) \/ ComeToDesk(p) \/ DeskGone(p) \/ Regroup(p)
          \/ \E q \in Players : Process(p, q)

ReportSpec == ReportInit /\ [][ReportNext]_reportVars
-----------------------------------------------------------------------------
(* Properties.                                                             *)

(* Who hears the channel and shows it sees exactly the open reports, each  *)
(* of somebody in game: none is taken, closed, cancelled or left behind by *)
(* its reporter without leaving every list, and none is missed.            *)
ListsAreExact ==
  \A g \in Players : Reading(g) =>
    desks[g].list = {p \in Players : reports[p] = OpenReport /\ desks[p].online}

(* A report's pointers lead to players in game: it goes with its reporter, *)
(* and only a gamemaster who has lost the right to answer leaves behind    *)
(* one that points to him.                                                 *)
NoOrphans ==
  [][\A p \in Players :
       /\ reports'[p] # NoReport => desks'[p].online
       /\ reports'[p] = StaleReport =>
            \/ reports[p] = StaleReport
            \/ reports[p] \in Players /\ ~desks[reports[p]].mayAnswer]_reportVars

(* The reports, those who made or took them, and the lists that the        *)
(* gamemasters see agree.                                                  *)
ReportsKept == [](ReportTypeOK /\ ListsAreExact) /\ NoOrphans
=============================================================================
