------------------------------- MODULE MCWorld -------------------------------
(***************************************************************************)
(* A small instance for TLC of summons, raids, guilds, reports, the        *)
(* schedule of saves and the account manager.  The modules share no state: *)
(* in a behaviour one part moves, and the others stay as they began.       *)
(***************************************************************************)
EXTENDS Summons, Raids, SaveSchedule, AccountManager, RuleViolations, Guild

CONSTANTS c1, c2, x1, x2    \* clients; monsters or names

Symmetry == Permutations({c1, c2}) \cup Permutations({x1, x2})

\* The clock at which the server starts: near the hour, and at a half hour.
NearTheHour == {0, 1, 2, 3, 4, 5, 6, 30, 54, 55, 56, 57, 58, 59}

VARIABLE part

parts == <<bodies, raidVars, scheduleVars, managerVars, reportVars, guildVars>>

(* Where it does not matter, one initial state of a part is enough. *)
Init ==
  /\ part \in {"summons", "raids", "saves", "manager", "reports", "guilds"}
  /\ IF part = "saves" THEN TRUE
     ELSE planned = [hour |-> 8, minute |-> 0] /\ begun = [hour |-> 0, minute |-> 0]
  /\ IF part = "manager" THEN TRUE ELSE accounts = [ids |-> {}, unnamed |-> FALSE]
  /\ SummonInit /\ RaidInit /\ ScheduleInit /\ ManagerInit /\ ReportInit
  /\ GuildInit

Next ==
  /\ part' = part
  /\ IF part = "summons" THEN SummonNext ELSE UNCHANGED bodies
  /\ IF part = "raids" THEN RaidNext ELSE UNCHANGED raidVars
  /\ IF part = "saves" THEN ScheduleNext ELSE UNCHANGED scheduleVars
  /\ IF part = "manager" THEN ManagerNext ELSE UNCHANGED managerVars
  /\ IF part = "reports" THEN ReportNext ELSE UNCHANGED reportVars
  /\ IF part = "guilds" THEN GuildNext ELSE UNCHANGED guildVars

Spec == Init /\ [][Next]_<<part, parts>>
=============================================================================
