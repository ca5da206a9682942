----------------------------- MODULE SaveSchedule -----------------------------
(***************************************************************************)
(* When the global save is due: what Game::start computes from the         *)
(* configured hour and minute and the time of day (800/game.cpp), and the  *)
(* timers of prepareGlobalSave and globalSave after that.  The unit is the *)
(* minute; the seconds, which start subtracts, are left out.               *)
(***************************************************************************)
EXTENDS Integers

CONSTANTS
  SaveHours, SaveMinutes,   \* values of globalSaveHour and globalSaveMinute
  StartHours, StartMinutes, \* when the server is started
  MaxSaves                  \* bound: saves that are looked at

ASSUME SaveScheduleAssumption ==
  /\ SaveHours \subseteq 0 .. 24 /\ SaveMinutes \subseteq 0 .. 59
  /\ StartHours \subseteq 0 .. 23 /\ StartMinutes \subseteq 0 .. 59
  /\ MaxSaves \in Nat

VARIABLES
  planned,   \* the configured hour and minute
  begun,     \* the hour and minute of the start
  passed,    \* minutes since then
  due,       \* when the event will run, and the argument of prepareGlobalSave
  saves      \* how many saves there were

scheduleVars == <<planned, begun, passed, due, saves>>

Day == 24 * 60
Wrap == 71582   \* 2^32 milliseconds
NoEvent == [at |-> 0, stage |-> 9]
Times(Hours, Minutes) == [hour : Hours, minute : Minutes]
MinuteOf(t) == (t.hour * 60 + t.minute) % Day

(* hoursLeft and minutesLeft as minutes, in 32 bits without sign; 0 arms   *)
(* no event.                                                               *)
Arm(left, stage) ==
  IF left % Wrap = 0 THEN NoEvent ELSE [at |-> left % Wrap, stage |-> stage]

EarlierOff(p) ==
  IF p.minute >= 5 THEN [p EXCEPT !.minute = @ - 5] ELSE [p EXCEPT !.minute = 55 + @]

(* Five minutes earlier. *)
Earlier(p) ==
  IF p.minute >= 5 THEN [p EXCEPT !.minute = @ - 5]
  ELSE [hour |-> p.hour - 1, minute |-> 55 + p.minute]

OtherHourSameDay(p, t) == Arm(60 * (p.hour - t.hour) + p.minute - t.minute, 5)

(* Another hour than that of the start. *)
OtherHour(p, t) ==
  LET e == Earlier(p)
      hours == IF t.hour > e.hour THEN 24 - (t.hour - e.hour) ELSE e.hour - t.hour
  IN IF t.minute > e.minute
     THEN Arm(60 * (hours - 1) + 60 - (t.minute - e.minute), 5)
     ELSE Arm(60 * hours + e.minute - t.minute, 5)

SameHourForgets(p, t) ==
  LET left == p.minute - t.minute IN
  IF left < 0 THEN Arm(23 * 60 + 55 + left, 5)
  ELSE IF left >= 5 THEN Arm(left - 5, 5)
  ELSE IF left \in {1, 3} THEN [at |-> 0, stage |-> left] ELSE NoEvent

(* The hour of the start.  With one or three minutes left the stage is run *)
(* at once, that is in the same minute.                                    *)
SameHour(p, t) ==
  LET left == p.minute - t.minute IN
  IF left < 0 THEN Arm(23 * 60 + 55 + left, 5)
  ELSE IF left >= 5 \/ left = 0 THEN Arm(IF left >= 5 THEN left - 5 ELSE 0, 5)
  ELSE IF left \in {1, 3} THEN [at |-> 0, stage |-> left]
  ELSE Arm(1, IF left = 2 THEN 1 ELSE 3)

FirstEvent(configured, t) ==
  LET p == IF configured.hour = 0 THEN [configured EXCEPT !.hour = 24] ELSE configured IN
  IF t.hour = p.hour THEN SameHour(p, t) ELSE OtherHour(p, t)

(* start, once for each plan and time. *)
ScheduleInit ==
  /\ planned \in Times(SaveHours, SaveMinutes)
  /\ begun \in Times(StartHours, StartMinutes)
  /\ passed = 0
  /\ due = FirstEvent(planned, begun)
  /\ saves = 0

(* prepareGlobalSave: the next stage and how long it is until then. *)
NextStageOff(stage) ==
  CASE stage = 5 -> [at |-> 2, stage |-> 3]
    [] stage = 3 -> [at |-> 1, stage |-> 1]
    [] stage = 1 -> [at |-> 1, stage |-> 0]
NextStage(stage) ==
  CASE stage = 5 -> [at |-> 2, stage |-> 3]
    [] stage = 3 -> [at |-> 2, stage |-> 1]
    [] stage = 1 -> [at |-> 1, stage |-> 0]

After(e) == [e EXCEPT !.at = @ + due.at]

Announce ==
  /\ due.stage \in {5, 3, 1}
  /\ passed' = due.at
  /\ due' = After(NextStage(due.stage))
  /\ UNCHANGED <<planned, begun, saves>>

(* globalSave arms the first stage of the next day. *)
UntilNext == Day - 5

SaveNow ==
  /\ due.stage = 0 /\ saves < MaxSaves
  /\ passed' = due.at
  /\ saves' = saves + 1
  /\ due' = After([at |-> UntilNext, stage |-> 5])
  /\ UNCHANGED <<planned, begun>>

ScheduleNext == Announce \/ SaveNow

ScheduleSpec == ScheduleInit /\ [][ScheduleNext]_scheduleVars
-----------------------------------------------------------------------------
(* Properties.                                                             *)

(* How long it is from the start to the configured time. *)
Distance == (MinuteOf(planned) - MinuteOf(begun)) % Day

(* In these cases start reckons with an hour 24 and waits for the next day. *)
Midnight == planned.hour \in {0, 24} /\ begun.hour = 0

(* When a save has been made, that is when due is a day later. *)
JustSaved == due.stage = 5 /\ saves > 0 /\ due.at = passed + UntilNext

(* If the configured time is more than five minutes away, the first save   *)
(* is made right then, and each other exactly a day after the one before,  *)
(* however the hour and the minute borrow from each other; only a save of  *)
(* the midnight hour may be made a day later than it could.                *)
SavesOnTime ==
  Distance > 5 /\ JustSaved =>
    passed - Day * (saves - 1) \in {Distance} \cup (IF Midnight THEN {Distance + Day} ELSE {})

(* A plan is forgotten only if the server starts in the very minute of the *)
(* save or of its first announcement.                                      *)
NeverForgotten == due = NoEvent => Distance \in {0, 5}

(* A first event further away than the configured time of the next day is  *)
(* one whose hours wrapped below zero, and the server was started in the   *)
(* hour before the save, within five minutes of it.                        *)
WrapsOnlyNearby == saves = 0 /\ due.at > 2 * Day => Distance < 5 /\ begun.hour # planned.hour

(* The save that was planned is made on time, but for the plans that the   *)
(* reckoning of start forgets or puts off.                                 *)
PlansKept == SavesOnTime /\ NeverForgotten /\ WrapsOnlyNearby
=============================================================================
