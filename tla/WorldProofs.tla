----------------------------- MODULE WorldProofs -----------------------------
(***************************************************************************)
(* Machine-checked proofs about five modules of the world: SaveSchedule,   *)
(* for every configured time and every time of day at which the server is  *)
(* started, RuleViolations, for any set of players and gamemasters, Raids, *)
(* for any set of raids, Waiting, for any characters, any number of places *)
(* and either setting of premiumSkipWaitList, and Summons, for any finite  *)
(* sets of players and monsters.                                           *)
(***************************************************************************)
EXTENDS SaveSchedule, RuleViolations, Raids, Waiting, Summons, FiniteSetTheorems,
        WellFoundedInduction, TLAPS

-----------------------------------------------------------------------------
(* SaveSchedule.                                                           *)

(* From the announcement of a stage to the save. *)
Ahead(stage) == IF stage = 9 THEN 0 ELSE stage

(* What FirstEvent reckons with: hour 0 is hour 24. *)
Reckoned(p) == IF p.hour = 0 THEN [p EXCEPT !.hour = 24] ELSE p
Left(q, t) == 60 * (q.hour - t.hour) + q.minute - t.minute

Stages == {9, 5, 3, 1, 0}

(* How start arms the first event when the save is left minutes away: so   *)
(* that it is then, or a day later if it is over for today, or not at all, *)
(* or at once if less than five minutes are left; but then, if the hour    *)
(* changes in between, the negative number wraps.                          *)
Armed(f, q, t) ==
  LET left == Left(q, t) IN
  \/ f = NoEvent /\ left \in {0, 5}
  \/ f.stage = 5 /\ left > 5 /\ f.at + 5 = left
  \/ f.stage = 5 /\ left < 0 /\ f.at + 5 = left + Day
  \/ f.stage \in {1, 3} /\ f.at \in {0, 1} /\ left \in 1 .. 4
  \/ f.stage = 5 /\ left \in 1 .. 4 /\ q.hour # t.hour

LEMMA ArmIs ==
  ASSUME NEW left \in Int
  PROVE  /\ left = 0 => Arm(left, 5) = NoEvent
         /\ left > 0 /\ left < Wrap => Arm(left, 5) = [at |-> left, stage |-> 5]
         /\ left < 0 /\ left > -Wrap => Arm(left, 5) = [at |-> left + Wrap, stage |-> 5]
<1>1. left > 0 /\ left < 71582 => left % 71582 = left
  OBVIOUS
<1>2. left < 0 /\ left > -71582 => left % 71582 = left + 71582
  OBVIOUS
<1>3. left = 0 => left % 71582 = 0
  OBVIOUS
<1>. QED
  BY <1>1, <1>2, <1>3 DEF Arm, Wrap

LEMMA SameHourArms ==
  ASSUME NEW q \in [hour : 1 .. 24, minute : 0 .. 59],
         NEW t \in [hour : 0 .. 23, minute : 0 .. 59], q.hour = t.hour
  PROVE  /\ SameHour(q, t) \in [at : Int, stage : Stages]
         /\ Armed(SameHour(q, t), q, t)
<1>. DEFINE left == q.minute - t.minute
<1>1. left \in -59 .. 59 /\ Left(q, t) = left
  BY DEF Left
<1>. HIDE DEF left
<1>2. NoEvent \in [at : Int, stage : Stages]
  BY DEF NoEvent, Stages
<1>3. CASE left < 0
  <2>1. SameHour(q, t) = Arm(23 * 60 + 55 + left, 5)
    BY <1>3 DEF SameHour, left
  <2>2. 23 * 60 + 55 + left = 1435 + left /\ 1435 + left \in Int /\ 1435 + left > 0
    BY <1>1
  <2>3. SameHour(q, t) = [at |-> 1435 + left, stage |-> 5]
    BY <1>1, <1>3, <2>1, <2>2, ArmIs DEF Wrap
  <2>. QED
    BY <1>1, <1>3, <2>3 DEF Armed, Stages, Day
<1>4. CASE left > 5
  <2>1. SameHour(q, t) = Arm(left - 5, 5)
    BY <1>1, <1>4 DEF SameHour, left
  <2>2. left - 5 \in Int /\ left - 5 > 0 /\ left - 5 < 71582
    BY <1>1, <1>4
  <2>3. SameHour(q, t) = [at |-> left - 5, stage |-> 5]
    BY <2>1, <2>2, ArmIs DEF Wrap
  <2>. QED
    BY <1>1, <1>4, <2>3 DEF Armed, Stages
<1>5. CASE left \in {0, 5}
  <2>1. SameHour(q, t) = NoEvent
    BY <1>1, <1>5, ArmIs DEF SameHour, left
  <2>. QED
    BY <1>1, <1>2, <1>5, <2>1 DEF Armed
<1>6. CASE left \in {1, 3}
  <2>1. SameHour(q, t) = [at |-> 0, stage |-> left]
    BY <1>1, <1>6 DEF SameHour, left
  <2>. QED
    BY <1>1, <1>6, <2>1 DEF Armed, Stages
<1>7. CASE left \in {2, 4}
  <2>1. SameHour(q, t) = Arm(1, IF left = 2 THEN 1 ELSE 3)
    BY <1>1, <1>7 DEF SameHour, left
  <2>2. SameHour(q, t) = [at |-> 1, stage |-> IF left = 2 THEN 1 ELSE 3]
    BY <2>1 DEF Arm, Wrap
  <2>. QED
    BY <1>1, <1>7, <2>2 DEF Armed, Stages
<1>. QED
  BY <1>1, <1>3, <1>4, <1>5, <1>6, <1>7

LEMMA OtherHourArms ==
  ASSUME NEW q \in [hour : 1 .. 24, minute : 0 .. 59],
         NEW t \in [hour : 0 .. 23, minute : 0 .. 59], q.hour # t.hour
  PROVE  /\ OtherHour(q, t) \in [at : Int, stage : Stages]
         /\ Armed(OtherHour(q, t), q, t)
<1>1. PICK H \in 1 .. 24 : q.hour = H
  OBVIOUS
<1>2. PICK M \in 0 .. 59 : q.minute = M
  OBVIOUS
<1>3. PICK h \in 0 .. 23 : t.hour = h
  OBVIOUS
<1>4. PICK m \in 0 .. 59 : t.minute = m
  OBVIOUS
<1>. DEFINE left == 60 * (H - h) + M - m
            y == IF H < h THEN left - 5 + 1440 ELSE left - 5
<1>5. H # h /\ Left(q, t) = left
  BY <1>1, <1>2, <1>3, <1>4 DEF Left
<1>6. /\ left \in Int
      /\ H < h => left < 0 /\ left >= -1379
      /\ H > h => left > 0 /\ left < 1500
  OBVIOUS
<1>7. OtherHour(q, t) = Arm(y, 5)
  <2>1. PICK e \in Int : e = Earlier(q).hour /\ e = IF M >= 5 THEN H ELSE H - 1
    BY <1>1, <1>2 DEF Earlier
  <2>2. PICK i \in Int : i = Earlier(q).minute /\ i = IF M >= 5 THEN M - 5 ELSE 55 + M
    BY <1>1, <1>2 DEF Earlier
  <2>3. PICK hours \in Int : hours = IF h > e THEN 24 - (h - e) ELSE e - h
    <3>1. CASE h > e
      <4>1. 24 - (h - e) \in Int
        OBVIOUS
      <4>. QED
        BY <3>1, <4>1
    <3>2. CASE ~(h > e)
      <4>1. e - h \in Int
        OBVIOUS
      <4>. QED
        BY <3>2, <4>1
    <3>. QED
      BY <3>1, <3>2
  <2>4. OtherHour(q, t) = IF m > i THEN Arm(60 * (hours - 1) + 60 - (m - i), 5)
                          ELSE Arm(60 * hours + i - m, 5)
    BY <1>3, <1>4, <2>1, <2>2, <2>3 DEF OtherHour
  <2>5. 60 * hours + i - m = y /\ 60 * (hours - 1) + 60 - (m - i) = y
    BY <1>5, <2>1, <2>2, <2>3
  <2>. HIDE DEF y
  <2>. QED
    BY <2>4, <2>5
<1>8. y \in Int /\ y > -5 /\ y < 1500
  BY <1>5, <1>6
<1>9. /\ y = 0 => OtherHour(q, t) = NoEvent
      /\ y > 0 => OtherHour(q, t) = [at |-> y, stage |-> 5]
      /\ y < 0 => OtherHour(q, t) = [at |-> y + Wrap, stage |-> 5]
  <2>. HIDE DEF y
  <2>. QED
    BY <1>7, <1>8, ArmIs DEF Wrap
<1>10. OtherHour(q, t) \in [at : Int, stage : Stages]
  <2>. HIDE DEF y
  <2>. QED
    BY <1>8, <1>9 DEF NoEvent, Stages, Wrap
<1>11. Armed(OtherHour(q, t), q, t)
  <2>1. PICK l \in Int : l = left /\ l = Left(q, t)
    BY <1>5, <1>6
  <2>2. CASE y = 0
    <3>1. l \in {0, 5}
      BY <1>5, <1>6, <2>1, <2>2
    <3>. HIDE DEF y, left
    <3>. QED
      BY <1>9, <2>1, <2>2, <3>1 DEF Armed
  <2>3. CASE y > 0
    <3>1. (l > 5 /\ y + 5 = l) \/ (l < 0 /\ y + 5 = l + 1440)
      BY <1>5, <1>6, <2>1, <2>3
    <3>. HIDE DEF y, left
    <3>. QED
      BY <1>9, <2>1, <2>3, <3>1 DEF Armed, Day
  <2>4. CASE y < 0
    <3>1. l \in 1 .. 4
      BY <1>5, <1>6, <2>1, <2>4
    <3>. HIDE DEF y, left
    <3>. QED
      BY <1>9, <2>1, <2>4, <3>1 DEF Armed
  <2>. HIDE DEF y
  <2>. QED
    BY <1>8, <2>2, <2>3, <2>4
<1>. QED
  BY <1>10, <1>11

LEMMA FirstEventArms ==
  ASSUME NEW p \in Times(SaveHours, SaveMinutes), NEW t \in Times(StartHours, StartMinutes)
  PROVE  /\ Reckoned(p) \in [hour : 1 .. 24, minute : 0 .. 59]
         /\ t \in [hour : 0 .. 23, minute : 0 .. 59]
         /\ FirstEvent(p, t) \in [at : Int, stage : Stages]
         /\ Armed(FirstEvent(p, t), Reckoned(p), t)
<1>1. p \in [hour : 0 .. 24, minute : 0 .. 59] /\ t \in [hour : 0 .. 23, minute : 0 .. 59]
  BY SaveScheduleAssumption DEF Times
<1>2. Reckoned(p) \in [hour : 1 .. 24, minute : 0 .. 59]
  BY <1>1 DEF Reckoned
<1>3. FirstEvent(p, t) = IF t.hour = Reckoned(p).hour THEN SameHour(Reckoned(p), t)
                         ELSE OtherHour(Reckoned(p), t)
  BY DEF FirstEvent, Reckoned
<1>. QED
  BY <1>1, <1>2, <1>3, SameHourArms, OtherHourArms

(* The configured time is as far away as is left, or a day further.        *)
LEMMA DistanceLeft ==
  ASSUME NEW p \in [hour : 0 .. 24, minute : 0 .. 59],
         NEW t \in [hour : 0 .. 23, minute : 0 .. 59]
  PROVE  LET left == Left(Reckoned(p), t)
             far == (MinuteOf(p) - MinuteOf(t)) % Day
         IN  /\ left \in Int /\ left < 2 * Day
             /\ left < 0 => far = left + Day
             /\ left >= 0 /\ left < Day => far = left
             /\ left >= Day => /\ far = left - Day
                               /\ p.hour \in {0, 24} /\ t.hour = 0
<1>1. PICK P \in 0 .. 24 : p.hour = P
  OBVIOUS
<1>2. PICK M \in 0 .. 59 : p.minute = M
  OBVIOUS
<1>3. PICK h \in 0 .. 23 : t.hour = h
  OBVIOUS
<1>4. PICK m \in 0 .. 59 : t.minute = m
  OBVIOUS
<1>5. PICK H \in 1 .. 24 : H = IF P = 0 THEN 24 ELSE P
  OBVIOUS
<1>6. Left(Reckoned(p), t) = 60 * (H - h) + M - m
  BY <1>1, <1>2, <1>3, <1>4, <1>5 DEF Left, Reckoned
<1>7. (P * 60 + M) % 1440 = IF H = 24 THEN M ELSE 60 * H + M
  BY <1>5
<1>8. (h * 60 + m) % 1440 = 60 * h + m
  OBVIOUS
<1>9. PICK left \in Int : left = 60 * (H - h) + M - m
  OBVIOUS
<1>10. (MinuteOf(p) - MinuteOf(t)) % Day
         = IF H = 24 THEN (left - 1440) % 1440 ELSE left % 1440
  BY <1>1, <1>2, <1>3, <1>4, <1>7, <1>8, <1>9 DEF MinuteOf, Day
<1>11. left < 1500 /\ left > -1380 /\ (left >= 1440 => H = 24 /\ h = 0) /\ (H = 24 => left > 0)
  BY <1>9
<1>12. /\ left < 0 => left % 1440 = left + 1440
       /\ left >= 0 /\ left < 1440 => left % 1440 = left /\ (left - 1440) % 1440 = left
       /\ left >= 1440 => (left - 1440) % 1440 = left - 1440
  BY <1>11
<1>. QED
  BY <1>1, <1>3, <1>5, <1>6, <1>9, <1>10, <1>11, <1>12 DEF Day

(* What start has armed, seen from the properties.                         *)
LEMMA FirstSaveIs ==
  ASSUME planned \in Times(SaveHours, SaveMinutes), begun \in Times(StartHours, StartMinutes)
  PROVE  LET f == FirstEvent(planned, begun)
         IN  /\ f.stage = 9 => f = NoEvent /\ Distance \in {0, 5}
             /\ f.stage # 9 /\ Distance > 5 =>
                  f.at + Ahead(f.stage)
                    \in {Distance} \cup (IF Midnight THEN {Distance + Day} ELSE {})
             /\ f.at > 2 * Day - 5 => Distance < 5 /\ begun.hour # planned.hour
<1>. DEFINE f == FirstEvent(planned, begun)
            left == Left(Reckoned(planned), begun)
<1>1. f \in [at : Int, stage : Stages] /\ Armed(f, Reckoned(planned), begun)
  BY FirstEventArms
<1>2. planned \in [hour : 0 .. 24, minute : 0 .. 59] /\ begun \in [hour : 0 .. 23, minute : 0 .. 59]
  BY SaveScheduleAssumption DEF Times
<1>3. /\ left \in Int /\ left < 2 * Day
      /\ left < 0 => Distance = left + Day
      /\ left >= 0 /\ left < Day => Distance = left
      /\ left >= Day => Distance = left - Day /\ Midnight
  BY <1>2, DistanceLeft DEF Distance, Midnight
<1>4. Reckoned(planned).hour # begun.hour /\ left < 5 /\ left > 0 => begun.hour # planned.hour
  <2>1. planned.hour = 0 => Reckoned(planned).hour = 24 /\ Reckoned(planned).minute >= 0
    BY <1>2 DEF Reckoned
  <2>2. planned.hour # 0 => Reckoned(planned) = planned
    BY DEF Reckoned
  <2>3. ASSUME planned.hour = 0, begun.hour = 0
        PROVE  left > 1000
    <3>1. PICK M \in 0 .. 59 : Reckoned(planned).minute = M
      BY <1>2, <2>3 DEF Reckoned
    <3>2. PICK m \in 0 .. 59 : begun.minute = m
      BY <1>2
    <3>3. left = 60 * (24 - 0) + M - m
      BY <2>1, <2>3, <3>1, <3>2 DEF Left
    <3>. QED
      BY <3>3
  <2>. HIDE DEF left
  <2>. QED
    BY <1>3, <2>2, <2>3
<1>5. PICK l \in Int : l = left
  BY <1>3
<1>6. PICK d \in Int : d = Distance
  BY <1>3 DEF Day
<1>7. PICK at \in Int : at = f.at
  BY <1>1
<1>8. /\ l < 2880 /\ (l < 0 => d = l + 1440) /\ (l >= 0 /\ l < 1440 => d = l)
      /\ l >= 1440 => d = l - 1440 /\ Midnight
  BY <1>3, <1>5, <1>6 DEF Day
<1>9. \/ f = NoEvent /\ l \in {0, 5}
      \/ f.stage = 5 /\ l > 5 /\ at + 5 = l
      \/ f.stage = 5 /\ l < 0 /\ at + 5 = l + 1440
      \/ f.stage \in {1, 3} /\ at \in {0, 1} /\ l \in 1 .. 4
      \/ f.stage = 5 /\ l \in 1 .. 4 /\ begun.hour # planned.hour
  <2>. HIDE DEF f, left
  <2>1. LET k == l IN
        \/ f = NoEvent /\ k \in {0, 5}
        \/ f.stage = 5 /\ k > 5 /\ f.at + 5 = k
        \/ f.stage = 5 /\ k < 0 /\ f.at + 5 = k + Day
        \/ f.stage \in {1, 3} /\ f.at \in {0, 1} /\ k \in 1 .. 4
        \/ f.stage = 5 /\ k \in 1 .. 4 /\ Reckoned(planned).hour # begun.hour
    BY <1>1, <1>5 DEF Armed, left
  <2>. QED
    BY <1>4, <1>5, <1>7, <2>1 DEF Day
<1>10. f.stage = 9 => f = NoEvent /\ d \in {0, 5}
  <2>. HIDE DEF f
  <2>. QED
    BY <1>8, <1>9
<1>11. f.stage # 9 /\ d > 5 => f.stage = 5 /\ at + 5 \in {d} \cup (IF Midnight THEN {d + 1440} ELSE {})
  <2>. HIDE DEF f
  <2>. QED
    BY <1>8, <1>9 DEF NoEvent
<1>12. at > 2875 => d < 5 /\ begun.hour # planned.hour
  <2>1. f = NoEvent => at = 0
    BY <1>7 DEF NoEvent
  <2>. HIDE DEF f
  <2>. QED
    BY <1>8, <1>9, <2>1
<1>. HIDE DEF f, left
<1>13. f.stage = 9 => f = NoEvent /\ Distance \in {0, 5}
  BY <1>6, <1>10
<1>14. f.stage # 9 /\ Distance > 5 =>
         f.at + Ahead(f.stage) \in {Distance} \cup (IF Midnight THEN {Distance + Day} ELSE {})
  BY <1>6, <1>7, <1>11 DEF Ahead, Day
<1>15. f.at > 2 * Day - 5 => Distance < 5 /\ begun.hour # planned.hour
  BY <1>6, <1>7, <1>12 DEF Day
<1>. QED
  BY <1>13, <1>14, <1>15 DEF f
-----------------------------------------------------------------------------
(* Each stage leads to the same save, and each save to that a day later.   *)
Punctual ==
  LET f == FirstEvent(planned, begun)
  IN  /\ planned \in Times(SaveHours, SaveMinutes) /\ begun \in Times(StartHours, StartMinutes)
      /\ saves \in Nat /\ passed \in Int
      /\ due \in [at : Int, stage : Stages]
      /\ due.stage = 9 => due = f
      /\ f.stage = 9 => due = f /\ saves = 0
      /\ due.at + Ahead(due.stage) = f.at + Ahead(f.stage) + Day * saves
      /\ f.stage # 9 => due.stage # 9

LEMMA PunctualInit == ScheduleInit => Punctual
<1>. SUFFICES ASSUME ScheduleInit PROVE Punctual
  OBVIOUS
<1>1. /\ planned \in Times(SaveHours, SaveMinutes) /\ begun \in Times(StartHours, StartMinutes)
      /\ saves = 0 /\ passed = 0 /\ due = FirstEvent(planned, begun)
  BY DEF ScheduleInit
<1>2. due \in [at : Int, stage : Stages]
  BY <1>1, FirstEventArms
<1>3. due.at + Ahead(due.stage) \in Int
  BY <1>2 DEF Ahead, Stages
<1>4. due.at + Ahead(due.stage) = due.at + Ahead(due.stage) + Day * saves
  BY <1>1, <1>3 DEF Day
<1>. QED
  BY <1>1, <1>2, <1>4 DEF Punctual

LEMMA PunctualStep == Punctual /\ [ScheduleNext]_scheduleVars => Punctual'
<1>. SUFFICES ASSUME Punctual, [ScheduleNext]_scheduleVars
              PROVE  Punctual'
  OBVIOUS
<1>. DEFINE f == FirstEvent(planned, begun)
            first == f.at + Ahead(f.stage)
<1>1. /\ planned \in Times(SaveHours, SaveMinutes) /\ begun \in Times(StartHours, StartMinutes)
      /\ saves \in Nat /\ passed \in Int /\ due \in [at : Int, stage : Stages]
      /\ due.at \in Int /\ due.stage \in Stages
      /\ f.stage = 9 => due.stage = 9
      /\ due.at + Ahead(due.stage) = first + Day * saves
  BY DEF Punctual
<1>2. first \in Int
  BY <1>1, FirstEventArms DEF Ahead, Stages
<1>3. ASSUME planned' = planned, begun' = begun, saves' \in Nat, passed' \in Int,
             due' \in [at : Int, stage : Stages \ {9}], f.stage # 9,
             due'.at + Ahead(due'.stage) = first + Day * saves'
      PROVE  Punctual'
  BY <1>1, <1>3 DEF Punctual
<1>. HIDE DEF f, first
<1>4. CASE Announce
  <2>1. /\ due.stage \in {5, 3, 1} /\ passed' = due.at /\ due' = After(NextStage(due.stage))
        /\ planned' = planned /\ begun' = begun /\ saves' = saves
    BY <1>4 DEF Announce
  <2>3. /\ due.stage = 5 => due' = [at |-> due.at + 2, stage |-> 3]
        /\ due.stage = 3 => due' = [at |-> due.at + 2, stage |-> 1]
        /\ due.stage = 1 => due' = [at |-> due.at + 1, stage |-> 0]
    BY <1>1, <2>1 DEF NextStage, After
  <2>4. due' \in [at : Int, stage : Stages \ {9}]
        /\ due'.at + Ahead(due'.stage) = due.at + Ahead(due.stage)
    BY <1>1, <2>1, <2>3 DEF Stages, Ahead
  <2>5. f.stage # 9
    BY <1>1, <2>1
  <2>. QED
    BY <1>1, <1>3, <2>1, <2>4, <2>5
<1>5. CASE SaveNow
  <2>1. /\ due.stage = 0 /\ passed' = due.at /\ saves' = saves + 1
        /\ due' = After([at |-> UntilNext, stage |-> 5])
        /\ planned' = planned /\ begun' = begun
    BY <1>5 DEF SaveNow
  <2>2. due' = [at |-> due.at + 1435, stage |-> 5]
    BY <1>1, <2>1 DEF After, UntilNext, Day
  <2>3. due' \in [at : Int, stage : Stages \ {9}]
        /\ due'.at + Ahead(due'.stage) = first + Day * saves'
    BY <1>1, <1>2, <2>1, <2>2 DEF Stages, Ahead, Day
  <2>4. f.stage # 9
    BY <1>1, <2>1
  <2>. QED
    BY <1>1, <1>3, <2>1, <2>3, <2>4
<1>6. CASE UNCHANGED scheduleVars
  BY <1>6 DEF scheduleVars, Punctual
<1>. QED
  BY <1>4, <1>5, <1>6 DEF ScheduleNext

(* Whatever hour and minute are configured and whenever the server is      *)
(* started: the save is made on time, forgotten only by a start in the     *)
(* minute of the save or of its first announcement, and put off by a wrap  *)
(* only by a start in the last minutes of the hour before.                 *)
THEOREM PlansAlwaysKept == ScheduleSpec => []PlansKept
<1>1. ASSUME Punctual PROVE PlansKept
  <2>. DEFINE f == FirstEvent(planned, begun)
              first == f.at + Ahead(f.stage)
  <2>1. /\ saves \in Nat /\ passed \in Int /\ due.at \in Int /\ due.stage \in Stages
        /\ due.stage = 9 => due = f
        /\ f.stage = 9 => saves = 0
        /\ due.at + Ahead(due.stage) = first + Day * saves
    BY <1>1 DEF Punctual
  <2>2. /\ f.stage = 9 => f = NoEvent /\ Distance \in {0, 5}
        /\ f.stage # 9 /\ Distance > 5 =>
             first \in {Distance} \cup (IF Midnight THEN {Distance + Day} ELSE {})
        /\ f.at > 2 * Day - 5 => Distance < 5 /\ begun.hour # planned.hour
    BY <1>1, FirstSaveIs DEF Punctual
  <2>3. first \in Int /\ f.at \in Int /\ Ahead(f.stage) \in 0 .. 5
    BY <1>1, FirstEventArms DEF Punctual, Ahead, Stages
  <2>. HIDE DEF f, first
  <2>4. SavesOnTime
    <3>1. ASSUME Distance > 5, JustSaved
          PROVE  passed - Day * (saves - 1) = first /\ f.stage # 9
      BY <2>1, <2>3, <3>1 DEF JustSaved, UntilNext, Day, Ahead
    <3>. QED
      BY <2>2, <3>1 DEF SavesOnTime
  <2>5. NeverForgotten
    BY <2>1, <2>2 DEF NeverForgotten, NoEvent
  <2>6. WrapsOnlyNearby
    <3>1. ASSUME saves = 0, due.at > 2 * Day
          PROVE  f.at > 2 * Day - 5
      <4>1. first = f.at + Ahead(f.stage)
        BY DEF first
      <4>2. Ahead(due.stage) \in 0 .. 5
        BY <2>1 DEF Ahead, Stages
      <4>. QED
        BY <2>1, <2>3, <3>1, <4>1, <4>2 DEF Day
    <3>. QED
      BY <2>2, <3>1 DEF WrapsOnlyNearby
  <2>. QED
    BY <2>4, <2>5, <2>6 DEF PlansKept
<1>. QED
  BY <1>1, PunctualInit, PunctualStep, PTL DEF ScheduleSpec

-----------------------------------------------------------------------------
(* RuleViolations.                                                         *)

(* A client that is gone shows nothing.                                    *)
ClosedWithoutClient == \A g \in Players : desks[g].open => desks[g].linked

(* A report goes with the one who made it.                                 *)
ReportersInGame == \A p \in Players : reports[p] # NoReport => desks[p].online

(* The inductive invariant. *)
Filed == ReportTypeOK /\ ListsAreExact /\ ReportersInGame /\ ClosedWithoutClient

(* A step leaves a report to a gamemaster who is gone only if he had lost  *)
(* the right to answer.                                                    *)
StaleOnlyByDemotion ==
  \A p \in Players :
    reports'[p] = StaleReport =>
      \/ reports[p] = StaleReport
      \/ reports[p] \in Players /\ ~desks[reports[p]].mayAnswer

Desk == [online : BOOLEAN, linked : BOOLEAN, mayAnswer : BOOLEAN,
         open : BOOLEAN, list : SUBSET Players]
-----------------------------------------------------------------------------
LEMMA MarksApart ==
  /\ \A p \in Players : p # NoReport /\ p # OpenReport /\ p # StaleReport
  /\ NoReport # OpenReport /\ NoReport # StaleReport /\ OpenReport # StaleReport
BY GamemastersAssumption DEF NoReport, OpenReport, StaleReport

LEMMA FiledInit == ReportInit => Filed
<1>. SUFFICES ASSUME ReportInit PROVE Filed
  OBVIOUS
<1>1. \A p \in Players : desks[p] = [online |-> FALSE, linked |-> FALSE, mayAnswer |-> FALSE,
                                     open |-> FALSE, list |-> {}]
  BY DEF ReportInit, NoDesk
<1>2. \A p \in Players : reports[p] = NoReport
  BY DEF ReportInit
<1>3. ReportTypeOK
  BY DEF ReportInit, ReportTypeOK, NoDesk
<1>4. ListsAreExact /\ ReportersInGame /\ ClosedWithoutClient
  BY <1>1, <1>2 DEF ListsAreExact, Reading, ReportersInGame, ClosedWithoutClient
<1>. QED
  BY <1>3, <1>4 DEF Filed
-----------------------------------------------------------------------------
(* What the messages to the users of the channel do to their lists.        *)
LEMMA Listed ==
  ASSUME ReportTypeOK, NEW p \in Players, NEW g \in Players
  PROVE  /\ WithListed(p) \in [Players -> Desk]
         /\ WithListed(p)[g].online = desks[g].online
         /\ WithListed(p)[g].linked = desks[g].linked
         /\ WithListed(p)[g].mayAnswer = desks[g].mayAnswer
         /\ WithListed(p)[g].open = desks[g].open
         /\ Reading(g) => WithListed(p)[g].list = desks[g].list \cup {p}
<1>1. \A h \in Players : [desks[h] EXCEPT !.list = @ \cup {p}] \in Desk
  BY DEF ReportTypeOK, Desk
<1>. QED
  BY <1>1 DEF ReportTypeOK, WithListed, Desk

LEMMA Unlisted ==
  ASSUME ReportTypeOK, NEW R \in SUBSET Players, NEW g \in Players
  PROVE  /\ WithUnlisted(R) \in [Players -> Desk]
         /\ WithUnlisted(R)[g].online = desks[g].online
         /\ WithUnlisted(R)[g].linked = desks[g].linked
         /\ WithUnlisted(R)[g].mayAnswer = desks[g].mayAnswer
         /\ WithUnlisted(R)[g].open = desks[g].open
         /\ Reading(g) => WithUnlisted(R)[g].list = desks[g].list \ R
<1>1. \A h \in Players : [desks[h] EXCEPT !.list = @ \ R] \in Desk
  BY DEF ReportTypeOK, Desk
<1>. QED
  BY <1>1 DEF ReportTypeOK, WithUnlisted, Desk

(* Removing the reports R, or taking one of them, while their lines leave  *)
(* every list, keeps the lists exact; so does adding one with its line.    *)
LEMMA ExactAfterRemoval ==
  ASSUME Filed, NEW R \in SUBSET Players, answerers' = answerers,
         desks' = WithUnlisted(R),
         \A p \in R : reports'[p] # OpenReport,
         \A p \in Players \ R : reports'[p] = OpenReport <=> reports[p] = OpenReport
  PROVE  ListsAreExact'
<1>1. \A g \in Players :
        /\ desks'[g].online = desks[g].online
        /\ Reading(g)' <=> Reading(g)
        /\ Reading(g) => desks'[g].list = desks[g].list \ R
  BY Unlisted DEF Filed, Reading
<1>. QED
  BY <1>1 DEF Filed, ListsAreExact

LEMMA ExactAfterReport ==
  ASSUME Filed, NEW p \in Players, desks[p].online, answerers' = answerers,
         desks' = WithListed(p), reports' = [reports EXCEPT ![p] = OpenReport]
  PROVE  ListsAreExact'
<1>1. \A g \in Players :
        /\ desks'[g].online = desks[g].online
        /\ Reading(g)' <=> Reading(g)
        /\ Reading(g) => desks'[g].list = desks[g].list \cup {p}
  BY Listed DEF Filed, Reading
<1>2. \A q \in Players : reports'[q] = IF q = p THEN OpenReport ELSE reports[q]
  BY DEF Filed, ReportTypeOK
<1>. QED
  BY <1>1, <1>2 DEF Filed, ListsAreExact

(* A desk is opened, closed, left without a client or taken up while the   *)
(* reports stay as they are.                                               *)
LEMMA ExactAtOneDesk ==
  ASSUME Filed, NEW g \in Players, reports' = reports,
         \A h \in Players \ {g} : desks'[h] = desks[h] /\ (h \in answerers' <=> h \in answerers),
         desks[g].online => desks'[g].online,
         Reading(g)' => \/ Reading(g) /\ desks'[g].list = desks[g].list
                        \/ desks'[g].list = {p \in Players : reports[p] = OpenReport}
  PROVE  ListsAreExact'
<1>1. \A h \in Players : desks'[h].online \/ reports[h] = NoReport
  BY DEF Filed, ReportersInGame
<1>2. \A h \in Players : reports[h] = OpenReport => desks[h].online /\ desks'[h].online
  BY <1>1, MarksApart DEF Filed, ReportersInGame
<1>3. ASSUME NEW h \in Players, Reading(h)'
      PROVE  desks'[h].list = {p \in Players : reports[p] = OpenReport}
  BY <1>2, <1>3 DEF Filed, ListsAreExact, Reading
<1>. QED
  BY <1>2, <1>3 DEF ListsAreExact

(* What a client shows of the channel changes, or whether there is one.    *)
LEMMA DeskShown ==
  ASSUME NEW D \in [Players -> Desk], NEW g \in Players,
         NEW b \in BOOLEAN, NEW L \in SUBSET Players
  PROVE  LET E == [D EXCEPT ![g].open = b, ![g].list = L]
         IN  /\ E \in [Players -> Desk]
             /\ E[g].online = D[g].online /\ E[g].open = b
             /\ \A h \in Players \ {g} : E[h] = D[h]
<1>. DEFINE F == [D EXCEPT ![g].open = b]
            E == [F EXCEPT ![g].list = L]
<1>1. /\ F \in [Players -> Desk] /\ F[g].online = D[g].online /\ F[g].open = b
      /\ \A h \in Players \ {g} : F[h] = D[h]
  BY DEF Desk
<1>2. /\ E \in [Players -> Desk] /\ E[g].online = F[g].online /\ E[g].open = F[g].open
      /\ \A h \in Players \ {g} : E[h] = F[h]
  <2>. HIDE DEF F
  <2>. QED
    BY <1>1 DEF Desk
<1>3. E = [D EXCEPT ![g].open = b, ![g].list = L]
  OBVIOUS
<1>. HIDE DEF E, F
<1>. QED
  BY <1>1, <1>2, <1>3

LEMMA DeskHidden ==
  ASSUME NEW D \in [Players -> Desk], NEW g \in Players
  PROVE  LET E == [D EXCEPT ![g].open = FALSE, ![g].list = {}]
         IN  /\ E \in [Players -> Desk]
             /\ E[g].online = D[g].online /\ ~E[g].open
             /\ \A h \in Players \ {g} : E[h] = D[h]
<1>1. PICK b \in BOOLEAN : b = FALSE
  OBVIOUS
<1>2. PICK L \in SUBSET Players : L = {}
  OBVIOUS
<1>. DEFINE E == [D EXCEPT ![g].open = b, ![g].list = L]
<1>3. /\ E \in [Players -> Desk]
      /\ E[g].online = D[g].online /\ E[g].open = b
      /\ \A h \in Players \ {g} : E[h] = D[h]
  <2>1. E \in [Players -> Desk]
    BY DeskShown
  <2>2. E[g].online = D[g].online
    BY DeskShown
  <2>3. E[g].open = b
    BY DeskShown
  <2>4. \A h \in Players \ {g} : E[h] = D[h]
    BY DeskShown
  <2>. QED
    BY <2>1, <2>2, <2>3, <2>4
<1>4. E = [D EXCEPT ![g].open = FALSE, ![g].list = {}]
  BY <1>1, <1>2
<1>. HIDE DEF E
<1>. QED
  BY <1>1, <1>3, <1>4

LEMMA DeskUnlinked ==
  ASSUME NEW D \in [Players -> Desk], NEW g \in Players
  PROVE  LET E == [D EXCEPT ![g].linked = FALSE]
         IN  /\ E \in [Players -> Desk] /\ E[g].online = D[g].online
             /\ \A h \in Players \ {g} : E[h] = D[h]
<1>1. PICK b \in BOOLEAN : b = FALSE
  OBVIOUS
<1>. DEFINE E == [D EXCEPT ![g].linked = b]
<1>2. /\ E \in [Players -> Desk] /\ E[g].online = D[g].online
      /\ \A h \in Players \ {g} : E[h] = D[h]
  BY DEF Desk
<1>3. E = [D EXCEPT ![g].linked = FALSE]
  BY <1>1
<1>. HIDE DEF E
<1>. QED
  BY <1>2, <1>3
-----------------------------------------------------------------------------
(* The types, ReportersInGame and the rest follow from what a step does to *)
(* the fields of each desk.                                                *)
LEMMA FiledStep ==
  ASSUME Filed, [ReportNext]_reportVars
  PROVE  Filed' /\ StaleOnlyByDemotion
<1>. USE MarksApart
<1>. DEFINE Goal == Filed' /\ StaleOnlyByDemotion
<1>a. /\ reports \in [Players -> {NoReport, OpenReport, StaleReport} \cup Players]
      /\ desks \in [Players -> Desk] /\ answerers \subseteq Players
      /\ reportLost \in BOOLEAN
  BY DEF Filed, ReportTypeOK, Desk
<1>b. ASSUME reports' \in [Players -> {NoReport, OpenReport, StaleReport} \cup Players],
             desks' \in [Players -> Desk], answerers' \subseteq Players,
             reportLost' \in BOOLEAN
      PROVE  ReportTypeOK'
  BY <1>b DEF ReportTypeOK, Desk
<1>1. ASSUME NEW p \in Players, Report(p)
      PROVE  Goal
  <2>1. /\ desks[p].online /\ reports' = [reports EXCEPT ![p] = OpenReport]
        /\ desks' = WithListed(p) /\ answerers' = answerers
        /\ reportLost' \in BOOLEAN
    BY <1>1 DEF Report, UsesStale
  <2>2. ReportTypeOK'
    BY <1>a, <1>b, <2>1, Listed DEF Filed
  <2>3. ListsAreExact'
    BY <2>1, ExactAfterReport
  <2>4. \A g \in Players : /\ desks'[g].online = desks[g].online
                           /\ desks'[g].linked = desks[g].linked
                           /\ desks'[g].open = desks[g].open
    BY <2>1, Listed DEF Filed
  <2>5. \A q \in Players : reports'[q] = IF q = p THEN OpenReport ELSE reports[q]
    BY <1>a, <2>1
  <2>6. ReportersInGame' /\ ClosedWithoutClient'
    BY <2>1, <2>4, <2>5 DEF Filed, ReportersInGame, ClosedWithoutClient
  <2>. QED
    BY <2>2, <2>3, <2>5, <2>6 DEF Filed, StaleOnlyByDemotion
<1>2. ASSUME NEW p \in Players, CloseReport(p) \/ CancelReport(p)
      PROVE  Goal
  <2>1. /\ reports' = [reports EXCEPT ![p] = NoReport]
        /\ answerers' = answerers /\ reportLost' \in BOOLEAN
        /\ desks' = WithUnlisted({p}) \/ (desks' = desks /\ reports[p] # OpenReport)
    BY <1>2, <1>a DEF CloseReport, CancelReport, WithCancelled, UsesStale
  <2>2. ReportTypeOK'
    BY <1>a, <1>b, <2>1, Unlisted DEF Filed
  <2>3. \A q \in Players : reports'[q] = IF q = p THEN NoReport ELSE reports[q]
    BY <1>a, <2>1
  <2>4. ListsAreExact'
    <3>1. CASE desks' = WithUnlisted({p})
      BY <2>1, <2>3, <3>1, ExactAfterRemoval
    <3>2. CASE desks' = desks /\ reports[p] # OpenReport
      BY <2>1, <2>3, <3>2 DEF Filed, ListsAreExact, Reading
    <3>. QED
      BY <2>1, <3>1, <3>2
  <2>5. \A g \in Players : /\ desks'[g].online = desks[g].online
                           /\ desks'[g].linked = desks[g].linked
                           /\ desks'[g].open = desks[g].open
    BY <2>1, Unlisted DEF Filed
  <2>6. ReportersInGame' /\ ClosedWithoutClient'
    BY <2>3, <2>5 DEF Filed, ReportersInGame, ClosedWithoutClient
  <2>. QED
    BY <2>2, <2>3, <2>4, <2>6 DEF Filed, StaleOnlyByDemotion
<1>3. ASSUME NEW g \in Players, NEW p \in Players, Process(g, p)
      PROVE  Goal
  <2>1. /\ reports' = [reports EXCEPT ![p] = g] /\ reports[p] = OpenReport
        /\ desks' = WithUnlisted({p}) /\ answerers' = answerers /\ reportLost' = reportLost
    BY <1>3 DEF Process
  <2>2. ReportTypeOK'
    BY <1>a, <1>b, <2>1, Unlisted DEF Filed
  <2>3. \A q \in Players : reports'[q] = IF q = p THEN g ELSE reports[q]
    BY <1>a, <2>1
  <2>4. ListsAreExact'
    BY <2>1, <2>3, ExactAfterRemoval
  <2>5. \A h \in Players : /\ desks'[h].online = desks[h].online
                           /\ desks'[h].linked = desks[h].linked
                           /\ desks'[h].open = desks[h].open
    BY <2>1, Unlisted DEF Filed
  <2>6. ReportersInGame'
    <3>1. \A q \in Players : reports'[q] # NoReport => reports[q] # NoReport
      BY <2>1, <2>3, MarksApart
    <3>. QED
      BY <2>5, <3>1 DEF Filed, ReportersInGame
  <2>7. ClosedWithoutClient'
    BY <2>5 DEF Filed, ClosedWithoutClient
  <2>. QED
    BY <2>2, <2>3, <2>4, <2>6, <2>7 DEF Filed, StaleOnlyByDemotion
<1>4. ASSUME NEW g \in Players, OpenDesk(g)
      PROVE  Goal
  <2>. DEFINE L == {p \in Players : reports[p] = OpenReport}
  <2>1. /\ g \notin answerers /\ answerers' = answerers \cup {g}
        /\ reports' = reports /\ reportLost' = reportLost
        /\ \/ desks[g].linked /\ desks' = [desks EXCEPT ![g].open = TRUE, ![g].list = L]
           \/ ~desks[g].linked /\ desks' = desks
    BY <1>4 DEF OpenDesk
  <2>2. L \in SUBSET Players
    OBVIOUS
  <2>. HIDE DEF L
  <2>3. \A h \in Players \ {g} : desks'[h] = desks[h]
    BY <1>a, <2>1
  <2>4. /\ desks'[g].online = desks[g].online /\ desks'[g].linked = desks[g].linked
        /\ desks'[g].open => desks[g].linked /\ (desks[g].linked => desks'[g].list = L)
    BY <1>a, <2>1 DEF Desk, Filed, ClosedWithoutClient
  <2>5. desks' \in [Players -> Desk]
    <3>1. CASE desks[g].linked /\ desks' = [desks EXCEPT ![g].open = TRUE, ![g].list = L]
      <4>1. TRUE \in BOOLEAN
        OBVIOUS
      <4>2. [desks EXCEPT ![g].open = TRUE, ![g].list = L] \in [Players -> Desk]
        BY <1>a, <2>2, <4>1, DeskShown
      <4>. QED
        BY <3>1, <4>2
    <3>. QED
      BY <1>a, <2>1, <3>1
  <2>6. ReportTypeOK'
    BY <1>a, <1>b, <2>1, <2>5
  <2>7. Reading(g)' => desks'[g].list = L
    BY <2>4 DEF Reading
  <2>8. ListsAreExact'
    BY <2>1, <2>3, <2>4, <2>7, ExactAtOneDesk DEF L
  <2>9. ReportersInGame' /\ ClosedWithoutClient'
    BY <2>1, <2>3, <2>4 DEF Filed, ReportersInGame, ClosedWithoutClient
  <2>. QED
    BY <2>1, <2>6, <2>8, <2>9 DEF Filed, StaleOnlyByDemotion
<1>5. ASSUME NEW g \in Players,
             CloseDesk(g) \/ TakeDesk(g) \/ ComeToDesk(g) \/ DeskGone(g) \/ Regroup(g)
      PROVE  Goal
  <2>1. /\ reports' = reports /\ reportLost' = reportLost
        /\ answerers' = answerers \/ answerers' = answerers \ {g}
    BY <1>5 DEF CloseDesk, TakeDesk, ComeToDesk, DeskGone, Regroup
  <2>2. \/ desks' = [desks EXCEPT ![g].open = FALSE, ![g].list = {}]
        \/ /\ ~desks[g].linked
           /\ \E b \in BOOLEAN :
                desks' = [desks EXCEPT ![g].online = TRUE, ![g].linked = TRUE,
                                       ![g].mayAnswer = b]
        \/ desks' = [desks EXCEPT ![g].linked = FALSE, ![g].open = FALSE, ![g].list = {}]
        \/ desks' = [desks EXCEPT ![g].mayAnswer = ~@]
    <3>1. CASE ComeToDesk(g)
      <4>1. desks[g].mayAnswer \in BOOLEAN /\ (g \in Gamemasters) \in BOOLEAN
        BY <1>a DEF Desk
      <4>2. CASE desks[g].online
        BY <3>1, <4>1, <4>2 DEF ComeToDesk
      <4>3. CASE ~desks[g].online
        BY <3>1, <4>1, <4>3 DEF ComeToDesk
      <4>. QED
        BY <4>2, <4>3
    <3>. QED
      BY <1>5, <3>1 DEF CloseDesk, TakeDesk, DeskGone, Regroup
  <2>. DEFINE OneDesk ==
         /\ \A h \in Players \ {g} : desks'[h] = desks[h]
         /\ desks'[g] \in Desk
         /\ desks[g].online => desks'[g].online
         /\ desks'[g].open => desks[g].open /\ desks'[g].linked = desks[g].linked
                              /\ desks'[g].list = desks[g].list
  <2>3. OneDesk
    <3>1. CASE desks' = [desks EXCEPT ![g].open = FALSE, ![g].list = {}]
      <4>1. desks' \in [Players -> Desk]
        BY <1>a, <3>1, DeskHidden
      <4>2. desks'[g].online = desks[g].online
        BY <1>a, <3>1, DeskHidden
      <4>3. ~desks'[g].open
        BY <1>a, <3>1, DeskHidden
      <4>4. \A h \in Players \ {g} : desks'[h] = desks[h]
        BY <1>a, <3>1, DeskHidden
      <4>. QED
        BY <4>1, <4>2, <4>3, <4>4
    <3>2. ASSUME ~desks[g].linked, NEW b \in BOOLEAN,
                 desks' = [desks EXCEPT ![g].online = TRUE, ![g].linked = TRUE,
                                        ![g].mayAnswer = b]
          PROVE  OneDesk
      BY <1>a, <3>2 DEF Desk, Filed, ClosedWithoutClient
    <3>3. CASE desks' = [desks EXCEPT ![g].linked = FALSE, ![g].open = FALSE, ![g].list = {}]
      <4>. DEFINE E == [desks EXCEPT ![g].linked = FALSE]
      <4>1. /\ E \in [Players -> Desk] /\ E[g].online = desks[g].online
            /\ \A h \in Players \ {g} : E[h] = desks[h]
        BY <1>a, DeskUnlinked
      <4>2. desks' = [E EXCEPT ![g].open = FALSE, ![g].list = {}]
        BY <3>3
      <4>. HIDE DEF E
      <4>3. desks' \in [Players -> Desk]
        BY <4>1, <4>2, DeskHidden
      <4>4. desks'[g].online = E[g].online
        BY <4>1, <4>2, DeskHidden
      <4>5. ~desks'[g].open
        BY <4>1, <4>2, DeskHidden
      <4>6. \A h \in Players \ {g} : desks'[h] = E[h]
        BY <4>1, <4>2, DeskHidden
      <4>. QED
        BY <4>1, <4>3, <4>4, <4>5, <4>6
    <3>4. CASE desks' = [desks EXCEPT ![g].mayAnswer = ~@]
      BY <1>a, <3>4 DEF Desk
    <3>. QED
      BY <2>2, <3>1, <3>2, <3>3, <3>4
  <2>4. desks' \in [Players -> Desk]
    BY <1>a, <2>2, <2>3
  <2>5. ReportTypeOK'
    BY <1>a, <1>b, <2>1, <2>4
  <2>6. Reading(g)' => Reading(g) /\ desks'[g].list = desks[g].list
    BY <2>1, <2>3 DEF Reading
  <2>7. ListsAreExact'
    BY <2>1, <2>3, <2>6, ExactAtOneDesk
  <2>8. ReportersInGame' /\ ClosedWithoutClient'
    BY <2>1, <2>3 DEF Filed, ReportersInGame, ClosedWithoutClient
  <2>. QED
    BY <2>1, <2>5, <2>7, <2>8 DEF Filed, StaleOnlyByDemotion
<1>6. ASSUME NEW g \in Players, LeaveDesk(g)
      PROVE  Goal
  <2>. DEFINE R == Orphans(g)
              D == WithUnlisted(R)
  <2>1. /\ reports' = [p \in Players |-> IF p \in R THEN NoReport
                         ELSE IF reports[p] = g THEN StaleReport ELSE reports[p]]
        /\ answerers' = answerers \ {g} /\ desks' = [D EXCEPT ![g] = NoDesk]
        /\ reportLost' \in BOOLEAN
    BY <1>6 DEF LeaveDesk, UsesStale
  <2>2. /\ R \in SUBSET Players /\ g \in R
        /\ \A p \in R \ {g} : reports[p] = g
        /\ \A p \in Players \ R : reports[p] = g => ~desks[g].mayAnswer
    BY DEF Orphans
  <2>. HIDE DEF R
  <2>3. /\ D \in [Players -> Desk]
        /\ \A h \in Players : /\ D[h].online = desks[h].online
                              /\ D[h].linked = desks[h].linked
                              /\ D[h].open = desks[h].open
                              /\ Reading(h) => D[h].list = desks[h].list \ R
    BY <2>2, Unlisted DEF Filed
  <2>. HIDE DEF D
  <2>4. NoDesk \in Desk /\ ~NoDesk.open
    BY DEF NoDesk, Desk
  <2>5. desks'[g] = NoDesk /\ \A h \in Players \ {g} : desks'[h] = D[h]
    BY <2>1, <2>3
  <2>6. \A p \in Players : reports'[p] = IF p \in R THEN NoReport
                             ELSE IF reports[p] = g THEN StaleReport ELSE reports[p]
    BY <2>1
  <2>7. ReportTypeOK'
    BY <1>a, <1>b, <2>1, <2>3, <2>4
  <2>8. ListsAreExact'
    <3>1. ASSUME NEW h \in Players, Reading(h)'
          PROVE  h # g /\ Reading(h) /\ desks'[h].list = desks[h].list \ R
      BY <2>1, <2>3, <2>5, <3>1 DEF Reading
    <3>2. \A p \in Players : reports'[p] = OpenReport <=> p \notin R /\ reports[p] = OpenReport
      BY <2>6
    <3>3. \A p \in Players \ {g} : desks'[p].online = desks[p].online
      BY <2>3, <2>5
    <3>. QED
      BY <2>2, <3>1, <3>2, <3>3 DEF Filed, ListsAreExact
  <2>9. ReportersInGame' /\ ClosedWithoutClient'
    BY <2>2, <2>3, <2>4, <2>5, <2>6 DEF Filed, ReportersInGame, ClosedWithoutClient
  <2>10. StaleOnlyByDemotion
    BY <2>2, <2>6 DEF StaleOnlyByDemotion
  <2>. QED
    BY <2>7, <2>8, <2>9, <2>10 DEF Filed
<1>7. CASE ReloadDesks
  BY <1>7 DEF ReloadDesks, Filed, ReportTypeOK, ListsAreExact, Reading, ReportersInGame,
              ClosedWithoutClient, StaleOnlyByDemotion
<1>8. CASE UNCHANGED reportVars
  BY <1>8 DEF reportVars, Filed, ReportTypeOK, ListsAreExact, Reading, ReportersInGame,
              ClosedWithoutClient, StaleOnlyByDemotion
<1>. QED
  BY <1>1, <1>2, <1>3, <1>4, <1>5, <1>6, <1>7, <1>8 DEF ReportNext
-----------------------------------------------------------------------------
(* Whoever reports, takes, closes and cancels reports, leaves, comes back, *)
(* loses the right to answer or finds the channel reloaded: every open     *)
(* list holds exactly the open reports, reports go with their reporters,   *)
(* and only a demoted gamemaster leaves one that points to him.            *)
THEOREM ReportsAlwaysKept == ReportSpec => ReportsKept
<1>1. Filed => ReportTypeOK /\ ListsAreExact
  BY DEF Filed
<1>2. Filed /\ [ReportNext]_reportVars => Filed'
  BY FiledStep
<1>3. Filed /\ [ReportNext]_reportVars =>
        [\A p \in Players :
           /\ reports'[p] # NoReport => desks'[p].online
           /\ reports'[p] = StaleReport =>
                \/ reports[p] = StaleReport
                \/ reports[p] \in Players /\ ~desks[reports[p]].mayAnswer]_reportVars
  BY FiledStep DEF Filed, ReportersInGame, StaleOnlyByDemotion
<1>. QED
  BY <1>1, <1>2, <1>3, FiledInit, PTL DEF ReportSpec, ReportsKept, NoOrphans
-----------------------------------------------------------------------------
(* Raids.                                                                  *)

RaidObject ==
  [alive : BOOLEAN, refCount : Nat, lost : Nat, eventCount : 0 .. LastEvent, nextEvent : BOOLEAN]
AllRaidEvents == {RaidEvent(r) : r \in Raids} \cup {CheckEvent(i) : i \in CheckIds}

RaidsTyped ==
  /\ raids \in [Raids -> RaidObject]
  /\ running \in Raids \cup {NoRaid}
  /\ raidReloads \in 0 .. MaxRaidReloads
  /\ checkRaidsEvent \in CheckIds \cup {0}
  /\ raidEvents \subseteq AllRaidEvents
  /\ raidTasks \in Seq(AllRaidEvents)
  /\ holds \in [Spawned -> Raids \cup {NoRaid}]

(* Neither a raid nor what refers to one is younger than the last reload. *)
Aged ==
  /\ \A r \in Raids : raids[r].alive => r.made <= raidReloads
  /\ \A s \in Spawned : holds[s] # NoRaid => holds[s].made <= raidReloads

(* The event of a raid is in the scheduler, or in the dispatcher's queue.  *)
Pends(r) == RaidEvent(r) \in raidEvents
Passed(r) == RaidEvent(r) \in ToSet(raidTasks)
OnceIn(t) == \A m, n \in DOMAIN t : t[m] = t[n] /\ t[m].raid # NoRaid => m = n

(* As long as no reload has hit a raid that was referred to: only the      *)
(* running raid has an event, once; nextEvent says whether it has one; and *)
(* without one it waits for its monsters.                                  *)
Course(r) ==
  /\ Pends(r) \/ Passed(r) => r = running
  /\ ~(Pends(r) /\ Passed(r))
  /\ raids[r].alive /\ raids[r].nextEvent => Pends(r) \/ Passed(r)
  /\ raids[r].alive /\ (Pends(r) \/ Passed(r)) => raids[r].nextEvent
  /\ r = running => /\ raids[r].alive
                    /\ Pends(r) \/ Passed(r) \/ (r.type = "block" /\ raids[r].refCount > 0)
  /\ raids[r].alive /\ running # r /\ raids[r].refCount = 0 => raids[r].eventCount = 0

Orderly ==
  /\ ~misused /\ OnceIn(raidTasks)
  /\ \A s \in Spawned : holds[s] # NoRaid => raids[holds[s]].alive
  /\ \A r \in Raids : Course(r)

(* The inductive invariant. *)
Hunted ==
  RaidsTyped /\ Aged /\ RefsCountSpawned /\ CheckComes /\ (~heldAtReload => Orderly)

World == [raids : [Raids -> RaidObject], running : Raids \cup {NoRaid},
          events : SUBSET AllRaidEvents]

LEMMA RaidEventIs ==
  /\ \A r \in Raids : r # NoRaid /\ RaidEvent(r) \in AllRaidEvents /\ RaidEvent(r).raid = r
  /\ \A i \in CheckIds : CheckEvent(i) \in AllRaidEvents /\ CheckEvent(i).raid = NoRaid
  /\ \A e \in AllRaidEvents :
       \/ e.raid = NoRaid /\ \A r \in Raids : e # RaidEvent(r)
       \/ e.raid \in Raids /\ e = RaidEvent(e.raid)
<1>1. \A r \in Raids : r # NoRaid
  BY RaidsAssumption DEF Raids
<1>. QED
  BY <1>1 DEF AllRaidEvents, RaidEvent, CheckEvent

LEMMA LairIs == RaidsTyped => Lair \in World
BY DEF RaidsTyped, Lair, World

(* What addEvent leaves of a raid. *)
Added(w, r, v) ==
  /\ v \in World /\ v.running = w.running /\ v.events = w.events \cup {RaidEvent(r)}
  /\ v.raids[r].alive = w.raids[r].alive /\ v.raids[r].refCount = w.raids[r].refCount
  /\ v.raids[r].lost = w.raids[r].lost /\ v.raids[r].nextEvent = TRUE
  /\ \A q \in Raids \ {r} : v.raids[q] = w.raids[q]

LEMMA AddNextIs ==
  ASSUME NEW w \in World, NEW r \in Raids, HasNext(w, r), NEW v, v = AddNext(w, r)
  PROVE  Added(w, r, v)
<1>1. w.raids[r] \in RaidObject /\ w.raids[r].eventCount + 1 \in 0 .. LastEvent
  BY RaidsAssumption DEF World, RaidObject, HasNext
<1>2. PICK x : x = [w.raids[r] EXCEPT !.eventCount = @ + 1, !.nextEvent = TRUE]
  OBVIOUS
<1>3. /\ x \in RaidObject /\ x.alive = w.raids[r].alive /\ x.refCount = w.raids[r].refCount
      /\ x.lost = w.raids[r].lost /\ x.nextEvent = TRUE
  BY <1>1, <1>2 DEF RaidObject
<1>4. v.raids = [w.raids EXCEPT ![r] = x]
  BY <1>2 DEF AddNext, World
<1>5. v.running = w.running /\ v.events = w.events \cup {RaidEvent(r)}
  BY DEF AddNext, World
<1>6. v = [raids |-> v.raids, running |-> v.running, events |-> v.events]
  BY DEF AddNext, World
<1>7. v.raids \in [Raids -> RaidObject] /\ v.raids[r] = x
      /\ \A q \in Raids \ {r} : v.raids[q] = w.raids[q]
  BY <1>3, <1>4 DEF World
<1>8. v.events \in SUBSET AllRaidEvents /\ v.running \in Raids \cup {NoRaid}
  BY <1>5, RaidEventIs DEF World
<1>9. v \in World
  BY <1>6, <1>7, <1>8 DEF World
<1>. QED
  BY <1>3, <1>5, <1>7, <1>9 DEF Added

(* A raid is written, and what runs and what is to come besides. *)
WorldOf(w, r, x, run, E) ==
  [raids |-> [w.raids EXCEPT ![r] = x], running |-> run, events |-> E]

Written(w, r, x, run, E, v) ==
  /\ v \in World /\ v.running = run /\ v.events = E /\ v.raids[r] = x
  /\ \A q \in Raids \ {r} : v.raids[q] = w.raids[q]

LEMMA WorldIs ==
  ASSUME NEW w \in World, NEW r \in Raids, NEW x \in RaidObject, NEW run \in Raids \cup {NoRaid},
         NEW E \in SUBSET AllRaidEvents
  PROVE  Written(w, r, x, run, E, WorldOf(w, r, x, run, E))
BY DEF World, WorldOf, Written

(* What stopEvents leaves of a raid. *)
Stopped(w, r, v) ==
  /\ v \in World /\ v.running = w.running
  /\ v.events \in {w.events, w.events \ {RaidEvent(r)}}
  /\ RaidEvent(r) \in v.events => ~w.raids[r].nextEvent
  /\ v.raids[r].alive = w.raids[r].alive /\ v.raids[r].refCount = w.raids[r].refCount
  /\ v.raids[r].lost = w.raids[r].lost /\ v.raids[r].nextEvent = FALSE
  /\ v.raids[r].eventCount = w.raids[r].eventCount
  /\ \A q \in Raids \ {r} : v.raids[q] = w.raids[q]

LEMMA StopEventsIs ==
  ASSUME NEW w \in World, NEW r \in Raids, NEW v, v = StopEvents(w, r)
  PROVE  Stopped(w, r, v)
<1>1. CASE ~w.raids[r].nextEvent
  <2>1. v = w
    BY <1>1 DEF StopEvents
  <2>2. w.raids[r].nextEvent = FALSE
    BY <1>1 DEF World, RaidObject
  <2>. QED
    BY <1>1, <2>1, <2>2 DEF Stopped
<1>2. CASE w.raids[r].nextEvent
  <2>1. PICK x : x = [w.raids[r] EXCEPT !.nextEvent = FALSE]
    OBVIOUS
  <2>2. w.raids[r] \in RaidObject
    BY DEF World
  <2>3. /\ x \in RaidObject /\ x.alive = w.raids[r].alive /\ x.refCount = w.raids[r].refCount
        /\ x.lost = w.raids[r].lost /\ x.nextEvent = FALSE
        /\ x.eventCount = w.raids[r].eventCount
    BY <2>1, <2>2 DEF RaidObject
  <2>4. v = [w EXCEPT !.raids[r].nextEvent = FALSE, !.events = w.events \ {RaidEvent(r)}]
    BY <1>2 DEF StopEvents
  <2>5. v = WorldOf(w, r, x, w.running, w.events \ {RaidEvent(r)})
    BY <2>1, <2>4 DEF World, WorldOf
  <2>6. w.events \ {RaidEvent(r)} \in SUBSET AllRaidEvents /\ w.running \in Raids \cup {NoRaid}
    BY DEF World
  <2>7. /\ v \in World /\ v.running = w.running /\ v.events = w.events \ {RaidEvent(r)}
        /\ v.raids[r] = x /\ \A q \in Raids \ {r} : v.raids[q] = w.raids[q]
    <3>1. Written(w, r, x, w.running, w.events \ {RaidEvent(r)}, v)
      BY <2>3, <2>5, <2>6, WorldIs
    <3>. QED
      BY <3>1 DEF Written
  <2>. QED
    BY <2>3, <2>7 DEF Stopped
<1>. QED
  BY <1>1, <1>2

(* resetRaid: with an event to come, which is asked after checkExecution,  *)
(* nothing happens.                                                        *)
LEMMA ResetRaidKeeps ==
  ASSUME NEW w, NEW r, w.raids[r].nextEvent
  PROVE  ResetRaid(w, r, TRUE) = w
BY DEF ResetRaid

(* What resetRaid leaves of one that has no event to come, or is told not  *)
(* to mind: the raid is over, unless its monsters block that.              *)
WasReset(w, r, v) ==
  /\ v \in World
  /\ v.events \in {w.events, w.events \ {RaidEvent(r)}}
  /\ RaidEvent(r) \in v.events => ~w.raids[r].nextEvent
  /\ v.raids[r].alive = w.raids[r].alive /\ v.raids[r].refCount = w.raids[r].refCount
  /\ v.raids[r].lost = w.raids[r].lost /\ v.raids[r].nextEvent = FALSE
  /\ \A q \in Raids \ {r} : v.raids[q] = w.raids[q]
  /\ r.type = "block" /\ w.raids[r].refCount > 0 => v.running = w.running
  /\ ~(r.type = "block" /\ w.raids[r].refCount > 0) =>
       v.running = IF w.running = r THEN NoRaid ELSE w.running
  /\ w.raids[r].refCount = 0 => v.raids[r].eventCount = 0

LEMMA ResetRaidIs ==
  ASSUME NEW w \in World, NEW r \in Raids, NEW c \in BOOLEAN, c => ~w.raids[r].nextEvent,
         NEW v, v = ResetRaid(w, r, c)
  PROVE  WasReset(w, r, v)
<1>1. PICK u : u = StopEvents(w, r)
  OBVIOUS
<1>0. Stopped(w, r, u)
  BY <1>1, StopEventsIs
<1>2. /\ u \in World /\ u.running = w.running
      /\ u.raids[r].alive = w.raids[r].alive /\ u.raids[r].refCount = w.raids[r].refCount
      /\ u.raids[r].lost = w.raids[r].lost /\ u.raids[r].nextEvent = FALSE
  BY <1>0 DEF Stopped
<1>8. \A q \in Raids \ {r} : u.raids[q] = w.raids[q]
  BY <1>0 DEF Stopped
<1>6. u.events \in {w.events, w.events \ {RaidEvent(r)}}
  BY <1>0 DEF Stopped
<1>7. RaidEvent(r) \in u.events => ~w.raids[r].nextEvent
  BY <1>0 DEF Stopped
<1>3. v = IF r.type = "block" /\ u.raids[r].refCount > 0 THEN u
          ELSE [u EXCEPT !.running = IF u.running = r THEN NoRaid ELSE u.running,
                         !.raids[r].eventCount =
                           IF r.type # "single" \/ u.raids[r].refCount = 0 THEN 0
                           ELSE u.raids[r].eventCount]
  BY <1>1 DEF ResetRaid
<1>4. CASE r.type = "block" /\ u.raids[r].refCount > 0
  <2>1. v = u
    BY <1>3, <1>4
  <2>2. u.raids[r].refCount # 0
    BY <1>4
  <2>. QED
    BY <1>2, <1>4, <1>6, <1>7, <1>8, <2>1, <2>2 DEF WasReset
<1>5. CASE ~(r.type = "block" /\ u.raids[r].refCount > 0)
  <2>. DEFINE count == IF r.type # "single" \/ u.raids[r].refCount = 0 THEN 0
                       ELSE u.raids[r].eventCount
              run == IF u.running = r THEN NoRaid ELSE u.running
  <2>1. PICK x : x = [u.raids[r] EXCEPT !.eventCount = count]
    OBVIOUS
  <2>2. u.raids[r] \in RaidObject
    BY <1>2 DEF World
  <2>3. count \in 0 .. LastEvent /\ (u.raids[r].refCount = 0 => count = 0)
    BY <2>2, RaidsAssumption DEF RaidObject
  <2>. HIDE DEF count
  <2>4. /\ x \in RaidObject /\ x.alive = u.raids[r].alive /\ x.refCount = u.raids[r].refCount
        /\ x.lost = u.raids[r].lost /\ x.nextEvent = u.raids[r].nextEvent /\ x.eventCount = count
    BY <2>1, <2>2, <2>3 DEF RaidObject
  <2>5. v = [u EXCEPT !.running = run, !.raids[r].eventCount = count]
    BY <1>3, <1>5 DEF count
  <2>6. run \in Raids \cup {NoRaid} /\ u.events \in SUBSET AllRaidEvents
    BY <1>2 DEF World
  <2>. HIDE DEF run
  <2>7. v = WorldOf(u, r, x, run, u.events)
    BY <1>2, <2>1, <2>5 DEF World, WorldOf
  <2>11. Written(u, r, x, run, u.events, v)
    BY <1>2, <2>4, <2>6, <2>7, WorldIs
  <2>8. v \in World /\ v.running = run /\ v.events = u.events /\ v.raids[r] = x
    BY <2>11 DEF Written
  <2>10. \A q \in Raids \ {r} : v.raids[q] = u.raids[q]
    BY <2>11 DEF Written
  <2>9. run = IF w.running = r THEN NoRaid ELSE w.running
    BY <1>2 DEF run
  <2>. QED
    BY <1>2, <1>5, <1>6, <1>7, <1>8, <2>3, <2>4, <2>8, <2>9, <2>10 DEF WasReset
<1>. QED
  BY <1>4, <1>5

(* The monsters and items of a raid are counted, unless it is of no type.  *)
Spawns(w, r, things, merged, v) ==
  /\ v \in World /\ v.running = w.running /\ v.events = w.events
  /\ v.raids[r].alive = w.raids[r].alive /\ v.raids[r].nextEvent = w.raids[r].nextEvent
  /\ v.raids[r].eventCount = w.raids[r].eventCount
  /\ r.type = "none" => /\ v.raids[r].refCount = w.raids[r].refCount
                        /\ v.raids[r].lost = w.raids[r].lost
  /\ r.type # "none" =>
       /\ v.raids[r].refCount = w.raids[r].refCount + Cardinality(things) + merged
       /\ v.raids[r].lost = w.raids[r].lost + merged
  /\ \A q \in Raids \ {r} : v.raids[q] = w.raids[q]

LEMMA SpawnForIs ==
  ASSUME NEW w \in World, NEW r \in Raids, NEW things, NEW merged \in {0, 1},
         Cardinality(things) \in Nat, NEW v, v = SpawnFor(w, r, things, merged)
  PROVE  Spawns(w, r, things, merged, v)
<1>1. CASE r.type = "none"
  BY <1>1 DEF SpawnFor, Spawns
<1>2. CASE r.type # "none"
  <2>1. PICK x : x = [w.raids[r] EXCEPT !.refCount = @ + Cardinality(things) + merged,
                                        !.lost = @ + merged]
    OBVIOUS
  <2>2. w.raids[r] \in RaidObject
    BY DEF World
  <2>3. /\ x.alive = w.raids[r].alive /\ x.nextEvent = w.raids[r].nextEvent
        /\ x.refCount = w.raids[r].refCount + Cardinality(things) + merged
        /\ x.lost = w.raids[r].lost + merged /\ x.eventCount = w.raids[r].eventCount
    BY <2>1, <2>2 DEF RaidObject
  <2>4. w.raids[r].refCount + Cardinality(things) + merged \in Nat
        /\ w.raids[r].lost + merged \in Nat
    BY <2>2 DEF RaidObject
  <2>5. x \in RaidObject
    BY <2>1, <2>2, <2>4 DEF RaidObject
  <2>6. v = WorldOf(w, r, x, w.running, w.events)
    BY <1>2, <2>1 DEF SpawnFor, World, WorldOf
  <2>7. w.running \in Raids \cup {NoRaid} /\ w.events \in SUBSET AllRaidEvents
    BY DEF World
  <2>10. Written(w, r, x, w.running, w.events, v)
    BY <2>5, <2>6, <2>7, WorldIs
  <2>8. v \in World /\ v.running = w.running /\ v.events = w.events /\ v.raids[r] = x
    BY <2>10 DEF Written
  <2>9. \A q \in Raids \ {r} : v.raids[q] = w.raids[q]
    BY <2>10 DEF Written
  <2>. QED
    BY <1>2, <2>3, <2>8, <2>9 DEF Spawns
<1>. QED
  BY <1>1, <1>2

(* The dispatcher's queue, as far as the events of raids are concerned.    *)
LEMMA QueuePopped ==
  ASSUME NEW t \in Seq(AllRaidEvents), t # <<>>
  PROVE  /\ Tail(t) \in Seq(AllRaidEvents)
         /\ ToSet(t) = {Head(t)} \cup ToSet(Tail(t))
         /\ OnceIn(t) => /\ OnceIn(Tail(t))
                         /\ Head(t).raid # NoRaid => Head(t) \notin ToSet(Tail(t))
<1>. Tail(t) \in Seq(AllRaidEvents) /\ Len(t) \in Nat
  OBVIOUS
<1>1. PICK u : u = Tail(t)
  OBVIOUS
<1>2. /\ \A n \in DOMAIN u : n + 1 \in DOMAIN t /\ n + 1 # 1 /\ u[n] = t[n + 1]
      /\ \A n \in DOMAIN t : n # 1 => n - 1 \in DOMAIN u /\ t[n] = u[n - 1]
      /\ 1 \in DOMAIN t /\ t[1] = Head(t) /\ DOMAIN u \subseteq Nat
  BY <1>1
<1>3. ToSet(t) = {Head(t)} \cup ToSet(u)
  <2>1. ASSUME NEW e \in ToSet(t) PROVE e \in {Head(t)} \cup ToSet(u)
    <3>1. PICK n \in DOMAIN t : e = t[n]
      BY <2>1 DEF ToSet
    <3>2. CASE n = 1
      BY <1>2, <3>1, <3>2
    <3>3. CASE n # 1
      BY <1>2, <3>1, <3>3 DEF ToSet
    <3>. QED
      BY <3>2, <3>3
  <2>2. ASSUME NEW e \in {Head(t)} \cup ToSet(u) PROVE e \in ToSet(t)
    BY <1>2, <2>2 DEF ToSet
  <2>. QED
    BY <2>1, <2>2
<1>4. ASSUME OnceIn(t) PROVE OnceIn(u) /\ (Head(t).raid # NoRaid => Head(t) \notin ToSet(u))
  <2>1. ASSUME NEW m \in DOMAIN u, NEW n \in DOMAIN u, u[m] = u[n], u[m].raid # NoRaid
        PROVE  m = n
    <3>2. /\ m + 1 \in DOMAIN t /\ n + 1 \in DOMAIN t
          /\ t[m + 1] = t[n + 1] /\ t[m + 1].raid # NoRaid
      BY <1>2, <2>1
    <3>1. m + 1 = n + 1
      BY <1>4, <3>2 DEF OnceIn
    <3>. QED
      BY <1>2, <2>1, <3>1
  <2>2. ASSUME Head(t).raid # NoRaid, NEW n \in DOMAIN u, u[n] = Head(t) PROVE FALSE
    BY <1>2, <1>4, <2>2 DEF OnceIn
  <2>. QED
    BY <2>1, <2>2 DEF OnceIn, ToSet
<1>. QED
  BY <1>1, <1>3, <1>4

LEMMA QueueAppended ==
  ASSUME NEW t \in Seq(AllRaidEvents), NEW e \in AllRaidEvents
  PROVE  /\ Append(t, e) \in Seq(AllRaidEvents)
         /\ ToSet(Append(t, e)) = ToSet(t) \cup {e}
         /\ OnceIn(t) /\ (e.raid # NoRaid => e \notin ToSet(t)) => OnceIn(Append(t, e))
<1>. Append(t, e) \in Seq(AllRaidEvents) /\ Len(t) \in Nat
  OBVIOUS
<1>1. PICK u : u = Append(t, e)
  OBVIOUS
<1>2. /\ DOMAIN u = DOMAIN t \cup {Len(t) + 1} /\ u[Len(t) + 1] = e
      /\ \A n \in DOMAIN t : u[n] = t[n]
  BY <1>1
<1>3. ToSet(u) = ToSet(t) \cup {e}
  BY <1>2 DEF ToSet
<1>4. ASSUME OnceIn(t), e.raid # NoRaid => e \notin ToSet(t) PROVE OnceIn(u)
  <2>1. SUFFICES ASSUME NEW m \in DOMAIN u, NEW n \in DOMAIN u, u[m] = u[n], u[m].raid # NoRaid
                 PROVE  m = n
    BY DEF OnceIn
  <2>2. CASE m \in DOMAIN t /\ n \in DOMAIN t
    BY <1>2, <1>4, <2>1, <2>2 DEF OnceIn
  <2>3. CASE ~(m \in DOMAIN t /\ n \in DOMAIN t)
    BY <1>2, <1>4, <2>1, <2>3 DEF ToSet
  <2>. QED
    BY <2>2, <2>3
<1>. QED
  BY <1>1, <1>3, <1>4

LEMMA HuntedInit == RaidInit => Hunted
<1>. SUFFICES ASSUME RaidInit PROVE Hunted
  OBVIOUS
<1>1. NewRaid \in RaidObject /\ NewRaid.refCount = 0 /\ NewRaid.lost = 0
      /\ NewRaid.eventCount = 0 /\ NewRaid.nextEvent = FALSE
  BY RaidsAssumption DEF NewRaid, RaidObject
<1>2. ASSUME NEW r \in Raids
      PROVE  /\ raids[r] \in RaidObject /\ raids[r].refCount = 0 /\ raids[r].lost = 0
             /\ raids[r].eventCount = 0 /\ raids[r].nextEvent = FALSE
             /\ raids[r].alive => r.made = 0
  BY <1>1 DEF RaidInit, RaidObject
<1>3. /\ running = NoRaid /\ raidReloads = 0 /\ checkRaidsEvent = 1 /\ raidTasks = <<>>
      /\ raidEvents = {CheckEvent(1)} /\ holds = [s \in Spawned |-> NoRaid] /\ ~misused
      /\ 1 \in CheckIds /\ 0 \in 0 .. MaxRaidReloads
  BY RaidsAssumption DEF RaidInit, CheckIds
<1>4. RaidsTyped
  <2>1. raids \in [Raids -> RaidObject]
    BY <1>2 DEF RaidInit
  <2>. QED
    BY <1>3, <2>1, RaidEventIs DEF RaidsTyped
<1>5. ToSet(raidTasks) = {} /\ OnceIn(raidTasks)
  BY <1>3 DEF ToSet, OnceIn
<1>6. \A r \in Raids : ~Pends(r) /\ ~Passed(r)
  BY <1>3, <1>5, RaidEventIs DEF Pends, Passed
<1>7. Aged
  <2>1. \A s \in Spawned : holds[s] = NoRaid
    BY <1>3
  <2>2. ASSUME NEW r \in Raids, raids[r].alive PROVE r.made <= raidReloads
    <3>1. r.made = 0 /\ raidReloads = 0
      BY <1>2, <1>3, <2>2
    <3>2. 0 <= 0
      OBVIOUS
    <3>. QED
      BY <3>1, <3>2
  <2>. QED
    BY <2>1, <2>2 DEF Aged
<1>8. RefsCountSpawned
  <2>1. \A r \in Raids : {s \in Spawned : holds[s] = r} = {}
    BY <1>3, RaidEventIs
  <2>. QED
    <3>1. \A r \in Raids : Cardinality({s \in Spawned : holds[s] = r}) = 0
      BY <2>1, FS_EmptySet
    <3>2. \A r \in Raids : raids[r].refCount = 0 /\ raids[r].lost = 0
      BY <1>2
    <3>. QED
      BY <3>1, <3>2 DEF RefsCountSpawned
<1>9. CheckComes
  BY <1>3, RaidEventIs DEF CheckComes
<1>10. Orderly
  BY <1>2, <1>3, <1>5, <1>6, RaidEventIs DEF Orderly, Course
<1>. QED
  BY <1>4, <1>7, <1>8, <1>9, <1>10 DEF Hunted

(* What is left of a raid that is referred to, or has an event to come.    *)
Ordered == Hunted /\ ~heldAtReload

LEMMA OnlyRunning ==
  Ordered => /\ ~misused /\ OnceIn(raidTasks)
             /\ \A r \in Raids : Course(r)
             /\ \A s \in Spawned : holds[s] # NoRaid => raids[holds[s]].alive
BY DEF Ordered, Hunted, Orderly

(* An event of a raid, or of checkRaids, passes to the dispatcher. *)
LEMMA PassStep == Hunted /\ PassRaidEvent => Hunted'
<1>. SUFFICES ASSUME Hunted, PassRaidEvent PROVE Hunted'
  OBVIOUS
<1>1. PICK e \in raidEvents : /\ raidEvents' = raidEvents \ {e}
                              /\ raidTasks' = Append(raidTasks, e)
  BY DEF PassRaidEvent
<1>2. /\ UNCHANGED <<raids, running, raidReloads, started, checkRaidsEvent>>
      /\ UNCHANGED <<holds, heldAtReload, misused>>
  BY DEF PassRaidEvent
<1>3. RaidsTyped /\ e \in AllRaidEvents
  BY <1>1 DEF Hunted, RaidsTyped
<1>4. /\ raidTasks' \in Seq(AllRaidEvents)
      /\ ToSet(raidTasks') = ToSet(raidTasks) \cup {e}
      /\ OnceIn(raidTasks) /\ (e.raid # NoRaid => e \notin ToSet(raidTasks)) =>
           OnceIn(raidTasks')
  BY <1>1, <1>3, QueueAppended DEF RaidsTyped
<1>5. RaidsTyped'
  BY <1>1, <1>2, <1>3, <1>4 DEF RaidsTyped
<1>6. Aged' /\ RefsCountSpawned' /\ CheckComes'
  <2>1. Aged'
    BY <1>2 DEF Hunted, Aged
  <2>2. RefsCountSpawned'
    BY <1>2 DEF Hunted, RefsCountSpawned
  <2>3. (raidEvents \cup ToSet(raidTasks))' = raidEvents \cup ToSet(raidTasks)
    BY <1>1, <1>4
  <2>4. CheckComes'
    BY <1>2, <2>3 DEF Hunted, CheckComes
  <2>. QED
    BY <2>1, <2>2, <2>4
<1>7. ASSUME ~heldAtReload' PROVE Orderly'
  <2>1. Ordered
    BY <1>2, <1>7 DEF Ordered
  <2>2. \A r \in Raids : Course(r)
    BY <2>1, OnlyRunning
  <2>3. e.raid # NoRaid => e \notin ToSet(raidTasks)
    BY <1>1, <1>3, <2>2, RaidEventIs DEF Course, Pends, Passed
  <2>4. OnceIn(raidTasks)' /\ ~misused'
    BY <1>2, <1>4, <2>1, <2>3, OnlyRunning DEF OnceIn
  <2>5. ASSUME NEW r \in Raids PROVE Course(r)'
    <3>1. (Pends(r) \/ Passed(r))' <=> Pends(r) \/ Passed(r)
      BY <1>1, <1>4 DEF Pends, Passed
    <3>2. ~(Pends(r) /\ Passed(r))'
      BY <1>1, <1>4, <2>2 DEF Course, Pends, Passed
    <3>. QED
      BY <1>2, <2>2, <3>1, <3>2 DEF Course
  <2>6. \A s \in Spawned : holds'[s] # NoRaid => raids'[holds'[s]].alive
    BY <1>2, <2>1, OnlyRunning
  <2>. QED
    BY <2>4, <2>5, <2>6 DEF Orderly
<1>. QED
  BY <1>5, <1>6, <1>7 DEF Hunted

LEMMA StartIs ==
  ASSUME NEW w \in World, NEW r \in Raids, HasNext(w, r), RaidsBecome(StartRaid(w, r))
  PROVE  /\ running' = r /\ raidEvents' = w.events \cup {RaidEvent(r)}
         /\ \E v : Added(w, r, v) /\ raids' = v.raids /\ raidEvents' = v.events
<1>1. PICK v : v = AddNext(w, r)
  OBVIOUS
<1>2. Added(w, r, v)
  BY <1>1, AddNextIs
<1>3. /\ raids' = v.raids /\ running' = r /\ raidEvents' = v.events
  BY <1>1, <1>2 DEF RaidsBecome, StartRaid, Added, World
<1>4. v.events = w.events \cup {RaidEvent(r)}
  BY <1>2 DEF Added
<1>. QED
  BY <1>2, <1>3, <1>4

(* A raid starts: nothing runs, and it is not referred to. *)
LEMMA StartStep ==
  ASSUME Hunted, running = NoRaid, NEW r \in Raids, raids[r].alive, raids[r].refCount = 0,
         NEW w \in World, w.raids = raids, w.running = NoRaid,
         \A q \in Raids : RaidEvent(q) \in w.events => Pends(q),
         HasNext(w, r), RaidsBecome(StartRaid(w, r)),
         raidTasks' \in Seq(AllRaidEvents), ToSet(raidTasks') \subseteq ToSet(raidTasks),
         OnceIn(raidTasks) => OnceIn(raidTasks'),
         checkRaidsEvent' \in CheckIds \cup {0}, CheckComes',
         UNCHANGED <<raidReloads, holds, heldAtReload, misused>>
  PROVE  Hunted'
<1>1. running' = r
  BY StartIs
<1>2. PICK v : Added(w, r, v) /\ raids' = v.raids /\ raidEvents' = v.events
  BY StartIs
<1>3. raids' = v.raids /\ running' = r /\ raidEvents' = v.events
  BY <1>1, <1>2
<1>4. /\ raids' \in [Raids -> RaidObject] /\ raidEvents' \subseteq AllRaidEvents
      /\ w.events \subseteq raidEvents' /\ raidEvents' = w.events \cup {RaidEvent(r)}
      /\ raids'[r].alive = raids[r].alive /\ raids'[r].refCount = raids[r].refCount
      /\ raids'[r].lost = raids[r].lost /\ raids'[r].nextEvent = TRUE
      /\ \A q \in Raids \ {r} : raids'[q] = raids[q]
  BY <1>2, <1>3 DEF Added, World
<1>5. RaidsTyped'
  BY <1>3, <1>4 DEF Hunted, RaidsTyped
<1>6. Aged' /\ RefsCountSpawned'
  <2>1. \A q \in Raids : /\ raids'[q].alive = raids[q].alive
                         /\ raids'[q].refCount = raids[q].refCount
                         /\ raids'[q].lost = raids[q].lost
    BY <1>4
  <2>2. Aged'
    BY <2>1 DEF Hunted, Aged
  <2>3. RefsCountSpawned'
    BY <2>1 DEF Hunted, RefsCountSpawned
  <2>. QED
    BY <2>2, <2>3
<1>7. ASSUME ~heldAtReload' PROVE Orderly'
  <2>1. Ordered
    BY <1>7 DEF Ordered
  <2>2. \A q \in Raids : Course(q) /\ q # NoRaid
    BY <2>1, OnlyRunning, RaidEventIs
  <2>3. \A q \in Raids : ~Pends(q) /\ ~Passed(q)
    BY <2>2 DEF Course
  <2>4. \A q \in Raids : ~Passed(q)'
    BY <2>3 DEF Passed
  <2>5. \A q \in Raids : Pends(q)' <=> q = r
    BY <1>4, <2>3, RaidEventIs DEF Pends
  <2>6. ASSUME NEW q \in Raids PROVE Course(q)'
    <3>1. CASE q = r
      BY <1>3, <1>4, <2>4, <2>5, <3>1 DEF Course
    <3>2. CASE q # r
      <4>1. raids'[q] = raids[q] /\ q # running' /\ q # running
        BY <1>3, <1>4, <2>2, <3>2
      <4>2. ~Pends(q)' /\ ~Passed(q)'
        BY <2>4, <2>5, <3>2
      <4>. QED
        BY <2>2, <2>3, <4>1, <4>2 DEF Course
    <3>. QED
      BY <3>1, <3>2
  <2>7. \A s \in Spawned : holds'[s] # NoRaid => raids'[holds'[s]].alive
    <3>1. ASSUME NEW s \in Spawned, holds[s] # NoRaid PROVE raids'[holds[s]].alive
      <4>1. raids[holds[s]].alive /\ holds[s] \in Raids
        BY <2>1, <3>1, OnlyRunning DEF Hunted, RaidsTyped
      <4>. QED
        BY <1>4, <4>1
    <3>. QED
      BY <3>1
  <2>. QED
    BY <2>1, <2>6, <2>7, OnlyRunning DEF Orderly
<1>. QED
  BY <1>5, <1>6, <1>7 DEF Hunted

(* doExecuteRaid *)
LEMMA ExecuteStep == Hunted /\ ExecuteRaid => Hunted'
<1>. SUFFICES ASSUME Hunted, ExecuteRaid PROVE Hunted'
  OBVIOUS
<1>1. /\ running = NoRaid
      /\ UNCHANGED <<raidReloads, started, checkRaidsEvent, raidTasks, holds>>
      /\ UNCHANGED <<heldAtReload, misused>>
  BY DEF ExecuteRaid, Quiet, Lair
<1>2. PICK r \in Startable : RaidsBecome(StartRaid(Lair, r))
  BY DEF ExecuteRaid
<1>3. r \in Raids /\ raids[r].alive /\ raids[r].refCount = 0 /\ HasNext(Lair, r)
  BY <1>2 DEF Startable
<1>4. PICK w : w = Lair
  OBVIOUS
<1>5. w \in World /\ w.raids = raids /\ w.running = NoRaid /\ w.events = raidEvents
  BY <1>1, <1>4, LairIs DEF Hunted, Lair
<1>6. \A q \in Raids : RaidEvent(q) \in w.events => Pends(q)
  BY <1>5 DEF Pends
<1>7. CheckComes'
  <2>1. raidEvents' = w.events \cup {RaidEvent(r)}
    BY <1>2, <1>3, <1>4, <1>5, StartIs
  <2>. QED
    BY <1>1, <1>5, <2>1 DEF Hunted, CheckComes
<1>8. /\ raidTasks' \in Seq(AllRaidEvents) /\ checkRaidsEvent' \in CheckIds \cup {0}
      /\ ToSet(raidTasks') \subseteq ToSet(raidTasks) /\ OnceIn(raidTasks) => OnceIn(raidTasks')
  BY <1>1 DEF Hunted, RaidsTyped
<1>. QED
  BY <1>1, <1>2, <1>3, <1>4, <1>5, <1>6, <1>7, <1>8, StartStep

(* checkRaids: it comes again, and may start a raid. *)
LEMMA CheckStep == Hunted /\ CheckRaids => Hunted'
<1>. SUFFICES ASSUME Hunted, CheckRaids PROVE Hunted'
  OBVIOUS
<1>1. PICK i \in CheckIds :
        /\ raidTasks # <<>> /\ Head(raidTasks) = CheckEvent(i)
        /\ raidTasks' = Tail(raidTasks) /\ checkRaidsEvent' = i
        /\ \/ RaidsBecome(CheckAgain(Lair, i))
           \/ /\ Quiet(CheckAgain(Lair, i))
              /\ \E r \in Startable : RaidsBecome(StartRaid(CheckAgain(Lair, i), r))
  BY DEF CheckRaids, TaskIs
<1>2. UNCHANGED <<raidReloads, started, holds>> /\ UNCHANGED <<heldAtReload, misused>>
  BY DEF CheckRaids
<1>3. PICK w : w = CheckAgain(Lair, i)
  OBVIOUS
<1>4. /\ w.raids = raids /\ w.running = running /\ w.events = raidEvents \cup {CheckEvent(i)}
      /\ w = [raids |-> raids, running |-> running, events |-> raidEvents \cup {CheckEvent(i)}]
  BY <1>3 DEF CheckAgain, Lair
<1>5. raidEvents \cup {CheckEvent(i)} \subseteq AllRaidEvents
  BY RaidEventIs DEF Hunted, RaidsTyped
<1>6. w \in World
  BY <1>4, <1>5 DEF Hunted, RaidsTyped, World
<1>7. \A q \in Raids : RaidEvent(q) \in w.events <=> Pends(q)
  BY <1>4, RaidEventIs DEF Pends
<1>8. /\ raidTasks' \in Seq(AllRaidEvents) /\ checkRaidsEvent' \in CheckIds \cup {0}
      /\ ToSet(raidTasks) = {CheckEvent(i)} \cup ToSet(raidTasks')
      /\ OnceIn(raidTasks) => OnceIn(raidTasks')
  BY <1>1, QueuePopped DEF Hunted, RaidsTyped
<1>9. CASE RaidsBecome(CheckAgain(Lair, i))
  <2>1. /\ raids' = raids /\ running' = running
        /\ raidEvents' = raidEvents \cup {CheckEvent(i)}
    BY <1>3, <1>4, <1>9 DEF RaidsBecome
  <2>2. RaidsTyped'
    BY <1>2, <1>5, <1>8, <2>1 DEF Hunted, RaidsTyped
  <2>3. Aged' /\ RefsCountSpawned'
    BY <1>2, <2>1 DEF Hunted, Aged, RefsCountSpawned
  <2>4. CheckComes'
    BY <2>1, RaidEventIs DEF CheckComes
  <2>5. ASSUME ~heldAtReload' PROVE Orderly'
    <3>1. Ordered
      BY <1>2, <2>5 DEF Ordered
    <3>2. \A r \in Raids : Course(r)
      BY <3>1, OnlyRunning
    <3>3. \A r \in Raids : (Pends(r)' <=> Pends(r)) /\ (Passed(r)' <=> Passed(r))
      BY <1>8, <2>1, RaidEventIs DEF Pends, Passed
    <3>4. \A r \in Raids : Course(r)'
      BY <2>1, <3>2, <3>3 DEF Course
    <3>5. \A s \in Spawned : holds'[s] # NoRaid => raids'[holds'[s]].alive
      BY <1>2, <2>1, <3>1, OnlyRunning
    <3>. QED
      BY <1>2, <1>8, <3>1, <3>4, <3>5, OnlyRunning DEF Orderly
  <2>. QED
    BY <2>2, <2>3, <2>4, <2>5 DEF Hunted
<1>10. CASE /\ Quiet(CheckAgain(Lair, i))
            /\ \E r \in Startable : RaidsBecome(StartRaid(CheckAgain(Lair, i), r))
  <2>1. PICK r \in Startable : RaidsBecome(StartRaid(w, r))
    BY <1>3, <1>10
  <2>2. /\ r \in Raids /\ raids[r].alive /\ raids[r].refCount = 0 /\ HasNext(w, r)
        /\ running = NoRaid
    BY <1>3, <1>4, <1>10, <2>1 DEF Startable, HasNext, Lair, Quiet
  <2>3. raidEvents' = w.events \cup {RaidEvent(r)}
    BY <1>6, <2>1, <2>2, StartIs
  <2>4. CheckComes'
    BY <1>4, <2>3, RaidEventIs DEF CheckComes
  <2>5. ToSet(raidTasks') \subseteq ToSet(raidTasks)
    BY <1>8
  <2>. QED
    BY <1>2, <1>4, <1>6, <1>7, <1>8, <2>1, <2>2, <2>4, <2>5, StartStep
<1>. QED
  BY <1>1, <1>9, <1>10

(* Those that a raid spawns are counted besides those it had. *)
LEMMA HoldersSpawned ==
  ASSUME Hunted, NEW r \in Raids, NEW things \in SUBSET {s \in Spawned : holds[s] = NoRaid},
         holds' = [s \in Spawned |-> IF s \in things /\ r.type # "none" THEN r ELSE holds[s]]
  PROVE  /\ Cardinality(things) \in Nat
         /\ r.type # "none" =>
              Cardinality({s \in Spawned : holds'[s] = r})
                = Cardinality({s \in Spawned : holds[s] = r}) + Cardinality(things)
         /\ r.type = "none" => holds' = holds
         /\ \A q \in Raids \ {r} : {s \in Spawned : holds'[s] = q} = {s \in Spawned : holds[s] = q}
<1>. DEFINE had == {s \in Spawned : holds[s] = r}
            has == {s \in Spawned : holds'[s] = r}
<1>1. IsFiniteSet(had) /\ IsFiniteSet(things)
  BY RaidsAssumption, FS_Subset
<1>2. /\ Cardinality(had) \in Nat /\ Cardinality(things) \in Nat
      /\ Cardinality(had \cup things)
           = Cardinality(had) + Cardinality(things) - Cardinality(had \cap things)
  BY <1>1, FS_CardinalityType, FS_Union
<1>3. had \cap things = {}
  BY RaidEventIs
<1>4. Cardinality(had \cap things) = 0
  BY <1>3, FS_EmptySet
<1>5. ASSUME r.type # "none" PROVE has = had \cup things
  BY <1>5
<1>6. r.type # "none" => Cardinality(has) = Cardinality(had) + Cardinality(things)
  <2>1. PICK a \in Nat, b \in Nat : a = Cardinality(had) /\ b = Cardinality(things)
    BY <1>2
  <2>2. Cardinality(had \cup things) = a + b - 0
    BY <1>2, <1>4, <2>1
  <2>3. Cardinality(had \cup things) = a + b
    BY <2>2
  <2>. QED
    BY <1>5, <2>1, <2>3
<1>7. r.type = "none" => holds' = holds
  <2>1. holds = [s \in Spawned |-> holds[s]]
    BY DEF Hunted, RaidsTyped
  <2>. QED
    BY <2>1
<1>8. \A q \in Raids \ {r} : {s \in Spawned : holds'[s] = q} = {s \in Spawned : holds[s] = q}
  BY RaidEventIs
<1>. QED
  BY <1>2, <1>6, <1>7, <1>8

(* The event of a raid that is still there runs. *)
LEMMA RunStep ==
  ASSUME Hunted, NEW r \in Raids, TaskIs(RaidEvent(r)), raidTasks' = Tail(raidTasks),
         raids[r].alive, NEW things \in SUBSET {s \in Spawned : holds[s] = NoRaid},
         NEW merged \in {0, 1}, NEW done \in BOOLEAN,
         RaidsBecome(GoOn(SpawnFor(Lair, r, things, merged), r, done)),
         holds' = [s \in Spawned |-> IF s \in things /\ r.type # "none" THEN r ELSE holds[s]],
         UNCHANGED <<misused, raidReloads, started, checkRaidsEvent, heldAtReload>>,
         merged = 1 => r.type # "none"
  PROVE  Hunted'
<1>1. /\ raidTasks' \in Seq(AllRaidEvents)
      /\ ToSet(raidTasks) = {RaidEvent(r)} \cup ToSet(raidTasks')
      /\ OnceIn(raidTasks) => OnceIn(raidTasks') /\ RaidEvent(r) \notin ToSet(raidTasks')
  <2>1. raidTasks \in Seq(AllRaidEvents) /\ raidTasks # <<>> /\ Head(raidTasks) = RaidEvent(r)
    BY DEF Hunted, RaidsTyped, TaskIs
  <2>. QED
    BY <2>1, QueuePopped, RaidEventIs
<1>2. /\ Cardinality(things) \in Nat
      /\ r.type # "none" =>
           Cardinality({s \in Spawned : holds'[s] = r})
             = Cardinality({s \in Spawned : holds[s] = r}) + Cardinality(things)
      /\ r.type = "none" => holds' = holds
      /\ \A q \in Raids \ {r} : {s \in Spawned : holds'[s] = q} = {s \in Spawned : holds[s] = q}
  BY HoldersSpawned
<1>3. PICK w : w = Lair
  OBVIOUS
<1>4. w \in World /\ w.raids = raids /\ w.running = running /\ w.events = raidEvents
  BY <1>3, LairIs DEF Hunted, Lair
<1>5. PICK u : u = SpawnFor(w, r, things, merged)
  OBVIOUS
<1>6. Spawns(w, r, things, merged, u)
  BY <1>2, <1>4, <1>5, SpawnForIs
<1>7. /\ u \in World /\ u.running = running /\ u.events = raidEvents
      /\ u.raids[r].alive = raids[r].alive /\ u.raids[r].nextEvent = raids[r].nextEvent
      /\ \A q \in Raids \ {r} : u.raids[q] = raids[q]
  BY <1>4, <1>6 DEF Spawns
<1>8. PICK v : v = GoOn(u, r, done)
  OBVIOUS
<1>9. raids' = v.raids /\ running' = v.running /\ raidEvents' = v.events
  BY <1>3, <1>5, <1>8 DEF RaidsBecome
<1>10. Added(u, r, v) \/ WasReset(u, r, v)
  <2>1. CASE done /\ HasNext(u, r)
    BY <1>7, <1>8, <2>1, AddNextIs DEF GoOn
  <2>2. CASE ~(done /\ HasNext(u, r))
    BY <1>7, <1>8, <2>2, ResetRaidIs DEF GoOn
  <2>. QED
    BY <2>1, <2>2
<1>11. /\ v \in World
       /\ raidEvents \ {RaidEvent(r)} \subseteq v.events
       /\ v.events \subseteq raidEvents \cup {RaidEvent(r)}
       /\ v.raids[r].alive = u.raids[r].alive /\ v.raids[r].refCount = u.raids[r].refCount
       /\ v.raids[r].lost = u.raids[r].lost
       /\ \A q \in Raids \ {r} : v.raids[q] = u.raids[q]
  <2>1. CASE Added(u, r, v)
    BY <1>7, <2>1 DEF Added
  <2>2. CASE WasReset(u, r, v)
    BY <1>7, <2>2 DEF WasReset
  <2>. QED
    BY <1>10, <2>1, <2>2
<1>12. \A q \in Raids \ {r} : raids'[q] = raids[q]
  BY <1>7, <1>9, <1>11
<1>13. RaidsTyped'
  <2>1. raids' \in [Raids -> RaidObject] /\ running' \in Raids \cup {NoRaid}
        /\ raidEvents' \subseteq AllRaidEvents
    BY <1>9, <1>11 DEF World
  <2>2. holds' \in [Spawned -> Raids \cup {NoRaid}]
    BY DEF Hunted, RaidsTyped
  <2>. QED
    BY <1>1, <2>1, <2>2 DEF Hunted, RaidsTyped
<1>14. Aged'
  <2>1. \A q \in Raids : raids'[q].alive = raids[q].alive
    BY <1>7, <1>9, <1>11
  <2>2. r.made <= raidReloads
    BY DEF Hunted, Aged
  <2>3. \A s \in Spawned : holds'[s] \in {r, holds[s]}
    OBVIOUS
  <2>. QED
    BY <2>1, <2>2, <2>3 DEF Hunted, Aged
<1>15. RefsCountSpawned'
  <2>1. ASSUME NEW q \in Raids, raids'[q].alive
        PROVE  raids'[q].refCount
                 = raids'[q].lost + Cardinality({s \in Spawned : holds'[s] = q})
    <3>1. CASE q # r
      <4>1. raids[q].refCount = raids[q].lost + Cardinality({s \in Spawned : holds[s] = q})
        BY <1>12, <2>1, <3>1 DEF Hunted, RefsCountSpawned
      <4>. QED
        BY <1>2, <1>12, <3>1, <4>1
    <3>2. CASE q = r
      <4>1. /\ raids[r].refCount = raids[r].lost + Cardinality({s \in Spawned : holds[s] = r})
            /\ raids[r].refCount \in Nat /\ raids[r].lost \in Nat
        BY DEF Hunted, RefsCountSpawned, RaidsTyped, RaidObject
      <4>2. raids'[r].refCount = u.raids[r].refCount /\ raids'[r].lost = u.raids[r].lost
        BY <1>9, <1>11
      <4>3. CASE r.type = "none"
        <5>1. u.raids[r].refCount = raids[r].refCount /\ u.raids[r].lost = raids[r].lost
          BY <1>4, <1>6, <4>3 DEF Spawns
        <5>. QED
          BY <1>2, <3>2, <4>1, <4>2, <4>3, <5>1
      <4>4. CASE r.type # "none"
        <5>1. /\ u.raids[r].refCount = raids[r].refCount + Cardinality(things) + merged
              /\ u.raids[r].lost = raids[r].lost + merged
          BY <1>4, <1>6, <4>4 DEF Spawns
        <5>2. Cardinality({s \in Spawned : holds[s] = r}) \in Nat
          BY RaidsAssumption, FS_Subset, FS_CardinalityType
        <5>3. PICK a \in Nat, b \in Nat :
                a = Cardinality({s \in Spawned : holds[s] = r}) /\ b = Cardinality(things)
          BY <1>2, <5>2
        <5>4. Cardinality({s \in Spawned : holds'[s] = r}) = a + b
          BY <1>2, <4>4, <5>3
        <5>. QED
          BY <3>2, <4>1, <4>2, <5>1, <5>3, <5>4
      <4>. QED
        BY <4>3, <4>4
    <3>. QED
      BY <3>1, <3>2
  <2>. QED
    BY <2>1 DEF RefsCountSpawned
<1>16. CheckComes'
  <2>1. SUFFICES ASSUME started PROVE \E e \in raidEvents' \cup ToSet(raidTasks') : e.raid = NoRaid
    BY DEF CheckComes
  <2>2. PICK e \in raidEvents \cup ToSet(raidTasks) : e.raid = NoRaid
    BY <2>1 DEF Hunted, CheckComes
  <2>3. e # RaidEvent(r)
    BY <2>2, RaidEventIs
  <2>. QED
    BY <1>1, <1>9, <1>11, <2>2, <2>3
<1>17. ASSUME ~heldAtReload' PROVE Orderly'
  <2>1. Ordered
    BY <1>17 DEF Ordered
  <2>2. \A q \in Raids : Course(q)
    BY <2>1, OnlyRunning
  <2>3. r = running /\ ~Pends(r) /\ r # NoRaid
    BY <1>1, <2>2, RaidEventIs DEF Course, Passed
  <2>4. OnceIn(raidTasks') /\ ~Passed(r)'
    BY <1>1, <2>1, OnlyRunning DEF Passed
  <2>5. \A q \in Raids \ {r} : ~Pends(q) /\ ~Passed(q)
    BY <2>2, <2>3 DEF Course
  <2>6. \A q \in Raids \ {r} : ~Pends(q)' /\ ~Passed(q)'
    BY <1>1, <1>9, <1>11, <2>5, RaidEventIs DEF Pends, Passed
  <2>7. running' \in {r, NoRaid}
    BY <1>7, <1>9, <1>10, <2>3 DEF Added, WasReset
  <2>8. ASSUME NEW q \in Raids \ {r} PROVE Course(q)'
    <3>1. q # running' /\ q # running
      BY <2>3, <2>7, RaidEventIs
    <3>. QED
      BY <1>12, <2>2, <2>5, <2>6, <3>1 DEF Course
  <2>9. Course(r)'
    <3>1. CASE Added(u, r, v)
      <4>1. running' = r /\ Pends(r)' /\ raids'[r].nextEvent /\ raids'[r].alive
        BY <1>7, <1>9, <2>3, <3>1 DEF Added, Pends
      <4>. QED
        BY <2>4, <4>1 DEF Course
    <3>2. CASE WasReset(u, r, v)
      <4>1. ~Pends(r)' /\ raids'[r].nextEvent = FALSE /\ raids'[r].alive
        BY <1>7, <1>9, <2>3, <3>2 DEF WasReset, Pends
      <4>2. running' = r => r.type = "block" /\ raids'[r].refCount > 0
        BY <1>7, <1>9, <2>3, <3>2, RaidEventIs DEF WasReset
      <4>3. raids'[r].refCount = 0 => raids'[r].eventCount = 0
        BY <1>9, <3>2 DEF WasReset
      <4>. QED
        BY <2>4, <4>1, <4>2, <4>3 DEF Course
    <3>. QED
      BY <1>10, <3>1, <3>2
  <2>10. \A s \in Spawned : holds'[s] # NoRaid => raids'[holds'[s]].alive
    <3>1. SUFFICES ASSUME NEW s \in Spawned, holds'[s] # NoRaid
                   PROVE  raids'[holds'[s]].alive
      OBVIOUS
    <3>2. holds'[s] = r \/ holds'[s] = holds[s]
      OBVIOUS
    <3>3. holds'[s] \in Raids /\ raids[holds'[s]].alive
      BY <2>1, <3>1, <3>2, OnlyRunning DEF Hunted, RaidsTyped
    <3>. QED
      BY <1>7, <1>9, <1>11, <1>12, <3>3
  <2>. QED
    BY <2>1, <2>4, <2>8, <2>9, <2>10, OnlyRunning DEF Orderly
<1>. QED
  BY <1>13, <1>14, <1>15, <1>16, <1>17 DEF Hunted

LEMMA RunEventStep == Hunted /\ RunRaidEvent => Hunted'
<1>. SUFFICES ASSUME Hunted, RunRaidEvent PROVE Hunted'
  OBVIOUS
<1>1. PICK r \in Raids :
        /\ TaskIs(RaidEvent(r)) /\ raidTasks' = Tail(raidTasks)
        /\ IF raids[r].alive
           THEN \E things \in SUBSET {s \in Spawned : holds[s] = NoRaid},
                   merged \in {0, 1}, done \in BOOLEAN :
                  /\ merged = 1 => raids[r].lost = 0 /\ r.type # "none"
                  /\ RaidsBecome(GoOn(SpawnFor(Lair, r, things, merged), r, done))
                  /\ holds' = [s \in Spawned |-> IF s \in things /\ r.type # "none"
                                                 THEN r ELSE holds[s]]
                  /\ UNCHANGED misused
           ELSE misused' = TRUE /\ UNCHANGED <<raids, running, raidEvents, holds>>
  BY DEF RunRaidEvent
<1>2. UNCHANGED <<raidReloads, started, checkRaidsEvent, heldAtReload>>
  BY DEF RunRaidEvent
<1>3. CASE raids[r].alive
  <2>1. PICK things \in SUBSET {s \in Spawned : holds[s] = NoRaid},
             merged \in {0, 1}, done \in BOOLEAN :
          /\ merged = 1 => r.type # "none"
          /\ RaidsBecome(GoOn(SpawnFor(Lair, r, things, merged), r, done))
          /\ holds' = [s \in Spawned |-> IF s \in things /\ r.type # "none" THEN r ELSE holds[s]]
          /\ UNCHANGED misused
    BY <1>1, <1>3
  <2>2. UNCHANGED <<misused, raidReloads, started, checkRaidsEvent, heldAtReload>>
    BY <1>2, <2>1
  <2>. QED
    BY <1>1, <1>3, <2>1, <2>2, RunStep
<1>4. CASE ~raids[r].alive
  <2>1. UNCHANGED <<raids, running, raidEvents, holds>>
    BY <1>1, <1>4
  <2>2. /\ raidTasks \in Seq(AllRaidEvents) /\ raidTasks # <<>>
        /\ Head(raidTasks) = RaidEvent(r)
    BY <1>1 DEF TaskIs, Hunted, RaidsTyped
  <2>3. /\ raidTasks' \in Seq(AllRaidEvents)
        /\ ToSet(raidTasks) = {RaidEvent(r)} \cup ToSet(raidTasks')
    BY <1>1, <2>2, QueuePopped
  <2>4. RaidsTyped'
    BY <1>2, <2>1, <2>3 DEF Hunted, RaidsTyped
  <2>5. Aged' /\ RefsCountSpawned'
    BY <1>2, <2>1 DEF Hunted, Aged, RefsCountSpawned
  <2>6. CheckComes'
    BY <1>2, <2>1, <2>3, RaidEventIs DEF Hunted, CheckComes
  <2>7. heldAtReload'
    <3>1. SUFFICES ASSUME ~heldAtReload PROVE FALSE
      BY <1>2
    <3>2. Course(r)
      BY <3>1, OnlyRunning DEF Ordered
    <3>. QED
      BY <1>4, <2>3, <3>2 DEF Course, Passed
  <2>. QED
    BY <2>4, <2>5, <2>6, <2>7 DEF Hunted
<1>. QED
  BY <1>3, <1>4

(* One that held a raid is gone: it was counted. *)
LEMMA HoldersVanish ==
  ASSUME Hunted, NEW s \in Spawned, NEW r \in Raids, holds[s] = r,
         holds' = [holds EXCEPT ![s] = NoRaid]
  PROVE  /\ Cardinality({t \in Spawned : holds[t] = r}) \in Nat \ {0}
         /\ Cardinality({t \in Spawned : holds'[t] = r})
              = Cardinality({t \in Spawned : holds[t] = r}) - 1
         /\ \A q \in Raids \ {r} : {t \in Spawned : holds'[t] = q} = {t \in Spawned : holds[t] = q}
<1>. DEFINE had == {t \in Spawned : holds[t] = r}
            has == {t \in Spawned : holds'[t] = r}
<1>1. holds \in [Spawned -> Raids \cup {NoRaid}] /\ r # NoRaid
  BY RaidEventIs DEF Hunted, RaidsTyped
<1>2. IsFiniteSet(had) /\ s \in had /\ had # {}
  BY RaidsAssumption, FS_Subset
<1>3. has = had \ {s}
  BY <1>1
<1>4. \A q \in Raids \ {r} : {t \in Spawned : holds'[t] = q} = {t \in Spawned : holds[t] = q}
  BY <1>1, RaidEventIs
<1>. HIDE DEF had, has
<1>5. Cardinality(had) \in Nat /\ Cardinality(had) # 0
  BY <1>2, FS_CardinalityType, FS_EmptySet
<1>6. Cardinality(has) = Cardinality(had) - 1
  BY <1>2, <1>3, FS_RemoveElement
<1>. QED
  BY <1>4, <1>5, <1>6 DEF had, has

(* A monster or an item that held its raid vanishes. *)
LEMMA VanishStep == ASSUME NEW s \in Spawned, Hunted, Vanish(s) PROVE Hunted'
<1>1. PICK r : r = holds[s]
  OBVIOUS
<1>2. /\ r \in Raids /\ holds' = [holds EXCEPT ![s] = NoRaid]
      /\ UNCHANGED <<raidReloads, started, checkRaidsEvent, raidTasks, heldAtReload>>
  BY <1>1 DEF Vanish, Hunted, RaidsTyped
<1>3. /\ Cardinality({t \in Spawned : holds[t] = r}) \in Nat \ {0}
      /\ Cardinality({t \in Spawned : holds'[t] = r})
           = Cardinality({t \in Spawned : holds[t] = r}) - 1
      /\ \A q \in Raids \ {r} : {t \in Spawned : holds'[t] = q} = {t \in Spawned : holds[t] = q}
  BY <1>1, <1>2, HoldersVanish
<1>4. holds' \in [Spawned -> Raids \cup {NoRaid}]
      /\ \A t \in Spawned : holds'[t] \in {NoRaid, holds[t]}
  BY <1>2 DEF Hunted, RaidsTyped
<1>5. CASE ~raids[r].alive
  <2>1. UNCHANGED <<raids, running, raidEvents>>
    BY <1>1, <1>5 DEF Vanish
  <2>2. RaidsTyped'
    BY <1>2, <1>4, <2>1 DEF Hunted, RaidsTyped
  <2>3. Aged' /\ CheckComes'
    BY <1>2, <1>4, <2>1 DEF Hunted, Aged, CheckComes
  <2>4. RefsCountSpawned'
    BY <1>3, <1>5, <2>1 DEF Hunted, RefsCountSpawned
  <2>5. heldAtReload'
    BY <1>1, <1>2, <1>5, RaidEventIs, OnlyRunning DEF Ordered
  <2>. QED
    BY <2>2, <2>3, <2>4, <2>5 DEF Hunted
<1>6. CASE raids[r].alive
  <2>1. UNCHANGED misused /\ RaidsBecome(UnRef(Lair, r))
    BY <1>1, <1>6 DEF Vanish
  <2>2. PICK w : w = Lair
    OBVIOUS
  <2>3. w \in World /\ w.raids = raids /\ w.running = running /\ w.events = raidEvents
    BY <2>2, LairIs DEF Hunted, Lair
  <2>4. raids[r] \in RaidObject /\ raids[r].refCount \in Nat \ {0}
    <3>1. raids[r].refCount = raids[r].lost + Cardinality({t \in Spawned : holds[t] = r})
      BY <1>2, <1>6 DEF Hunted, RefsCountSpawned
    <3>2. raids[r] \in RaidObject /\ raids[r].lost \in Nat /\ raids[r].refCount \in Nat
      BY <1>2 DEF Hunted, RaidsTyped, RaidObject
    <3>3. PICK c \in Nat \ {0} : c = Cardinality({t \in Spawned : holds[t] = r})
      BY <1>3
    <3>. QED
      BY <3>1, <3>2, <3>3
  <2>5. PICK x : x = [raids[r] EXCEPT !.refCount = @ - 1]
    OBVIOUS
  <2>6. /\ x \in RaidObject /\ x.alive /\ x.refCount = raids[r].refCount - 1
        /\ x.lost = raids[r].lost /\ x.nextEvent = raids[r].nextEvent
        /\ x.eventCount = raids[r].eventCount
    BY <1>6, <2>4, <2>5 DEF RaidObject
  <2>7. PICK u : u = [w EXCEPT !.raids[r].refCount = @ - 1]
    OBVIOUS
  <2>8. u = WorldOf(w, r, x, running, raidEvents)
    BY <2>3, <2>5, <2>7 DEF World, WorldOf
  <2>9. /\ u \in World /\ u.running = running /\ u.events = raidEvents /\ u.raids[r] = x
        /\ \A q \in Raids \ {r} : u.raids[q] = raids[q]
    <3>1. running \in Raids \cup {NoRaid} /\ raidEvents \in SUBSET AllRaidEvents
      BY DEF Hunted, RaidsTyped
    <3>2. Written(w, r, x, running, raidEvents, u)
      BY <1>2, <2>3, <2>6, <2>8, <3>1, WorldIs
    <3>. QED
      BY <2>3, <3>2 DEF Written
  <2>10. PICK v : v = UnRef(w, r)
    OBVIOUS
  <2>11. raids' = v.raids /\ running' = v.running /\ raidEvents' = v.events
    BY <2>1, <2>2, <2>10 DEF RaidsBecome
  <2>12. (v = u /\ (x.refCount = 0 => x.nextEvent))
         \/ (x.refCount = 0 /\ ~x.nextEvent /\ WasReset(u, r, v))
    <3>1. v = IF u.raids[r].refCount = 0 THEN ResetRaid(u, r, TRUE) ELSE u
      BY <2>7, <2>10 DEF UnRef
    <3>2. CASE x.refCount # 0
      BY <2>9, <3>1, <3>2
    <3>3. CASE x.refCount = 0 /\ x.nextEvent
      BY <2>9, <3>1, <3>3, ResetRaidKeeps
    <3>4. CASE x.refCount = 0 /\ ~x.nextEvent
      BY <1>2, <2>9, <3>1, <3>4, ResetRaidIs
    <3>. QED
      BY <3>2, <3>3, <3>4
  <2>13. /\ v \in World
         /\ v.events \in {raidEvents, raidEvents \ {RaidEvent(r)}}
         /\ v.raids[r].alive /\ v.raids[r].refCount = x.refCount /\ v.raids[r].lost = x.lost
         /\ \A q \in Raids \ {r} : v.raids[q] = raids[q]
    <3>1. CASE v = u
      BY <2>6, <2>9, <3>1
    <3>2. CASE WasReset(u, r, v)
      BY <2>6, <2>9, <3>2 DEF WasReset
    <3>. QED
      BY <2>12, <3>1, <3>2
  <2>14. RaidsTyped'
    BY <1>2, <1>4, <2>11, <2>13 DEF Hunted, RaidsTyped, World
  <2>15. Aged'
    <3>1. \A q \in Raids : raids'[q].alive = raids[q].alive
      BY <1>6, <2>11, <2>13, <2>14, <2>4 DEF RaidsTyped, RaidObject
    <3>. QED
      BY <1>2, <1>4, <3>1 DEF Hunted, Aged
  <2>16. RefsCountSpawned'
    <3>1. ASSUME NEW q \in Raids, raids'[q].alive
          PROVE  raids'[q].refCount
                   = raids'[q].lost + Cardinality({t \in Spawned : holds'[t] = q})
      <4>1. CASE q # r
        <5>1. raids'[q] = raids[q]
          BY <2>11, <2>13, <4>1
        <5>2. raids[q].refCount = raids[q].lost + Cardinality({t \in Spawned : holds[t] = q})
          BY <3>1, <5>1 DEF Hunted, RefsCountSpawned
        <5>. QED
          BY <1>3, <4>1, <5>1, <5>2
      <4>2. CASE q = r
        <5>1. PICK c \in Nat \ {0} : c = Cardinality({t \in Spawned : holds[t] = r})
          BY <1>3
        <5>2. /\ raids[r].refCount = raids[r].lost + c
              /\ raids[r].lost \in Nat /\ raids[r].refCount \in Nat
          BY <1>2, <1>6, <2>4, <5>1 DEF Hunted, RefsCountSpawned, RaidObject
        <5>3. Cardinality({t \in Spawned : holds'[t] = r}) = c - 1
          BY <1>3, <5>1
        <5>4. raids'[r].refCount = raids[r].refCount - 1 /\ raids'[r].lost = raids[r].lost
          BY <2>6, <2>11, <2>13
        <5>5. raids'[r].refCount = raids'[r].lost + (c - 1)
          BY <5>2, <5>4
        <5>. QED
          BY <4>2, <5>3, <5>5
      <4>. QED
        BY <4>1, <4>2
    <3>. QED
      BY <3>1 DEF RefsCountSpawned
  <2>17. CheckComes'
    <3>1. SUFFICES ASSUME started
                   PROVE  \E e \in raidEvents' \cup ToSet(raidTasks') : e.raid = NoRaid
      BY <1>2 DEF CheckComes
    <3>2. PICK e \in raidEvents \cup ToSet(raidTasks) : e.raid = NoRaid
      BY <1>2, <3>1 DEF Hunted, CheckComes
    <3>3. e # RaidEvent(r)
      BY <1>2, <3>2, RaidEventIs
    <3>. QED
      BY <1>2, <2>11, <2>13, <3>2, <3>3
  <2>18. ASSUME ~heldAtReload' PROVE Orderly'
    <3>1. Ordered
      BY <1>2, <2>18 DEF Ordered
    <3>2. \A q \in Raids : Course(q) /\ q # NoRaid
      BY <3>1, OnlyRunning, RaidEventIs
    <3>3. \A q \in Raids : Passed(q)' <=> Passed(q)
      BY <1>2 DEF Passed
    <3>4. \A q \in Raids \ {r} : Pends(q)' <=> Pends(q)
      BY <1>2, <2>11, <2>13, RaidEventIs DEF Pends
    <3>5. \A q \in Raids \ {r} : running' = q <=> running = q
      <4>1. CASE v = u
        BY <2>9, <2>11, <4>1
      <4>2. CASE WasReset(u, r, v)
        <5>1. v.running \in {u.running, IF u.running = r THEN NoRaid ELSE u.running}
          BY <4>2 DEF WasReset
        <5>. QED
          BY <2>9, <2>11, <3>2, <5>1
      <4>. QED
        BY <2>12, <4>1, <4>2
    <3>6. ASSUME NEW q \in Raids \ {r} PROVE Course(q)'
      <4>1. raids'[q] = raids[q]
        BY <2>11, <2>13
      <4>. QED
        BY <3>2, <3>3, <3>4, <3>5, <4>1 DEF Course
    <3>7. Course(r)'
      <4>1. CASE v = u /\ (x.refCount = 0 => x.nextEvent)
        <5>1. /\ raids'[r] = x /\ running' = running /\ (Pends(r)' <=> Pends(r))
              /\ (Passed(r)' <=> Passed(r))
          BY <1>2, <2>9, <2>11, <3>3, <4>1 DEF Pends
        <5>2. x.refCount > 0 \/ x.nextEvent
          <6>1. PICK n \in Nat \ {0} : n = raids[r].refCount
            BY <2>4
          <6>2. x.refCount = n - 1
            BY <2>6, <6>1
          <6>3. x.refCount = 0 \/ x.refCount > 0
            BY <6>2
          <6>. QED
            BY <4>1, <6>3
        <5>3. Course(r)
          BY <1>2, <3>2
        <5>4. x.nextEvent => r = running /\ (Pends(r) \/ Passed(r))
          BY <1>6, <2>6, <5>3 DEF Course
        <5>5. Pends(r) \/ Passed(r) => x.nextEvent
          BY <1>6, <2>6, <5>3 DEF Course
        <5>6. x.refCount # 0 \/ r = running
          BY <5>2, <5>4
        <5>7. r = running => /\ x.alive
                             /\ Pends(r) \/ Passed(r) \/ (r.type = "block" /\ x.refCount > 0)
          BY <2>6, <5>2, <5>3, <5>4 DEF Course
        <5>. QED
          BY <5>1, <5>3, <5>4, <5>5, <5>6, <5>7 DEF Course
      <4>2. CASE x.refCount = 0 /\ ~x.nextEvent /\ WasReset(u, r, v)
        <5>1. ~Pends(r) /\ ~Passed(r)
          BY <1>2, <1>6, <2>6, <3>2, <4>2 DEF Course
        <5>2. ~Pends(r)' /\ ~Passed(r)'
          BY <1>2, <2>11, <2>13, <3>3, <5>1 DEF Pends
        <5>3. raids'[r].nextEvent = FALSE /\ raids'[r].eventCount = 0
          BY <2>9, <2>11, <4>2 DEF WasReset
        <5>4. running' # r
          <6>1. v.running = IF u.running = r THEN NoRaid ELSE u.running
            BY <2>9, <4>2 DEF WasReset
          <6>. QED
            BY <1>2, <2>11, <3>2, <6>1
        <5>. QED
          BY <5>2, <5>3, <5>4 DEF Course
      <4>. QED
        BY <2>12, <4>1, <4>2
    <3>8. \A t \in Spawned : holds'[t] # NoRaid => raids'[holds'[t]].alive
      <4>1. SUFFICES ASSUME NEW t \in Spawned, holds'[t] # NoRaid
                     PROVE  raids'[holds[t]].alive
        BY <1>4
      <4>2. holds[t] \in Raids /\ raids[holds[t]].alive
        BY <1>4, <3>1, <4>1, OnlyRunning DEF Hunted, RaidsTyped
      <4>. QED
        BY <2>11, <2>13, <4>2
    <3>. QED
      BY <1>2, <2>1, <3>1, <3>6, <3>7, <3>8, OnlyRunning DEF Orderly
  <2>. QED
    BY <2>14, <2>15, <2>16, <2>17, <2>18 DEF Hunted
<1>. QED
  BY <1>5, <1>6

(* Reload: the raids are deleted, and perhaps there are new ones. *)
LEMMA ReloadStep == Hunted /\ Reload => Hunted'
<1>. SUFFICES ASSUME Hunted, Reload PROVE Hunted'
  OBVIOUS
<1>1. /\ raidReloads < MaxRaidReloads /\ raidReloads' = raidReloads + 1
      /\ heldAtReload' = (heldAtReload \/ (\E s \in Spawned : holds[s] # NoRaid)
                                       \/ (\E e \in ToSet(raidTasks) : e.raid # NoRaid))
      /\ UNCHANGED <<raidTasks, holds, misused>>
  BY DEF Reload
<1>. DEFINE kept == {e \in raidEvents : e.raid = NoRaid /\ e.id # checkRaidsEvent}
            gone == [r \in Raids |-> [raids[r] EXCEPT !.alive = FALSE]]
            fresh == [r \in Raids |-> IF r.made = raidReloads' THEN NewRaid ELSE gone[r]]
<1>2. /\ running' = NoRaid
      /\ \/ /\ raids' = gone /\ raidEvents' = kept
            /\ started' = FALSE /\ checkRaidsEvent' = 0
         \/ \E j \in CheckIds : /\ raids' = fresh /\ raidEvents' = kept \cup {CheckEvent(j)}
                                /\ started' = TRUE /\ checkRaidsEvent' = j
  BY DEF Reload, RaidsBecome, Clear
<1>3. /\ raidReloads \in Nat /\ raidReloads' \in 0 .. MaxRaidReloads
      /\ raidReloads < raidReloads'
  BY <1>1, RaidsAssumption DEF Hunted, RaidsTyped
<1>4. /\ NewRaid \in RaidObject /\ NewRaid.refCount = 0 /\ NewRaid.lost = 0
      /\ NewRaid.eventCount = 0 /\ NewRaid.nextEvent = FALSE
  BY RaidsAssumption DEF NewRaid, RaidObject
<1>5. \A r \in Raids : gone[r] \in RaidObject /\ gone[r].alive = FALSE
  BY DEF Hunted, RaidsTyped, RaidObject
<1>6. \A r \in Raids : fresh[r] = IF r.made = raidReloads' THEN NewRaid ELSE gone[r]
  OBVIOUS
<1>7. gone \in [Raids -> RaidObject] /\ fresh \in [Raids -> RaidObject]
  <2>1. \A r \in Raids : fresh[r] \in RaidObject
    BY <1>4, <1>5, <1>6
  <2>2. gone = [r \in Raids |-> gone[r]] /\ fresh = [r \in Raids |-> fresh[r]]
    OBVIOUS
  <2>. HIDE DEF gone, fresh
  <2>. QED
    BY <1>5, <2>1, <2>2
<1>8. kept \subseteq raidEvents /\ \A e \in kept : e.raid = NoRaid
  OBVIOUS
<1>. HIDE DEF gone, fresh, kept
<1>9. raidEvents \subseteq AllRaidEvents
  BY DEF Hunted, RaidsTyped
<1>10. \A r \in Raids : ~Pends(r)'
  BY <1>2, <1>8, RaidEventIs DEF Pends
<1>11. ASSUME NEW r \in Raids, raids'[r].alive
       PROVE  /\ raids'[r] = NewRaid /\ r.made = raidReloads'
  BY <1>2, <1>5, <1>6, <1>11
<1>12. RaidsTyped'
  <2>1. raids' \in [Raids -> RaidObject] /\ checkRaidsEvent' \in CheckIds \cup {0}
    BY <1>2, <1>7
  <2>2. raidEvents' \subseteq AllRaidEvents
    BY <1>2, <1>8, <1>9, RaidEventIs
  <2>. QED
    BY <1>1, <1>2, <1>3, <2>1, <2>2 DEF Hunted, RaidsTyped
<1>13. \A s \in Spawned : holds[s] # NoRaid => /\ holds[s].made \in Nat
                                              /\ holds[s].made <= raidReloads
  BY DEF Hunted, Aged, RaidsTyped, Raids
<1>14. Aged'
  <2>1. \A r \in Raids : raids'[r].alive => r.made <= raidReloads'
    BY <1>3, <1>11
  <2>2. \A s \in Spawned : holds'[s] # NoRaid => holds'[s].made <= raidReloads'
    BY <1>1, <1>3, <1>13
  <2>. QED
    BY <2>1, <2>2 DEF Aged
<1>15. RefsCountSpawned'
  <2>1. ASSUME NEW r \in Raids, raids'[r].alive
        PROVE  raids'[r].refCount
                 = raids'[r].lost + Cardinality({s \in Spawned : holds'[s] = r})
    <3>1. raids'[r] = NewRaid /\ r.made = raidReloads'
      BY <1>11, <2>1
    <3>2. ASSUME NEW s \in Spawned, holds'[s] = r PROVE FALSE
      <4>1. holds[s] = r /\ r # NoRaid
        BY <1>1, <3>2, RaidEventIs
      <4>2. r.made \in Nat /\ r.made <= raidReloads
        BY <1>13, <4>1
      <4>. QED
        BY <1>3, <3>1, <4>2
    <3>3. {s \in Spawned : holds'[s] = r} = {}
      BY <3>2
    <3>4. Cardinality({s \in Spawned : holds'[s] = r}) = 0
      BY <3>3, FS_EmptySet
    <3>. QED
      BY <1>4, <3>1, <3>4
  <2>. QED
    BY <2>1 DEF RefsCountSpawned
<1>16. CheckComes'
  BY <1>2, RaidEventIs DEF CheckComes
<1>17. ASSUME ~heldAtReload' PROVE Orderly'
  <2>1. Ordered /\ \A s \in Spawned : holds[s] = NoRaid
    BY <1>1, <1>17 DEF Ordered
  <2>2. \A r \in Raids : ~Passed(r)'
    BY <1>1, <1>17, RaidEventIs DEF Passed
  <2>3. \A r \in Raids : Course(r)'
    BY <1>2, <1>4, <1>10, <1>11, <2>2, RaidEventIs DEF Course
  <2>. QED
    BY <1>1, <2>1, <2>3, OnlyRunning DEF Orderly
<1>. QED
  BY <1>12, <1>14, <1>15, <1>16, <1>17 DEF Hunted

LEMMA HuntedStep == Hunted /\ [RaidNext]_raidVars => Hunted'
<1>1. Hunted /\ UNCHANGED raidVars => Hunted'
  <2>. SUFFICES ASSUME Hunted, UNCHANGED raidVars PROVE Hunted'
    OBVIOUS
  <2>1. RaidsTyped' /\ Aged' /\ RefsCountSpawned' /\ CheckComes'
    BY DEF Hunted, RaidsTyped, Aged, RefsCountSpawned, CheckComes, raidVars
  <2>2. ~heldAtReload' => Orderly'
    BY DEF Hunted, Orderly, Course, Pends, Passed, raidVars
  <2>. QED
    BY <2>1, <2>2 DEF Hunted
<1>. QED
  BY <1>1, PassStep, RunEventStep, CheckStep, ExecuteStep, ReloadStep, VanishStep DEF RaidNext

(* What the run checks follows. *)
LEMMA HuntedKeeps == Hunted => RaidsKept
<1>. SUFFICES ASSUME Hunted PROVE RaidsKept
  OBVIOUS
<1>1. RaidTypeOK
  BY DEF Hunted, RaidsTyped, RaidObject, RaidTypeOK
<1>2. ASSUME ~heldAtReload, NEW r \in Raids
      PROVE  /\ r \in ComingRaids => Pends(r) \/ Passed(r)
             /\ Pends(r) \/ Passed(r) => r \in ComingRaids
             /\ Course(r)
  <2>1. Course(r)
    BY <1>2, OnlyRunning DEF Ordered
  <2>2. raidEvents \cup ToSet(raidTasks) \subseteq AllRaidEvents
    BY DEF Hunted, RaidsTyped, ToSet
  <2>. QED
    BY <2>1, <2>2, RaidEventIs DEF ComingRaids, Pends, Passed
<1>3. ComingRaids \subseteq Raids
  <2>1. raidEvents \cup ToSet(raidTasks) \subseteq AllRaidEvents
    BY DEF Hunted, RaidsTyped, ToSet
  <2>. QED
    BY <2>1, RaidEventIs DEF ComingRaids
<1>4. RunningGoesOn
  <2>1. ASSUME ~heldAtReload PROVE ComingRaids \subseteq {running}
    BY <1>2, <1>3, <2>1 DEF Course
  <2>2. ASSUME ~heldAtReload, running # NoRaid, running \notin ComingRaids
        PROVE  running.type = "block" /\ raids[running].refCount > 0
    <3>1. running \in Raids
      BY <2>2 DEF Hunted, RaidsTyped
    <3>. QED
      BY <1>2, <2>2, <3>1 DEF Course
  <2>. QED
    BY <2>1, <2>2 DEF RunningGoesOn
<1>5. StartsFromFirst
  BY <1>2 DEF StartsFromFirst, Course
<1>6. UsedIfHeld
  BY OnlyRunning DEF Ordered, UsedIfHeld
<1>. QED
  BY <1>1, <1>4, <1>5, <1>6 DEF RaidsKept, Hunted

(* Raids run one at a time, from their first event to their last; a raid   *)
(* is counted as often as it is held; and a raid that was deleted is used  *)
(* only if it was held, or about to run, when it was.                      *)
THEOREM RaidsAlwaysKept == RaidSpec => []RaidsKept
<1>. QED
  BY HuntedInit, HuntedStep, HuntedKeeps, PTL DEF RaidSpec

-----------------------------------------------------------------------------
(* Waiting.                                                                *)

(* A set of numbers that is not empty has a least one.                     *)
LEMMA Least ==
  ASSUME NEW T \in SUBSET Nat, T # {}
  PROVE  \E x \in T : \A y \in T : x <= y
<1>1. PICK R : IsWellFoundedOn(R, Nat) /\ \A x, y \in Nat : <<y, x>> \in R <=> y < x
  <2>. DEFINE S == OpToRel(<, Nat)
  <2>1. IsWellFoundedOn(S, Nat)
    BY NatLessThanWellFounded
  <2>2. \A x, y \in Nat : <<y, x>> \in S <=> y < x
    BY DEF OpToRel
  <2>. QED
    BY <2>1, <2>2, Zenon
<1>2. T \subseteq Nat
  OBVIOUS
<1>3. PICK x \in T : \A y \in T : ~ (<<y, x>> \in R)
  BY <1>1, <1>2, WFMin
<1>4. \A y \in T : x <= y
  <2>. TAKE y \in T
  <2>1. x \in Nat /\ y \in Nat /\ ~(y < x)
    BY <1>1, <1>2, <1>3
  <2>. QED
    BY <2>1
<1>. QED
  BY <1>4

(* Nobody waits twice, premium characters wait in front, the privileged    *)
(* do not wait.                                                            *)
Tidy(list) ==
  /\ list \in Seq(Wait)
  /\ \A i, j \in 1 .. Len(list) :
       i < j => /\ list[i].name # list[j].name
                /\ list[j].name \in Premium => list[i].name \in Premium
  /\ \A i \in 1 .. Len(list) : list[i].name \notin Privileged

(* The inductive invariant. *)
Lined == Tidy(waitList) /\ IsFiniteSet(online)

(* The k-th entry of Cleaned is the g[k]-th of waitList. *)
Sieves(g) ==
  /\ g \in [1 .. Len(Cleaned) -> 1 .. Len(waitList)]
  /\ \A k \in 1 .. Len(Cleaned) : Cleaned[k] = waitList[g[k]] /\ ~waitList[g[k]].late
  /\ \A k, l \in 1 .. Len(Cleaned) : k < l => g[k] < g[l]
  /\ \A i \in 1 .. Len(waitList) : ~waitList[i].late => \E k \in 1 .. Len(Cleaned) : g[k] = i

LEMMA CleanedIs ==
  ASSUME waitList \in Seq(Wait)
  PROVE  Cleaned \in Seq(Wait) /\ Len(Cleaned) \in Nat /\ \E g : Sieves(g)
<1>. DEFINE L == Len(waitList)
            kept == {i \in 1 .. L : ~waitList[i].late}
            upto(i) == {j \in kept : j <= i}
            N == Cardinality(kept)
            rank == [i \in kept |-> Cardinality(upto(i))]
            nth(k) == CHOOSE i \in kept : Cardinality(upto(i)) = k
            g == [k \in 1 .. N |-> nth(k)]
<1>1. L \in Nat /\ DOMAIN waitList = 1 .. L /\ \A i \in 1 .. L : waitList[i] \in Wait
  OBVIOUS
<1>2. IsFiniteSet(kept) /\ N \in Nat
  <2>1. IsFiniteSet(1 .. L)
    BY <1>1, FS_Interval
  <2>2. IsFiniteSet(kept)
    BY <2>1, FS_Subset
  <2>. QED
    BY <2>2, FS_CardinalityType
<1>3. Cleaned = [k \in 1 .. N |-> waitList[nth(k)]]
  BY <1>1 DEF Cleaned
<1>. HIDE DEF L, N
<1>4. ASSUME NEW i \in kept
      PROVE  /\ IsFiniteSet(upto(i)) /\ Cardinality(upto(i)) \in 1 .. N
             /\ \A j \in kept : j < i => Cardinality(upto(j)) < Cardinality(upto(i))
  <2>1. upto(i) \subseteq kept /\ i \in upto(i)
    BY <1>1
  <2>2. IsFiniteSet(upto(i)) /\ Cardinality(upto(i)) <= N
    BY <1>2, <2>1, FS_Subset DEF N
  <2>3. Cardinality(upto(i)) \in Nat
    BY <2>2, FS_CardinalityType
  <2>4. Cardinality(upto(i)) # 0
    BY <2>1, <2>2, FS_EmptySet
  <2>5. ASSUME NEW j \in kept, j < i
        PROVE  Cardinality(upto(j)) < Cardinality(upto(i))
    <3>1. upto(j) \subseteq upto(i) /\ i \notin upto(j)
      BY <1>1, <2>5
    <3>2. upto(j) # upto(i)
      BY <2>1, <3>1
    <3>3. IsFiniteSet(upto(j)) /\ Cardinality(upto(j)) <= Cardinality(upto(i))
          /\ Cardinality(upto(j)) # Cardinality(upto(i))
      <4>. HIDE DEF upto
      <4>. QED
        BY <2>2, <3>1, <3>2, FS_Subset
    <3>4. Cardinality(upto(j)) \in Nat
      BY <3>3, FS_CardinalityType
    <3>. QED
      BY <2>3, <3>3, <3>4
  <2>6. Cardinality(upto(i)) \in 1 .. N
    BY <1>2, <2>2, <2>3, <2>4
  <2>. QED
    BY <2>2, <2>5, <2>6
<1>. HIDE DEF upto
<1>5. rank \in Injection(kept, 1 .. N)
  <2>1. rank \in [kept -> 1 .. N]
    BY <1>4
  <2>2. ASSUME NEW i \in kept, NEW j \in kept, rank[i] = rank[j]
        PROVE  i = j
    <3>1. i \in Nat /\ j \in Nat
      BY <1>1
    <3>2. Cardinality(upto(i)) = Cardinality(upto(j))
      BY <2>2
    <3>3. Cardinality(upto(i)) \in Nat
      BY <1>2, <1>4
    <3>4. ~(i < j) /\ ~(j < i)
      BY <1>4, <3>2, <3>3
    <3>. QED
      BY <3>1, <3>4
  <2>. QED
    BY <2>1, <2>2 DEF Injection, IsInjective
<1>6. rank \in Surjection(kept, 1 .. N)
  <2>1. 1 \in Int /\ N \in Int
    BY <1>2
  <2>2. IsFiniteSet(1 .. N) /\ Cardinality(1 .. N) = IF 1 > N THEN 0 ELSE N - 1 + 1
    BY <2>1, FS_Interval
  <2>3. Cardinality(1 .. N) = Cardinality(kept)
    BY <1>2, <2>2 DEF N
  <2>. HIDE DEF rank, kept
  <2>. QED
    BY <1>5, <2>2, <2>3, FS_Injection
<1>7. ASSUME NEW k \in 1 .. N
      PROVE  nth(k) \in kept /\ Cardinality(upto(nth(k))) = k
  <2>1. PICK i \in kept : rank[i] = k
    BY <1>6 DEF Surjection
  <2>2. \E j \in kept : Cardinality(upto(j)) = k
    BY <2>1
  <2>. HIDE DEF kept
  <2>. QED
    BY <2>2
<1>. HIDE DEF nth
<1>8. Len(Cleaned) = N /\ Cleaned \in Seq(Wait)
  <2>1. \A k \in 1 .. N : waitList[nth(k)] \in Wait
    BY <1>1, <1>7
  <2>. QED
    BY <1>2, <1>3, <2>1
<1>9. \A k \in 1 .. N : Cleaned[k] = waitList[g[k]] /\ ~waitList[g[k]].late /\ g[k] \in 1 .. L
  BY <1>3, <1>7
<1>10. ASSUME NEW k \in 1 .. N, NEW l \in 1 .. N, k < l
       PROVE  g[k] < g[l]
  <2>1. nth(k) \in kept /\ nth(l) \in kept /\ nth(k) \in Nat /\ nth(l) \in Nat
        /\ Cardinality(upto(nth(k))) = k /\ Cardinality(upto(nth(l))) = l
    BY <1>1, <1>7
  <2>2. ~(nth(l) < nth(k)) /\ nth(l) # nth(k)
    <3>1. nth(l) < nth(k) => l < k
      BY <1>4, <2>1
    <3>. QED
      BY <1>2, <1>10, <2>1, <3>1
  <2>. QED
    BY <2>1, <2>2
<1>11. ASSUME NEW i \in 1 .. L, ~waitList[i].late
       PROVE  \E k \in 1 .. N : g[k] = i
  <2>1. i \in kept /\ rank[i] \in 1 .. N
    BY <1>4, <1>11
  <2>2. nth(rank[i]) \in kept /\ rank[nth(rank[i])] = rank[i]
    BY <1>7, <2>1
  <2>3. nth(rank[i]) = i
    <3>. HIDE DEF rank, kept
    <3>. QED
      BY <1>5, <2>1, <2>2 DEF Injection, IsInjective
  <2>. QED
    BY <2>1, <2>3
<1>12. g \in [1 .. N -> 1 .. L]
  BY <1>7
<1>. HIDE DEF g
<1>13. Sieves(g)
  BY <1>8, <1>9, <1>10, <1>11, <1>12 DEF Sieves, L
<1>. QED
  BY <1>2, <1>8, <1>13

LEMMA SlotIs ==
  ASSUME NEW list \in Seq(Wait), NEW n
  PROVE  LET s == SlotOf(list, n) IN
         /\ s = 0 => \A i \in 1 .. Len(list) : list[i].name # n
         /\ s # 0 => s \in 1 .. Len(list) /\ list[s].name = n
<1>. DEFINE I == {i \in 1 .. Len(list) : list[i].name = n}
            s == SlotOf(list, n)
<1>1. s = IF I # {} THEN Min(I) ELSE 0
  BY DEF SlotOf, SelectInSeq
<1>2. CASE I = {}
  BY <1>1, <1>2
<1>3. CASE I # {}
  <2>1. \E x \in I : \A y \in I : x <= y
    <3>1. I \in SUBSET Nat
      OBVIOUS
    <3>. HIDE DEF I
    <3>. QED
      BY <1>3, <3>1, Least
  <2>2. Min(I) \in I
    BY <2>1 DEF Min
  <2>. QED
    BY <1>1, <1>3, <2>2
<1>. QED
  BY <1>2, <1>3

LEMMA TidySlot ==
  ASSUME NEW list, Tidy(list), NEW i \in 1 .. Len(list)
  PROVE  SlotOf(list, list[i].name) = i
<1>. DEFINE s == SlotOf(list, list[i].name)
<1>1. list \in Seq(Wait)
  BY DEF Tidy
<1>2. s \in 1 .. Len(list) /\ list[s].name = list[i].name
  BY <1>1, SlotIs
<1>. HIDE DEF s
<1>3. ~(s < i) /\ ~(i < s)
  BY <1>2 DEF Tidy
<1>4. s = i
  BY <1>2, <1>3
<1>. QED
  BY <1>4 DEF s

LEMMA CleanedTidy ==
  ASSUME Tidy(waitList)
  PROVE  Tidy(Cleaned)
<1>1. waitList \in Seq(Wait)
  BY DEF Tidy
<1>2. Cleaned \in Seq(Wait) /\ Len(Cleaned) \in Nat
  BY <1>1, CleanedIs
<1>3. PICK g : Sieves(g)
  BY <1>1, CleanedIs
<1>4. ASSUME NEW k \in 1 .. Len(Cleaned)
      PROVE  g[k] \in 1 .. Len(waitList) /\ Cleaned[k] = waitList[g[k]]
  BY <1>3 DEF Sieves
<1>5. ASSUME NEW k \in 1 .. Len(Cleaned), NEW l \in 1 .. Len(Cleaned), k < l
      PROVE  /\ Cleaned[k].name # Cleaned[l].name
             /\ Cleaned[l].name \in Premium => Cleaned[k].name \in Premium
  <2>1. g[k] < g[l]
    BY <1>3, <1>5 DEF Sieves
  <2>. QED
    BY <1>4, <2>1 DEF Tidy
<1>6. ASSUME NEW k \in 1 .. Len(Cleaned)
      PROVE  Cleaned[k].name \notin Privileged
  BY <1>4 DEF Tidy
<1>. QED
  BY <1>2, <1>5, <1>6 DEF Tidy

LEMMA TakeOut ==
  ASSUME NEW list, Tidy(list), NEW k \in 1 .. Len(list)
  PROVE  LET r == RemoveAt(list, k) IN
         /\ Tidy(r)
         /\ \A i \in 1 .. Len(r) : \E j \in 1 .. Len(list) : r[i] = list[j]
<1>. DEFINE a == SubSeq(list, 1, k - 1)
            b == SubSeq(list, k + 1, Len(list))
            r == RemoveAt(list, k)
            at(i) == IF i < k THEN i ELSE i + 1
<1>0. list \in Seq(Wait) /\ Len(list) \in Nat /\ k \in Nat
  BY DEF Tidy
<1>1. a \in Seq(Wait) /\ Len(a) = k - 1 /\ \A i \in 1 .. k - 1 : a[i] = list[i]
  BY <1>0
<1>2. /\ b \in Seq(Wait) /\ Len(b) = Len(list) - k
      /\ \A i \in 1 .. Len(list) - k : b[i] = list[i + k]
  BY <1>0
<1>3. r = a \o b
  BY DEF RemoveAt
<1>. HIDE DEF a, b, r
<1>4. r \in Seq(Wait) /\ Len(r) = Len(list) - 1
  <2>1. \A c, d \in Seq(Wait) : c \o d \in Seq(Wait) /\ Len(c \o d) = Len(c) + Len(d)
    OBVIOUS
  <2>2. r \in Seq(Wait) /\ Len(r) = Len(a) + Len(b)
    BY <1>1, <1>2, <1>3, <2>1
  <2>. QED
    BY <1>0, <1>1, <1>2, <2>2
<1>5. ASSUME NEW i \in 1 .. Len(r)
      PROVE  r[i] = list[at(i)] /\ at(i) \in 1 .. Len(list)
  <2>1. \A c, d \in Seq(Wait) : \A n \in 1 .. Len(c) + Len(d) :
          (c \o d)[n] = IF n <= Len(c) THEN c[n] ELSE d[n - Len(c)]
    OBVIOUS
  <2>2. i \in 1 .. Len(a) + Len(b)
    BY <1>0, <1>1, <1>2, <1>4
  <2>3. r[i] = IF i <= Len(a) THEN a[i] ELSE b[i - Len(a)]
    BY <1>1, <1>2, <1>3, <2>1, <2>2
  <2>4. CASE i < k
    <3>1. i <= Len(a) /\ i \in 1 .. k - 1
      BY <1>0, <1>1, <2>4
    <3>2. r[i] = list[i]
      BY <1>1, <2>3, <3>1
    <3>. QED
      BY <1>0, <1>4, <2>4, <3>2
  <2>5. CASE ~(i < k)
    <3>1. ~(i <= Len(a)) /\ i - Len(a) \in 1 .. Len(list) - k /\ i - Len(a) + k = i + 1
      BY <1>0, <1>1, <1>4, <2>5
    <3>2. r[i] = list[i + 1]
      BY <1>2, <2>3, <3>1
    <3>. QED
      BY <1>0, <1>4, <2>5, <3>2
  <2>. QED
    BY <2>4, <2>5
<1>6. ASSUME NEW i \in 1 .. Len(r), NEW j \in 1 .. Len(r), i < j
      PROVE  at(i) < at(j)
  BY <1>0, <1>6
<1>. HIDE DEF at
<1>7. Tidy(r)
  <2>1. ASSUME NEW i \in 1 .. Len(r), NEW j \in 1 .. Len(r), i < j
        PROVE  r[i].name # r[j].name /\ (r[j].name \in Premium => r[i].name \in Premium)
    <3>1. at(i) < at(j)
      BY <1>6, <2>1
    <3>. QED
      BY <1>5, <3>1 DEF Tidy
  <2>2. ASSUME NEW i \in 1 .. Len(r)
        PROVE  r[i].name \notin Privileged
    BY <1>5 DEF Tidy
  <2>. QED
    BY <1>4, <2>1, <2>2 DEF Tidy
<1>8. \A i \in 1 .. Len(r) : \E j \in 1 .. Len(list) : r[i] = list[j]
  BY <1>5
<1>. QED
  BY <1>7, <1>8 DEF r

(* Where n is put in: premium characters in front of all others.           *)
LEMMA PlaceIs ==
  ASSUME NEW list, Tidy(list), NEW n \in Names
  PROVE  LET k == InsertSlot(list, n) IN
         /\ k \in 1 .. Len(list) + 1
         /\ \A i \in 1 .. Len(list) :
              /\ i < k => (n \in Premium => list[i].name \in Premium)
              /\ i >= k => n \in Premium /\ list[i].name \notin Premium
<1>. DEFINE I == {i \in 1 .. Len(list) : list[i].name \notin Premium}
            behind == SelectInSeq(list, LAMBDA w : w.name \notin Premium)
            k == InsertSlot(list, n)
<1>0. list \in Seq(Wait) /\ Len(list) \in Nat
  BY DEF Tidy
<1>1. behind = IF I # {} THEN Min(I) ELSE 0
  BY DEF SelectInSeq
<1>2. k = IF n \in Premium THEN IF behind = 0 THEN Len(list) + 1 ELSE behind ELSE Len(list) + 1
  BY DEF InsertSlot
<1>. HIDE DEF behind, k
<1>3. CASE n \notin Premium \/ I = {}
  <2>1. k = Len(list) + 1
    BY <1>1, <1>2, <1>3
  <2>2. \A i \in 1 .. Len(list) : n \in Premium => list[i].name \in Premium
    BY <1>3
  <2>3. ASSUME k \in 1 .. Len(list) + 1,
               \A i \in 1 .. Len(list) :
                 /\ i < k => (n \in Premium => list[i].name \in Premium)
                 /\ i >= k => n \in Premium /\ list[i].name \notin Premium
        PROVE  LET h == InsertSlot(list, n) IN
               /\ h \in 1 .. Len(list) + 1
               /\ \A i \in 1 .. Len(list) :
                    /\ i < h => (n \in Premium => list[i].name \in Premium)
                    /\ i >= h => n \in Premium /\ list[i].name \notin Premium
    BY <2>3 DEF k
  <2>4. k \in 1 .. Len(list) + 1 /\ \A i \in 1 .. Len(list) : ~(i >= k)
    BY <1>0, <2>1
  <2>. QED
    BY <2>2, <2>3, <2>4
<1>4. CASE n \in Premium /\ I # {}
  <2>1. \E x \in I : \A y \in I : x <= y
    <3>1. I \in SUBSET Nat
      OBVIOUS
    <3>. HIDE DEF I
    <3>. QED
      BY <1>4, <3>1, Least
  <2>2. Min(I) \in I /\ \A y \in I : Min(I) <= y
    <3>. HIDE DEF I
    <3>. QED
      BY <2>1 DEF Min
  <2>3. k = Min(I) /\ k \in 1 .. Len(list) /\ list[k].name \notin Premium
    BY <1>0, <1>1, <1>2, <1>4, <2>2
  <2>4. ASSUME NEW i \in 1 .. Len(list), i < k
        PROVE  list[i].name \in Premium
    BY <1>0, <2>2, <2>3, <2>4
  <2>5. ASSUME NEW i \in 1 .. Len(list), i >= k
        PROVE  list[i].name \notin Premium
    <3>1. i = k \/ k < i
      BY <1>0, <2>3, <2>5
    <3>. QED
      BY <2>3, <3>1 DEF Tidy
  <2>6. k \in 1 .. Len(list) + 1
    BY <1>0, <2>3
  <2>. QED
    BY <1>4, <2>4, <2>5, <2>6 DEF k
<1>. QED
  BY <1>3, <1>4

(* list with e put in at k. *)
PutAt(r, list, k, e) ==
  /\ r \in Seq(Wait)
  /\ Len(r) = Len(list) + 1
  /\ \A i \in 1 .. Len(r) :
       r[i] = IF i < k THEN list[i] ELSE IF i = k THEN e ELSE list[i - 1]

LEMMA InsertAtIs ==
  ASSUME NEW list \in Seq(Wait), NEW k \in 1 .. Len(list) + 1, NEW e \in Wait
  PROVE  PutAt(InsertAt(list, k, e), list, k, e)
<1>. DEFINE a == SubSeq(list, 1, k - 1)
            c == <<e>>
            b == SubSeq(list, k, Len(list))
            r == InsertAt(list, k, e)
<1>0. Len(list) \in Nat /\ k \in Nat /\ k <= Len(list) + 1 /\ 1 <= k
  OBVIOUS
<1>1. a \in Seq(Wait) /\ Len(a) = k - 1 /\ \A i \in 1 .. k - 1 : a[i] = list[i]
  BY <1>0
<1>2. /\ b \in Seq(Wait) /\ Len(b) = Len(list) - k + 1
      /\ \A i \in 1 .. Len(list) - k + 1 : b[i] = list[i + k - 1]
  BY <1>0
<1>3. c \in Seq(Wait) /\ Len(c) = 1 /\ c[1] = e
  OBVIOUS
<1>4. r = (a \o c) \o b
  BY DEF InsertAt
<1>. HIDE DEF a, b, c, r
<1>5. \A x, y \in Seq(Wait) : x \o y \in Seq(Wait) /\ Len(x \o y) = Len(x) + Len(y)
  OBVIOUS
<1>6. \A x, y \in Seq(Wait) : \A i \in 1 .. Len(x) + Len(y) :
        (x \o y)[i] = IF i <= Len(x) THEN x[i] ELSE y[i - Len(x)]
  OBVIOUS
<1>. DEFINE d == a \o c
<1>7. d \in Seq(Wait) /\ Len(d) = k
  <2>1. d \in Seq(Wait) /\ Len(d) = Len(a) + Len(c)
    BY <1>1, <1>3, <1>5
  <2>. QED
    BY <1>0, <1>1, <1>3, <2>1
<1>8. ASSUME NEW i \in 1 .. k
      PROVE  d[i] = IF i < k THEN list[i] ELSE e
  <2>1. i \in 1 .. Len(a) + Len(c)
    BY <1>0, <1>1, <1>3
  <2>2. d[i] = IF i <= Len(a) THEN a[i] ELSE c[i - Len(a)]
    BY <1>1, <1>3, <1>6, <2>1
  <2>3. CASE i < k
    BY <1>0, <1>1, <2>2, <2>3
  <2>4. CASE ~(i < k)
    <3>1. i = k /\ ~(i <= Len(a)) /\ i - Len(a) = 1
      BY <1>0, <1>1, <2>4
    <3>. QED
      BY <1>3, <2>2, <2>4, <3>1
  <2>. QED
    BY <2>3, <2>4
<1>9. r = d \o b
  BY <1>4
<1>. HIDE DEF d
<1>10. r \in Seq(Wait) /\ Len(r) = Len(list) + 1
  <2>1. r \in Seq(Wait) /\ Len(r) = Len(d) + Len(b)
    BY <1>2, <1>5, <1>7, <1>9
  <2>. QED
    BY <1>0, <1>2, <1>7, <2>1
<1>11. ASSUME NEW i \in 1 .. Len(r)
       PROVE  r[i] = IF i < k THEN list[i] ELSE IF i = k THEN e ELSE list[i - 1]
  <2>1. i \in 1 .. Len(d) + Len(b)
    BY <1>0, <1>2, <1>7, <1>10
  <2>2. r[i] = IF i <= Len(d) THEN d[i] ELSE b[i - Len(d)]
    BY <1>2, <1>6, <1>7, <1>9, <2>1
  <2>3. CASE i <= k
    <3>1. i \in 1 .. k /\ i <= Len(d)
      BY <1>0, <1>7, <1>10, <2>3
    <3>2. r[i] = d[i]
      BY <2>2, <3>1
    <3>3. i < k \/ i = k
      BY <1>0, <3>1
    <3>. QED
      BY <1>8, <3>1, <3>2, <3>3
  <2>4. CASE ~(i <= k)
    <3>1. ~(i <= Len(d)) /\ i - Len(d) \in 1 .. Len(list) - k + 1
          /\ (i - Len(d)) + k - 1 = i - 1 /\ ~(i < k) /\ i # k
      BY <1>0, <1>7, <1>10, <2>4
    <3>2. r[i] = b[i - Len(d)]
      BY <2>2, <3>1
    <3>3. b[i - Len(d)] = list[(i - Len(d)) + k - 1]
      BY <1>2, <3>1
    <3>. QED
      BY <3>1, <3>2, <3>3
  <2>. QED
    BY <2>3, <2>4
<1>12. PutAt(r, list, k, e)
  BY <1>10, <1>11 DEF PutAt
<1>. QED
  BY <1>12 DEF r

(* The list once n, who does not wait yet, is put in.                      *)
LEMMA PutIn ==
  ASSUME NEW list, Tidy(list), NEW n \in Names, n \notin Privileged,
         SlotOf(list, n) = 0
  PROVE  LET e == [name |-> n, late |-> FALSE]
             k == InsertSlot(list, n)
             r == InsertAt(list, k, e)
         IN  k \in 1 .. Len(list) + 1 /\ PutAt(r, list, k, e) /\ Tidy(r)
<1>. DEFINE e == [name |-> n, late |-> FALSE]
            k == InsertSlot(list, n)
            r == InsertAt(list, k, e)
            old(i) == IF i < k THEN i ELSE i - 1
<1>0. list \in Seq(Wait) /\ Len(list) \in Nat
  BY DEF Tidy
<1>1. \A i \in 1 .. Len(list) : list[i].name # n
  BY <1>0, SlotIs
<1>2. k \in 1 .. Len(list) + 1
  BY PlaceIs
<1>3. \A i \in 1 .. Len(list) :
        /\ i < k => (n \in Premium => list[i].name \in Premium)
        /\ i >= k => n \in Premium /\ list[i].name \notin Premium
  BY PlaceIs
<1>4. e \in Wait /\ e.name = n
  BY DEF Wait
<1>. HIDE DEF e, k
<1>5. PutAt(r, list, k, e)
  BY <1>0, <1>2, <1>4, InsertAtIs
<1>. HIDE DEF r
<1>6. r \in Seq(Wait) /\ Len(r) = Len(list) + 1 /\ r[k].name = n
  <2>1. r \in Seq(Wait) /\ Len(r) = Len(list) + 1
    BY <1>5 DEF PutAt
  <2>2. k \in 1 .. Len(r) /\ ~(k < k)
    BY <1>0, <1>2, <2>1
  <2>3. r[k] = e
    BY <1>5, <2>2 DEF PutAt
  <2>. QED
    BY <1>4, <2>1, <2>3
<1>7. ASSUME NEW i \in 1 .. Len(r), i # k
      PROVE  r[i] = list[old(i)] /\ old(i) \in 1 .. Len(list)
             /\ (i < k <=> old(i) < k)
  <2>1. r[i] = list[old(i)]
    BY <1>5, <1>7 DEF PutAt
  <2>. QED
    BY <1>0, <1>2, <1>6, <1>7, <2>1
<1>8. ASSUME NEW i \in 1 .. Len(r), NEW j \in 1 .. Len(r), i < j, i # k, j # k
      PROVE  old(i) < old(j)
  BY <1>0, <1>2, <1>8
<1>. HIDE DEF old
<1>9. ASSUME NEW i \in 1 .. Len(r), NEW j \in 1 .. Len(r), i < j
      PROVE  r[i].name # r[j].name /\ (r[j].name \in Premium => r[i].name \in Premium)
  <2>1. CASE i = k
    <3>1. j # k /\ ~(j < k)
      BY <1>0, <1>2, <1>9, <2>1
    <3>2. r[j] = list[old(j)] /\ old(j) \in 1 .. Len(list) /\ ~(old(j) < k)
      BY <1>7, <3>1
    <3>3. old(j) >= k
      BY <1>2, <3>2
    <3>. QED
      BY <1>1, <1>3, <1>6, <2>1, <3>2, <3>3
  <2>2. CASE j = k
    <3>1. i # k /\ i < k
      BY <1>0, <1>2, <1>9, <2>2
    <3>2. r[i] = list[old(i)] /\ old(i) \in 1 .. Len(list) /\ old(i) < k
      BY <1>7, <3>1
    <3>. QED
      BY <1>1, <1>3, <1>6, <2>2, <3>2
  <2>3. CASE i # k /\ j # k
    <3>1. old(i) < old(j)
      BY <1>8, <1>9, <2>3
    <3>. QED
      BY <1>7, <2>3, <3>1 DEF Tidy
  <2>. QED
    BY <2>1, <2>2, <2>3
<1>10. ASSUME NEW i \in 1 .. Len(r)
       PROVE  r[i].name \notin Privileged
  BY <1>6, <1>7 DEF Tidy
<1>11. Tidy(r)
  BY <1>6, <1>9, <1>10 DEF Tidy
<1>. QED
  BY <1>2, <1>5, <1>11 DEF r, k, e

(* The names of list are among those of waitList.                          *)
NoNew(list) ==
  \A i \in 1 .. Len(list) : \E j \in 1 .. Len(waitList) : list[i].name = waitList[j].name

(* What a login makes of the list: nobody new, or n, who did not wait or   *)
(* was late, in his place.                                                 *)
LEMMA LoginIs ==
  ASSUME Tidy(waitList), NEW n \in Names, NEW c
  PROVE  LET r == ListAfterLogin(n, c)
             k == InsertSlot(Cleaned, n)
         IN  /\ Tidy(r)
             /\ \/ NoNew(r)
                \/ PutAt(r, Cleaned, k, [name |-> n, late |-> FALSE])
<1>. DEFINE list == Cleaned
            slot == SlotOf(list, n)
            k == InsertSlot(list, n)
            e == [name |-> n, late |-> FALSE]
            r == ListAfterLogin(n, c)
<1>0. waitList \in Seq(Wait)
  BY DEF Tidy
<1>1. Tidy(list)
  BY CleanedTidy
<1>2. NoNew(list)
  <2>1. PICK g : Sieves(g)
    BY <1>0, CleanedIs
  <2>2. \A i \in 1 .. Len(list) : g[i] \in 1 .. Len(waitList) /\ list[i] = waitList[g[i]]
    BY <2>1 DEF Sieves
  <2>. QED
    BY <2>2 DEF NoNew
<1>3. r = IF Bypasses(n, c) THEN waitList
          ELSE IF slot = 0 THEN InsertAt(list, k, e)
          ELSE IF HasRoom(c, slot) THEN RemoveAt(list, slot)
          ELSE list
  BY DEF ListAfterLogin
<1>. HIDE DEF list
<1>4. slot # 0 => slot \in 1 .. Len(list)
  <2>1. list \in Seq(Wait)
    BY <1>1 DEF Tidy
  <2>. QED
    BY <2>1, SlotIs
<1>. HIDE DEF r
<1>5. CASE Bypasses(n, c)
  <2>1. r = waitList
    BY <1>3, <1>5
  <2>2. NoNew(waitList)
    BY DEF NoNew
  <2>. QED
    BY <2>1, <2>2 DEF r
<1>6. CASE ~Bypasses(n, c) /\ slot = 0
  <2>1. r = InsertAt(list, k, e)
    BY <1>3, <1>6
  <2>2. n \notin Privileged
    BY <1>6 DEF Bypasses
  <2>3. PutAt(r, list, k, e) /\ Tidy(r)
    BY <1>1, <1>6, <2>1, <2>2, PutIn
  <2>. QED
    BY <2>3 DEF r, list
<1>7. CASE ~Bypasses(n, c) /\ slot # 0 /\ HasRoom(c, slot)
  <2>1. r = RemoveAt(list, slot)
    BY <1>3, <1>7
  <2>2. slot \in 1 .. Len(list)
    BY <1>4, <1>7
  <2>. HIDE DEF slot
  <2>3. Tidy(r) /\ \A i \in 1 .. Len(r) : \E j \in 1 .. Len(list) : r[i] = list[j]
    BY <1>1, <2>1, <2>2, TakeOut
  <2>4. NoNew(r)
    <3>1. ASSUME NEW i \in 1 .. Len(r)
          PROVE  \E j \in 1 .. Len(waitList) : r[i].name = waitList[j].name
      <4>1. PICK h \in 1 .. Len(list) : r[i] = list[h]
        BY <2>3
      <4>. QED
        BY <1>2, <4>1 DEF NoNew
    <3>. QED
      BY <3>1 DEF NoNew
  <2>. QED
    BY <2>3, <2>4 DEF r
<1>8. CASE ~Bypasses(n, c) /\ slot # 0 /\ ~HasRoom(c, slot)
  <2>1. r = list
    BY <1>3, <1>8
  <2>. QED
    BY <1>1, <1>2, <2>1 DEF r
<1>. QED
  BY <1>5, <1>6, <1>7, <1>8

LEMMA TimeOutIs ==
  ASSUME Tidy(waitList), NEW i \in 1 .. Len(waitList), TimeOut(i)
  PROVE  Tidy(waitList') /\ NoNew(waitList')
<1>. DEFINE w == waitList[i]
            u == [w EXCEPT !.late = TRUE]
<1>0. waitList \in Seq(Wait) /\ w \in Wait
  BY DEF Tidy
<1>1. u \in Wait /\ u.name = w.name
  BY <1>0 DEF Wait
<1>2. waitList' = [waitList EXCEPT ![i] = u]
  BY DEF TimeOut
<1>. HIDE DEF u
<1>3. waitList' \in Seq(Wait) /\ Len(waitList') = Len(waitList)
  BY <1>0, <1>1, <1>2
<1>4. ASSUME NEW j \in 1 .. Len(waitList)
      PROVE  waitList'[j].name = waitList[j].name
  <2>1. waitList'[j] = IF j = i THEN u ELSE waitList[j]
    BY <1>0, <1>2
  <2>. QED
    BY <1>1, <2>1
<1>5. Tidy(waitList')
  <2>1. ASSUME NEW j \in 1 .. Len(waitList), NEW l \in 1 .. Len(waitList), j < l
        PROVE  /\ waitList'[j].name # waitList'[l].name
               /\ waitList'[l].name \in Premium => waitList'[j].name \in Premium
    BY <1>4, <2>1 DEF Tidy
  <2>2. ASSUME NEW j \in 1 .. Len(waitList)
        PROVE  waitList'[j].name \notin Privileged
    BY <1>4 DEF Tidy
  <2>. QED
    BY <1>3, <2>1, <2>2 DEF Tidy
<1>6. NoNew(waitList')
  BY <1>3, <1>4 DEF NoNew
<1>. QED
  BY <1>5, <1>6

LEMMA LinedInit ==
  Init => Lined
<1>. SUFFICES ASSUME Init
              PROVE  Lined
  OBVIOUS
<1>1. waitList = <<>> /\ online = {}
  BY DEF Init
<1>2. Len(waitList) = 0 /\ waitList \in Seq(Wait)
  BY <1>1
<1>3. IsFiniteSet(online)
  BY <1>1, FS_EmptySet
<1>. QED
  BY <1>2, <1>3 DEF Lined, Tidy

LEMMA LinedNext ==
  Lined /\ [Next]_vars => Lined'
<1>. SUFFICES ASSUME Lined, [Next]_vars
              PROVE  Tidy(waitList') /\ IsFiniteSet(online')
  BY DEF Lined, Tidy
<1>0. Tidy(waitList) /\ IsFiniteSet(online)
  BY DEF Lined
<1>1. ASSUME NEW n \in Names, Try(n)
      PROVE  Tidy(waitList') /\ IsFiniteSet(online')
  <2>1. waitList' = ListAfterLogin(n, Cardinality(online))
        /\ (online' = online \cup {n} \/ online' = online)
    BY <1>1 DEF Try
  <2>2. Tidy(waitList')
    BY <1>0, <2>1, LoginIs
  <2>3. IsFiniteSet(online \cup {n})
    BY <1>0, FS_AddElement
  <2>. QED
    BY <1>0, <2>1, <2>2, <2>3
<1>2. ASSUME NEW n \in Names, Leave(n)
      PROVE  Tidy(waitList') /\ IsFiniteSet(online')
  BY <1>0, <1>2, FS_RemoveElement DEF Leave
<1>3. CASE WaitTooLong
  BY <1>0, <1>3, TimeOutIs DEF WaitTooLong
<1>4. CASE UNCHANGED vars
  BY <1>0, <1>4 DEF vars
<1>. QED
  BY <1>1, <1>2, <1>3, <1>4 DEF Next

(* A new entry in front of another.                                        *)
LEMMA TurnStep ==
  ASSUME Tidy(waitList), [Next]_vars, Tidy(waitList'),
         NEW m \in Names, NEW n \in Names,
         Waits(n), SlotOf(waitList', n) # 0, ~Waits(m), SlotOf(waitList', m) # 0,
         SlotOf(waitList', m) < SlotOf(waitList', n)
  PROVE  m \in Premium /\ n \notin Premium
<1>. DEFINE r == waitList'
            a == SlotOf(r, m)
            b == SlotOf(r, n)
<1>0. waitList \in Seq(Wait) /\ r \in Seq(Wait)
  BY DEF Tidy
<1>1. a \in 1 .. Len(r) /\ r[a].name = m
  BY <1>0, SlotIs
<1>2. b \in 1 .. Len(r) /\ r[b].name = n
  BY <1>0, SlotIs
<1>3. \A i \in 1 .. Len(waitList) : waitList[i].name # m
  <2>1. SlotOf(waitList, m) = 0
    BY DEF Waits
  <2>. QED
    BY <1>0, <2>1, SlotIs
<1>4. a < b
  OBVIOUS
<1>. HIDE DEF a, b
<1>5. ~NoNew(r)
  BY <1>1, <1>3 DEF NoNew
<1>6. waitList' # waitList
  BY <1>5 DEF NoNew
<1>7. PICK x \in Names : Try(x)
  <2>1. ~(\E i \in 1 .. Len(waitList) : TimeOut(i))
    BY <1>5, TimeOutIs
  <2>. QED
    BY <1>6, <2>1 DEF Next, Leave, WaitTooLong, vars
<1>. DEFINE list == Cleaned
            k == InsertSlot(list, x)
            e == [name |-> x, late |-> FALSE]
<1>8. PutAt(r, list, k, e)
  BY <1>5, <1>7, LoginIs DEF Try
<1>9. Tidy(list)
  BY CleanedTidy
<1>10. /\ k \in 1 .. Len(list) + 1 /\ Len(list) \in Nat
       /\ \A i \in 1 .. Len(list) : i >= k => x \in Premium /\ list[i].name \notin Premium
  <2>1. Len(list) \in Nat
    BY <1>0, CleanedIs
  <2>. HIDE DEF list
  <2>. QED
    BY <1>9, <2>1, PlaceIs
<1>11. \A i \in 1 .. Len(list) : list[i].name # m
  <2>1. PICK g : Sieves(g)
    BY <1>0, CleanedIs
  <2>2. \A i \in 1 .. Len(list) : g[i] \in 1 .. Len(waitList) /\ list[i] = waitList[g[i]]
    BY <2>1 DEF Sieves
  <2>. QED
    BY <1>3, <2>2
<1>12. Len(r) = Len(list) + 1
  BY <1>8 DEF PutAt
<1>13. r[a] = IF a < k THEN list[a] ELSE IF a = k THEN e ELSE list[a - 1]
  BY <1>1, <1>8 DEF PutAt
<1>14. r[b] = IF b < k THEN list[b] ELSE IF b = k THEN e ELSE list[b - 1]
  BY <1>2, <1>8 DEF PutAt
<1>. HIDE DEF r, list, k
<1>15. a = k
  <2>1. a < k => a \in 1 .. Len(list)
    BY <1>1, <1>10, <1>12
  <2>2. k < a => a - 1 \in 1 .. Len(list)
    BY <1>1, <1>10, <1>12
  <2>3. ~(a < k)
    BY <1>1, <1>11, <1>13, <2>1
  <2>4. ~(k < a)
    <3>1. k < a => ~(a < k) /\ a # k
      BY <1>1, <1>10
    <3>. QED
      BY <1>1, <1>11, <1>13, <2>2, <3>1
  <2>. QED
    BY <1>1, <1>10, <2>3, <2>4
<1>16. x = m
  BY <1>1, <1>10, <1>13, <1>15
<1>17. b - 1 \in 1 .. Len(list) /\ b - 1 >= k /\ ~(b < k) /\ b # k
  BY <1>1, <1>2, <1>4, <1>10, <1>12, <1>15
<1>18. list[b - 1].name = n
  BY <1>2, <1>14, <1>17
<1>. QED
  BY <1>10, <1>16, <1>17, <1>18

(* There is room for whoever enters, and for those in front of him.        *)
LEMMA EntryStep ==
  ASSUME Lined, [Next]_vars, NEW n \in online' \ online,
         n \notin Privileged, ~(PremiumSkips /\ n \in Premium)
  PROVE  Cardinality(online) + Cardinality(InFront(n)) < MaxPlayers
<1>. DEFINE c == Cardinality(online)
            L == Len(waitList)
            F == InFront(n)
<1>0. Tidy(waitList) /\ waitList \in Seq(Wait) /\ L \in Nat /\ MaxPlayers \in Nat
  BY WaitListAssumption DEF Lined, Tidy
<1>1. c \in Nat
  BY FS_CardinalityType DEF Lined
<1>2. n \in Names /\ MayLogin(n, c)
  BY DEF Next, Try, Leave, WaitTooLong, vars
<1>. HIDE DEF c
<1>3. CASE waitList = <<>> /\ c < MaxPlayers
  <2>1. F = {}
    BY <1>3 DEF InFront
  <2>2. Cardinality(F) = 0
    BY <2>1, FS_EmptySet
  <2>. HIDE DEF F
  <2>3. c + Cardinality(F) < MaxPlayers
    BY <1>1, <1>3, <2>2
  <2>. QED
    BY <2>3 DEF c, F
<1>4. CASE ~(waitList = <<>> /\ c < MaxPlayers)
  <2>. DEFINE list == Cleaned
              s == SlotOf(list, n)
  <2>1. s # 0 /\ c + s <= MaxPlayers
    BY <1>2, <1>4 DEF MayLogin, Bypasses, HasRoom
  <2>2. s \in 1 .. Len(list) /\ list[s].name = n /\ Len(list) \in Nat
    <3>1. list \in Seq(Wait) /\ Len(list) \in Nat
      BY <1>0, CleanedIs
    <3>. HIDE DEF list
    <3>. QED
      BY <2>1, <3>1, SlotIs
  <2>3. PICK g : Sieves(g)
    BY <1>0, CleanedIs
  <2>4. /\ \A k \in 1 .. Len(list) : /\ g[k] \in 1 .. L /\ list[k] = waitList[g[k]]
                                    /\ ~waitList[g[k]].late
        /\ \A k, l \in 1 .. Len(list) : k < l => g[k] < g[l]
        /\ \A i \in 1 .. L : ~waitList[i].late => \E k \in 1 .. Len(list) : g[k] = i
    BY <2>3 DEF Sieves
  <2>. HIDE DEF list, s
  <2>5. g[s] \in 1 .. L /\ SlotOf(waitList, n) = g[s]
    <3>1. g[s] \in 1 .. L /\ waitList[g[s]].name = n
      BY <2>2, <2>4
    <3>. QED
      BY <1>0, <3>1, TidySlot
  <2>. DEFINE J == {j \in 1 .. L : ~waitList[j].late /\ j < g[s]}
              f == [k \in 1 .. s - 1 |-> list[k].name]
  <2>6. F = {waitList[i].name : i \in J}
    BY <2>5 DEF InFront
  <2>7. ASSUME NEW k \in 1 .. s - 1
        PROVE  k \in 1 .. Len(list) /\ g[k] \in J
    <3>1. k \in 1 .. Len(list) /\ k < s
      BY <2>2
    <3>. QED
      BY <2>2, <2>4, <3>1
  <2>8. ASSUME NEW j \in J
        PROVE  \E k \in 1 .. s - 1 : g[k] = j
    <3>1. PICK k \in 1 .. Len(list) : g[k] = j
      BY <2>4
    <3>2. g[k] < g[s] /\ g[k] \in Nat /\ g[s] \in Nat
      BY <2>5, <3>1
    <3>3. ~(s < k) /\ k # s
      <4>1. s < k => g[s] < g[k]
        BY <2>2, <2>4
      <4>. QED
        BY <3>2, <4>1
    <3>4. k \in 1 .. s - 1
      BY <2>2, <3>3
    <3>. QED
      BY <3>1, <3>4
  <2>. HIDE DEF J
  <2>9. f \in Surjection(1 .. s - 1, F)
    <3>1. ASSUME NEW k \in 1 .. s - 1
          PROVE  f[k] \in F
      <4>1. f[k] = waitList[g[k]].name
        BY <2>4, <2>7
      <4>. QED
        BY <2>6, <2>7, <4>1
    <3>2. ASSUME NEW x \in F
          PROVE  \E k \in 1 .. s - 1 : f[k] = x
      <4>1. PICK j \in J : x = waitList[j].name
        BY <2>6
      <4>2. PICK k \in 1 .. s - 1 : g[k] = j
        BY <2>8
      <4>3. f[k] = waitList[g[k]].name
        BY <2>4, <2>7
      <4>. QED
        BY <4>1, <4>2, <4>3
    <3>. HIDE DEF F
    <3>3. f \in [1 .. s - 1 -> F]
      BY <3>1
    <3>. QED
      BY <3>2, <3>3 DEF Surjection
  <2>. HIDE DEF F
  <2>10. s - 1 \in Nat /\ ExistsSurjection(1 .. s - 1, F)
    BY <2>2, <2>9 DEF ExistsSurjection
  <2>11. Cardinality(F) <= s - 1 /\ Cardinality(F) \in Nat
    <3>1. IsFiniteSet(F)
      BY <2>10, FS_NatSurjection
    <3>. QED
      BY <2>10, <3>1, FS_SurjCardinalityBound, FS_CardinalityType
  <2>12. c + Cardinality(F) < MaxPlayers
    BY <1>0, <1>1, <2>1, <2>2, <2>11
  <2>. QED
    BY <2>12 DEF c, F
<1>. QED
  BY <1>3, <1>4

THEOREM TurnsAlwaysRespected ==
  Spec => TurnsRespected
<1>. DEFINE Enters == \A n \in online' \ online :
                        n \notin Privileged /\ ~(PremiumSkips /\ n \in Premium)
                        => Cardinality(online) + Cardinality(InFront(n)) < MaxPlayers
            Turns == \A m, n \in Names :
                       Waits(n) /\ SlotOf(waitList', n) # 0 /\ ~Waits(m)
                         /\ SlotOf(waitList', m) # 0
                         /\ SlotOf(waitList', m) < SlotOf(waitList', n)
                       => m \in Premium /\ n \notin Premium
<1>1. Init => Lined
  BY LinedInit
<1>2. Lined /\ [Next]_vars => Lined'
  BY LinedNext
<1>3. Lined => WaitListOrdered
  BY DEF Lined, Tidy, WaitListOrdered
<1>4. Lined /\ [Next]_vars => [Enters]_vars
  BY EntryStep
<1>5. Lined /\ Lined' /\ [Next]_vars => [Turns]_vars
  <2>1. Lined => Tidy(waitList)
    BY DEF Lined
  <2>2. Lined' => Tidy(waitList')
    BY DEF Lined, Tidy
  <2>. QED
    BY <2>1, <2>2, TurnStep
<1>6. Spec => [][Enters]_vars
  BY <1>1, <1>2, <1>4, PTL DEF Spec
<1>7. Spec => [][Turns]_vars
  BY <1>1, <1>2, <1>5, PTL DEF Spec
<1>. QED
  BY <1>1, <1>2, <1>3, <1>6, <1>7, PTL DEF Spec, TurnsRespected, NobodyOvertakes, TurnKept

-----------------------------------------------------------------------------
(* Summons.                                                                *)

Body == [placed : BOOLEAN, removed : BOOLEAN, healthy : BOOLEAN,
         checked : BOOLEAN, listed : BOOLEAN, master : Bodies \cup {NoMaster},
         summons : SUBSET Beasts, seen : BOOLEAN, released : Nat, refs : Int]

(* t is a body with the life (placed, removed, healthy), the place in the  *)
(* check (checked, listed), the friends (master, summons) and the counts   *)
(* (seen, released, refs) that are given.                                  *)
Has(t, life, check, friends, counts) ==
  /\ t \in Body
  /\ life = <<t.placed, t.removed, t.healthy>>
  /\ check = <<t.checked, t.listed>>
  /\ friends = <<t.master, t.summons>>
  /\ counts = <<t.seen, t.released, t.refs>>

LEMMA BodyIs ==
  ASSUME NEW b \in Body
  PROVE  /\ b.placed \in BOOLEAN /\ b.removed \in BOOLEAN /\ b.healthy \in BOOLEAN
         /\ b.checked \in BOOLEAN /\ b.listed \in BOOLEAN
         /\ b.master \in Bodies \cup {NoMaster} /\ b.summons \in SUBSET Beasts
         /\ b.seen \in BOOLEAN /\ b.released \in Nat /\ b.refs \in Int
BY DEF Body

LEMMA SameBody ==
  ASSUME NEW a \in Body, NEW b \in Body,
         a.placed = b.placed, a.removed = b.removed, a.healthy = b.healthy,
         a.checked = b.checked, a.listed = b.listed, a.master = b.master,
         a.summons = b.summons, a.seen = b.seen, a.released = b.released, a.refs = b.refs
  PROVE  a = b
BY DEF Body

LEMMA RemovedIs ==
  ASSUME NEW b \in Body, NEW t, t = Removed(b)
  PROVE  Has(t, <<FALSE, TRUE, b.healthy>>, <<FALSE, b.listed>>, <<b.master, b.summons>>,
             <<b.seen, b.released + 1, b.refs>>)
<1>1. b.released + 1 \in Nat
  BY BodyIs
<1>2. t \in Body
  BY <1>1 DEF Removed, Body
<1>3. t.placed = FALSE /\ t.removed = TRUE /\ t.healthy = b.healthy
  BY DEF Removed, Body
<1>4. t.checked = FALSE /\ t.listed = b.listed /\ t.master = b.master
  BY DEF Removed, Body
<1>5. t.summons = b.summons /\ t.seen = b.seen /\ t.released = b.released + 1
  BY DEF Removed, Body
<1>6. t.refs = b.refs
  BY DEF Removed, Body
<1>. QED
  BY <1>2, <1>3, <1>4, <1>5, <1>6 DEF Has

LEMMA AddCreatureCheckIs ==
  ASSUME NEW b \in Body, ~b.removed, NEW t, t = AddCreatureCheck(b)
  PROVE  Has(t, <<b.placed, b.removed, b.healthy>>, <<TRUE, TRUE>>, <<b.master, b.summons>>,
             <<b.seen, b.released, b.refs + (IF b.listed THEN 0 ELSE 1)>>)
<1>. DEFINE r == b.refs + (IF b.listed THEN 0 ELSE 1)
<1>1. r \in Int
  BY BodyIs
<1>2. t = [b EXCEPT !.checked = TRUE, !.listed = TRUE, !.refs = r]
  BY DEF AddCreatureCheck
<1>. HIDE DEF r
<1>3. t \in Body
  BY <1>1, <1>2 DEF Body
<1>4. t.placed = b.placed /\ t.removed = b.removed /\ t.healthy = b.healthy
  BY <1>2 DEF Body
<1>5. t.checked = TRUE /\ t.listed = TRUE /\ t.master = b.master
  BY <1>2 DEF Body
<1>6. t.summons = b.summons /\ t.seen = b.seen /\ t.released = b.released
  BY <1>2 DEF Body
<1>7. t.refs = r
  BY <1>2 DEF Body
<1>8. Has(t, <<b.placed, b.removed, b.healthy>>, <<TRUE, TRUE>>, <<b.master, b.summons>>,
             <<b.seen, b.released, r>>)
  BY <1>3, <1>4, <1>5, <1>6, <1>7 DEF Has
<1>. QED
  BY <1>8 DEF r

LEMMA KilledIs ==
  ASSUME NEW b \in Body, NEW t, t = Killed(b)
  PROVE  IF b.removed \/ ~b.healthy
         THEN Has(t, <<b.placed, b.removed, FALSE>>, <<b.checked, b.listed>>,
                  <<b.master, b.summons>>, <<b.seen, b.released, b.refs>>)
         ELSE Has(t, <<b.placed, b.removed, FALSE>>, <<TRUE, TRUE>>, <<b.master, b.summons>>,
                  <<b.seen, b.released, b.refs + (IF b.listed THEN 0 ELSE 1)>>)
<1>1. ASSUME NEW s \in Body, t = [s EXCEPT !.healthy = FALSE]
      PROVE  Has(t, <<s.placed, s.removed, FALSE>>, <<s.checked, s.listed>>,
                  <<s.master, s.summons>>, <<s.seen, s.released, s.refs>>)
  <2>1. t \in Body
    BY <1>1 DEF Body
  <2>2. t.placed = s.placed /\ t.removed = s.removed /\ t.healthy = FALSE
    BY <1>1 DEF Body
  <2>3. t.checked = s.checked /\ t.listed = s.listed /\ t.master = s.master
    BY <1>1 DEF Body
  <2>4. t.summons = s.summons /\ t.seen = s.seen /\ t.released = s.released
    BY <1>1 DEF Body
  <2>5. t.refs = s.refs
    BY <1>1 DEF Body
  <2>. QED
    BY <2>1, <2>2, <2>3, <2>4, <2>5 DEF Has
<1>2. CASE b.removed \/ ~b.healthy
  <2>1. t = [b EXCEPT !.healthy = FALSE]
    BY <1>2 DEF Killed, SetIdle
  <2>. QED
    BY <1>1, <1>2, <2>1
<1>3. CASE ~(b.removed \/ ~b.healthy)
  <2>. DEFINE s == AddCreatureCheck(b)
  <2>1. t = [s EXCEPT !.healthy = FALSE]
    BY <1>3 DEF Killed, SetIdle
  <2>2. Has(s, <<b.placed, b.removed, b.healthy>>, <<TRUE, TRUE>>, <<b.master, b.summons>>,
             <<b.seen, b.released, b.refs + (IF b.listed THEN 0 ELSE 1)>>)
    BY <1>3, AddCreatureCheckIs
  <2>. HIDE DEF s
  <2>3. s \in Body
    BY <2>2 DEF Has
  <2>. QED
    BY <1>1, <1>3, <2>1, <2>2, <2>3 DEF Has
<1>. QED
  BY <1>2, <1>3

LEMMA StrippedIs ==
  ASSUME NEW b \in Body, NEW S, NEW t, t = [b EXCEPT !.summons = b.summons \ S]
  PROVE  Has(t, <<b.placed, b.removed, b.healthy>>, <<b.checked, b.listed>>,
             <<b.master, b.summons \ S>>, <<b.seen, b.released, b.refs>>)
<1>1. b.summons \ S \in SUBSET Beasts
  BY BodyIs
<1>2. t \in Body
  BY <1>1 DEF Body
<1>3. t.placed = b.placed /\ t.removed = b.removed /\ t.healthy = b.healthy
  BY DEF Body
<1>4. t.checked = b.checked /\ t.listed = b.listed /\ t.master = b.master
  BY DEF Body
<1>5. t.summons = b.summons \ S
  BY DEF Body
<1>6. t.seen = b.seen /\ t.released = b.released /\ t.refs = b.refs
  BY DEF Body
<1>. QED
  BY <1>2, <1>3, <1>4, <1>5, <1>6 DEF Has

LEMMA FreedIs ==
  ASSUME NEW b \in Body, NEW t,
         t = [b EXCEPT !.master = NoMaster, !.refs = b.refs - 1]
  PROVE  Has(t, <<b.placed, b.removed, b.healthy>>, <<b.checked, b.listed>>,
             <<NoMaster, b.summons>>, <<b.seen, b.released, b.refs - 1>>)
<1>1. b.refs - 1 \in Int
  BY BodyIs
<1>2. t \in Body
  BY <1>1 DEF Body
<1>3. t.placed = b.placed /\ t.removed = b.removed /\ t.healthy = b.healthy
  BY DEF Body
<1>4. t.checked = b.checked /\ t.listed = b.listed /\ t.master = NoMaster
  BY DEF Body
<1>5. t.refs = b.refs - 1
  BY DEF Body
<1>6. t.seen = b.seen /\ t.released = b.released /\ t.summons = b.summons
  BY DEF Body
<1>. QED
  BY <1>2, <1>3, <1>4, <1>5, <1>6 DEF Has

-----------------------------------------------------------------------------
Count(b) ==
  (IF b.placed THEN 1 ELSE 0) + (IF b.listed THEN 1 ELSE 0)
  + (IF b.master # NoMaster THEN 1 ELSE 0) + (IF b.seen THEN 1 ELSE 0) + b.released

(* A body by itself. *)
Whole(b) ==
  /\ b \in Body
  /\ b.refs = Count(b)
  /\ b.placed => ~b.removed
  /\ b.checked => b.placed /\ b.listed
  /\ b.placed /\ ~b.healthy => b.checked
  /\ ~b.placed /\ ~b.removed => b = Nobody

(* Bodies among each other. *)
Linked(w) ==
  /\ \A c, m \in Bodies : w[c].master = m <=> c \in w[m].summons
  /\ \A c \in Bodies : w[c].placed /\ w[c].master # NoMaster => w[w[c].master].placed
  /\ \A c \in Bodies : w[c].master # c
  /\ \A c \in Masters : w[c].placed => w[c].checked

Sound(w) ==
  /\ w \in [Bodies -> Body]
  /\ \A c \in Bodies : Whole(w[c])
  /\ Linked(w)

Fresh(w) == \A c \in Bodies : w[c].released <= IF w[c].removed THEN 1 ELSE 0

Alive(w) == \A c \in Bodies : w[c].placed \/ w[c].removed => w[c].refs > 0

SummonInv == Sound(bodies) /\ Fresh(bodies) /\ Alive(bodies)

LEMMA SoundIs ==
  ASSUME NEW w, Sound(w), NEW c \in Bodies
  PROVE  /\ w[c] \in Body /\ Whole(w[c])
         /\ w[c].summons \subseteq Beasts /\ Beasts \subseteq Bodies /\ NoMaster \notin Bodies
         /\ w[c].master \in Bodies \cup {NoMaster}
<1>1. w[c] \in Body /\ Whole(w[c])
  BY DEF Sound
<1>2. Beasts \subseteq Bodies /\ NoMaster \notin Bodies
  BY SummonsAssumption DEF Bodies
<1>. QED
  BY <1>1, <1>2, BodyIs

LEMMA NobodyIs ==
  Has(Nobody, <<FALSE, FALSE, FALSE>>, <<FALSE, FALSE>>, <<NoMaster, {}>>, <<FALSE, 0, 0>>)
  /\ Whole(Nobody)
<1>1. Nobody \in Body
  BY DEF Nobody, Body
<1>2. Has(Nobody, <<FALSE, FALSE, FALSE>>, <<FALSE, FALSE>>, <<NoMaster, {}>>, <<FALSE, 0, 0>>)
  BY <1>1 DEF Has, Nobody
<1>3. /\ Nobody.placed = FALSE /\ Nobody.listed = FALSE /\ Nobody.master = NoMaster
      /\ Nobody.seen = FALSE /\ Nobody.released = 0 /\ Nobody.checked = FALSE
      /\ Nobody.refs = 0 /\ Nobody.removed = FALSE
  BY DEF Nobody
<1>4. Count(Nobody) = 0
  BY <1>3 DEF Count
<1>. QED
  BY <1>1, <1>2, <1>3, <1>4 DEF Whole

(* A player has no master, and who has one is in game or was. *)
LEMMA LedIs ==
  ASSUME NEW w, Sound(w), NEW c \in Bodies, NEW m \in Bodies, c \in w[m].summons
  PROVE  /\ c \in Beasts /\ c \notin Masters /\ c # m
         /\ w[c].master = m /\ m # NoMaster
         /\ w[c].placed \/ w[c].removed
         /\ w[c].refs >= 1
<1>1. c \in Beasts /\ m # NoMaster
  BY SoundIs
<1>2. w[c].master = m /\ c # m
  BY DEF Sound, Linked
<1>3. Whole(w[c])
  BY SoundIs
<1>4. w[c].placed \/ w[c].removed
  <2>1. w[c] # Nobody
    BY <1>1, <1>2, NobodyIs DEF Has
  <2>. QED
    BY <1>3, <2>1 DEF Whole
<1>5. w[c].refs >= 1
  <2>1. w[c].released \in Nat
    BY <1>3, BodyIs DEF Whole
  <2>. QED
    BY <1>1, <1>2, <1>3, <2>1 DEF Whole, Count
<1>. QED
  BY <1>1, <1>2, <1>4, <1>5, SummonsAssumption

-----------------------------------------------------------------------------
LEMMA LostIs ==
  ASSUME NEW w, Sound(w), NEW G \in SUBSET Bodies, NEW c \in Bodies
  PROVE  Lost(w, G, c) = IF w[c].master \in G THEN 1 ELSE 0
<1>. DEFINE m == w[c].master
            S == {x \in G : c \in w[x].summons}
<1>1. \A x \in G : c \in w[x].summons <=> m = x
  BY DEF Sound, Linked
<1>2. CASE m \in G
  <2>1. S = {m}
    BY <1>1, <1>2
  <2>2. Cardinality(S) = 1
    BY <2>1, FS_Singleton
  <2>. QED
    BY <1>2, <2>2 DEF Lost
<1>3. CASE m \notin G
  <2>1. S = {}
    BY <1>1, <1>3
  <2>2. Cardinality(S) = 0
    BY <2>1, FS_EmptySet
  <2>. QED
    BY <1>3, <2>2 DEF Lost
<1>. QED
  BY <1>2, <1>3

(* Who is deleted when the references of w are counted.                    *)
Gone(w, gone) ==
  /\ gone \subseteq Bodies
  /\ \A c \in Bodies : c \in gone <=> w[c].refs <= IF w[c].master \in gone THEN 1 ELSE 0

(* What is left of w.                                                      *)
Swept(v, w, gone) ==
  /\ v \in [Bodies -> Body]
  /\ \A c \in gone : v[c] = Nobody
  /\ \A c \in Bodies \ gone :
       IF w[c].master \in gone
       THEN Has(v[c], <<w[c].placed, w[c].removed, w[c].healthy>>, <<w[c].checked, w[c].listed>>,
                <<NoMaster, w[c].summons>>, <<w[c].seen, w[c].released, w[c].refs - 1>>)
       ELSE v[c] = w[c]

LEMMA BuriedIs ==
  ASSUME NEW w, Sound(w)
  PROVE  \E gone : Gone(w, gone) /\ Swept(Buried(w), w, gone)
<1>. DEFINE Closed(G) == \A c \in Bodies : w[c].refs <= Lost(w, G, c) => c \in G
            closed == {G \in SUBSET Bodies : Closed(G)}
            gone == {c \in Bodies : \A G \in closed : c \in G}
            v == Buried(w)
<1>0. gone \in SUBSET Bodies
  OBVIOUS
<1>1. v = [c \in Bodies |->
         IF c \in gone THEN Nobody
         ELSE IF Lost(w, gone, c) > 0
              THEN [w[c] EXCEPT !.master = NoMaster, !.refs = @ - Lost(w, gone, c)]
              ELSE w[c]]
  BY DEF Buried
<1>2. ASSUME NEW c \in Bodies
      PROVE  w[c].refs \in Int
  BY SoundIs, BodyIs
<1>3. \A G \in SUBSET Bodies : \A c \in Bodies : Lost(w, G, c) = IF w[c].master \in G THEN 1 ELSE 0
  BY LostIs
<1>4. ASSUME NEW c \in Bodies, w[c].refs <= IF w[c].master \in gone THEN 1 ELSE 0
      PROVE  c \in gone
  <2>1. ASSUME NEW G \in closed
        PROVE  c \in G
    <3>1. w[c].master \in gone => w[c].master \in G
      BY <2>1
    <3>2. w[c].refs <= IF w[c].master \in G THEN 1 ELSE 0
      BY <1>2, <1>4, <3>1
    <3>. QED
      BY <1>3, <3>2
  <2>. QED
    BY <2>1
<1>5. ASSUME NEW c \in gone
      PROVE  w[c].refs <= IF w[c].master \in gone THEN 1 ELSE 0
  <2>. DEFINE G == gone \ {c}
  <2>1. G \in SUBSET Bodies /\ c \in Bodies
    OBVIOUS
  <2>2. SUFFICES ASSUME ~(w[c].refs <= IF w[c].master \in gone THEN 1 ELSE 0)
                 PROVE  Closed(G)
    <3>1. Closed(G) => G \in closed
      BY <2>1
    <3>2. c \notin G
      OBVIOUS
    <3>. QED
      BY <1>5, <2>2, <3>1, <3>2
  <2>3. ASSUME NEW d \in Bodies, w[d].refs <= IF w[d].master \in G THEN 1 ELSE 0
        PROVE  d \in G
    <3>1. w[d].refs <= IF w[d].master \in gone THEN 1 ELSE 0
      BY <1>2, <2>3
    <3>2. d \in gone
      <4>. HIDE DEF gone
      <4>. QED
        BY <1>4, <3>1
    <3>3. d # c
      BY <2>2, <3>1
    <3>. QED
      BY <3>2, <3>3
  <2>. HIDE DEF gone
  <2>. QED
    BY <1>3, <2>1, <2>3
<1>. HIDE DEF gone
<1>6. Gone(w, gone)
  BY <1>0, <1>4, <1>5 DEF Gone
<1>7. ASSUME NEW c \in gone
      PROVE  v[c] = Nobody
  BY <1>0, <1>1, <1>7
<1>8. ASSUME NEW c \in Bodies \ gone
      PROVE  IF w[c].master \in gone
       THEN Has(v[c], <<w[c].placed, w[c].removed, w[c].healthy>>, <<w[c].checked, w[c].listed>>,
                <<NoMaster, w[c].summons>>, <<w[c].seen, w[c].released, w[c].refs - 1>>)
       ELSE v[c] = w[c]
  <2>1. Lost(w, gone, c) = IF w[c].master \in gone THEN 1 ELSE 0
    BY <1>0, <1>3
  <2>2. w[c] \in Body
    BY SoundIs
  <2>5. v[c] = IF Lost(w, gone, c) > 0
               THEN [w[c] EXCEPT !.master = NoMaster, !.refs = w[c].refs - Lost(w, gone, c)]
               ELSE w[c]
    BY <1>1
  <2>. HIDE DEF v
  <2>3. CASE w[c].master \in gone
    <3>1. Lost(w, gone, c) = 1
      BY <2>1, <2>3
    <3>2. v[c] = [w[c] EXCEPT !.master = NoMaster, !.refs = w[c].refs - 1]
      BY <2>5, <3>1
    <3>3. Has(v[c], <<w[c].placed, w[c].removed, w[c].healthy>>, <<w[c].checked, w[c].listed>>,
              <<NoMaster, w[c].summons>>, <<w[c].seen, w[c].released, w[c].refs - 1>>)
      BY <2>2, <3>2, FreedIs
    <3>. QED
      BY <2>3, <3>3
  <2>4. CASE w[c].master \notin gone
    <3>1. Lost(w, gone, c) = 0
      BY <2>1, <2>4
    <3>2. v[c] = w[c]
      BY <2>5, <3>1
    <3>. QED
      BY <2>4, <3>2
  <2>. QED
    BY <2>3, <2>4
<1>9. v \in [Bodies -> Body]
  <2>1. ASSUME NEW c \in Bodies
        PROVE  v[c] \in Body
    <3>1. w[c] \in Body /\ Nobody \in Body
      BY SoundIs, NobodyIs DEF Whole
    <3>. HIDE DEF v
    <3>. QED
      BY <1>7, <1>8, <3>1 DEF Has
  <2>2. \E e : v = [c \in Bodies |-> e[c]]
    <3>1. v = [c \in Bodies |-> v[c]]
      BY <1>1
    <3>. QED
      BY <3>1
  <2>. HIDE DEF v
  <2>. QED
    BY <2>1, <2>2
<1>. HIDE DEF v
<1>10. Swept(v, w, gone)
  BY <1>7, <1>8, <1>9 DEF Swept
<1>. QED
  BY <1>6, <1>10 DEF v

LEMMA SweptIs ==
  ASSUME NEW w, Sound(w), Fresh(w), NEW gone, Gone(w, gone), NEW v, Swept(v, w, gone)
  PROVE  Sound(v) /\ Fresh(v) /\ Alive(v)
<1>0. gone \subseteq Bodies
  BY DEF Gone
<1>1. ASSUME NEW c \in gone
      PROVE  v[c] = Nobody /\ ~w[c].placed
  <2>1. Whole(w[c]) /\ w[c].refs <= IF w[c].master \in gone THEN 1 ELSE 0
    BY <1>0, SoundIs DEF Gone
  <2>2. w[c].released \in Nat /\ NoMaster \notin gone
    BY <1>0, <2>1, BodyIs, SummonsAssumption DEF Whole, Bodies
  <2>3. ~w[c].placed
    BY <2>1, <2>2 DEF Whole, Count
  <2>. QED
    BY <2>3 DEF Swept
<1>2. ASSUME NEW c \in Bodies \ gone
      PROVE  /\ v[c].placed = w[c].placed /\ v[c].removed = w[c].removed
             /\ v[c].healthy = w[c].healthy /\ v[c].checked = w[c].checked
             /\ v[c].listed = w[c].listed /\ v[c].summons = w[c].summons
             /\ v[c].seen = w[c].seen /\ v[c].released = w[c].released
             /\ v[c].master = IF w[c].master \in gone THEN NoMaster ELSE w[c].master
             /\ v[c].refs = w[c].refs - IF w[c].master \in gone THEN 1 ELSE 0
  <2>1. CASE w[c].master \in gone
    <3>1. Has(v[c], <<w[c].placed, w[c].removed, w[c].healthy>>, <<w[c].checked, w[c].listed>>,
              <<NoMaster, w[c].summons>>, <<w[c].seen, w[c].released, w[c].refs - 1>>)
      BY <2>1 DEF Swept
    <3>. QED
      BY <2>1, <3>1 DEF Has
  <2>2. CASE w[c].master \notin gone
    <3>1. v[c] = w[c]
      BY <2>2 DEF Swept
    <3>2. w[c].refs \in Int
      BY SoundIs, BodyIs
    <3>. QED
      BY <2>2, <3>1, <3>2
  <2>. QED
    BY <2>1, <2>2
<1>3. ASSUME NEW c \in Bodies \ gone
      PROVE  Whole(v[c]) /\ v[c].refs > 0 /\ (w[c].master \in gone => w[c].master # NoMaster)
  <2>1. Whole(w[c]) /\ w[c].refs \in Int /\ w[c].released \in Nat
    BY SoundIs, BodyIs
  <2>2. ~(w[c].refs <= IF w[c].master \in gone THEN 1 ELSE 0)
    BY DEF Gone
  <2>3. w[c].master \in gone => w[c].master # NoMaster
    BY <1>0, SummonsAssumption DEF Bodies
  <2>4. v[c].refs > 0
    BY <1>2, <2>1, <2>2
  <2>5. v[c].refs = Count(v[c])
    BY <1>2, <2>1, <2>3 DEF Whole, Count
  <2>6. v[c] \in Body
    BY DEF Swept
  <2>7. v[c].placed \/ v[c].removed
    <3>1. w[c] # Nobody
      BY <2>1, <2>2, NobodyIs DEF Has
    <3>. QED
      BY <1>2, <2>1, <3>1 DEF Whole
  <2>. QED
    BY <1>2, <2>1, <2>3, <2>4, <2>5, <2>6, <2>7 DEF Whole
<1>4. ASSUME NEW c \in Bodies
      PROVE  Whole(v[c])
  BY <1>1, <1>3, NobodyIs
<1>5. Nobody.master = NoMaster /\ Nobody.summons = {} /\ ~Nobody.placed /\ Nobody.released = 0
      /\ ~Nobody.removed
  BY DEF Nobody
<1>6. NoMaster \notin Bodies
  BY SummonsAssumption DEF Bodies
<1>7. ASSUME NEW c \in Bodies, NEW m \in Bodies
      PROVE  v[c].master = m <=> c \in v[m].summons
  <2>1. w[c].master = m <=> c \in w[m].summons
    BY DEF Sound, Linked
  <2>2. CASE c \in gone
    <3>1. v[c].master # m
      BY <1>1, <1>5, <1>6, <2>2
    <3>2. c \notin v[m].summons
      <4>1. CASE m \in gone
        BY <1>1, <1>5, <4>1
      <4>2. CASE m \notin gone
        <5>1. SUFFICES ASSUME w[c].master = m
                       PROVE  FALSE
          BY <1>2, <2>1, <4>2
        <5>2. w[c].refs >= 1 /\ w[c].refs \in Int
          BY <2>1, <5>1, LedIs, SoundIs, BodyIs
        <5>3. w[c].refs <= 0
          BY <2>2, <4>2, <5>1 DEF Gone
        <5>. QED
          BY <5>2, <5>3
      <4>. QED
        BY <4>1, <4>2
    <3>. QED
      BY <3>1, <3>2
  <2>3. CASE c \notin gone /\ m \in gone
    BY <1>1, <1>2, <1>5, <1>6, <2>3
  <2>4. CASE c \notin gone /\ m \notin gone
    BY <1>2, <1>6, <2>1, <2>4
  <2>. QED
    BY <2>2, <2>3, <2>4
<1>8. ASSUME NEW c \in Bodies, v[c].placed, v[c].master # NoMaster
      PROVE  v[v[c].master].placed
  <2>1. c \notin gone
    BY <1>1, <1>5, <1>8
  <2>2. v[c].master = w[c].master /\ w[c].master \notin gone /\ w[c].placed
    BY <1>2, <1>8, <2>1
  <2>3. w[w[c].master].placed /\ w[c].master \in Bodies
    BY <1>8, <2>2, SoundIs DEF Sound, Linked
  <2>. QED
    BY <1>2, <2>2, <2>3
<1>9. ASSUME NEW c \in Bodies
      PROVE  v[c].master # c
  <2>1. w[c].master # c
    BY DEF Sound, Linked
  <2>. QED
    BY <1>1, <1>2, <1>5, <1>6, <2>1
<1>10. ASSUME NEW c \in Masters, v[c].placed
       PROVE  v[c].checked
  <2>1. c \in Bodies
    BY DEF Bodies
  <2>2. w[c].placed => w[c].checked
    BY DEF Sound, Linked
  <2>. QED
    BY <1>1, <1>2, <1>5, <1>10, <2>1, <2>2
<1>11. Linked(v)
  BY <1>7, <1>8, <1>9, <1>10 DEF Linked
<1>12. Sound(v)
  BY <1>4, <1>11 DEF Sound, Swept
<1>13. Fresh(v)
  <2>1. ASSUME NEW c \in Bodies
        PROVE  v[c].released <= IF v[c].removed THEN 1 ELSE 0
    <3>1. w[c].released <= IF w[c].removed THEN 1 ELSE 0
      BY DEF Fresh
    <3>. QED
      BY <1>1, <1>2, <1>5, <3>1
  <2>. QED
    BY <2>1 DEF Fresh
<1>14. Alive(v)
  BY <1>1, <1>3, <1>5 DEF Alive
<1>. QED
  BY <1>12, <1>13, <1>14

(* Who is removed and still there has the summons that he had.             *)
LEMMA BuriedKeeps ==
  ASSUME NEW w, Sound(w), Fresh(w), NEW v, v = Buried(w)
  PROVE  /\ Sound(v) /\ Fresh(v) /\ Alive(v)
         /\ \A m \in Bodies : v[m].removed => w[m].removed /\ v[m].summons = w[m].summons
<1>1. PICK gone : Gone(w, gone) /\ Swept(v, w, gone)
  BY BuriedIs
<1>2. Sound(v) /\ Fresh(v) /\ Alive(v)
  BY <1>1, SweptIs
<1>3. ASSUME NEW m \in Bodies, v[m].removed
      PROVE  w[m].removed /\ v[m].summons = w[m].summons
  <2>1. m \notin gone
    <3>1. ~Nobody.removed
      BY DEF Nobody
    <3>. QED
      BY <1>1, <1>3, <3>1 DEF Swept
  <2>2. CASE w[m].master \in gone
    <3>1. Has(v[m], <<w[m].placed, w[m].removed, w[m].healthy>>, <<w[m].checked, w[m].listed>>,
              <<NoMaster, w[m].summons>>, <<w[m].seen, w[m].released, w[m].refs - 1>>)
      BY <1>1, <2>1, <2>2 DEF Swept
    <3>. QED
      BY <1>3, <3>1 DEF Has
  <2>3. CASE w[m].master \notin gone
    <3>1. v[m] = w[m]
      BY <1>1, <2>1, <2>3 DEF Swept
    <3>. QED
      BY <1>3, <3>1
  <2>. QED
    BY <2>2, <2>3
<1>. QED
  BY <1>2, <1>3

-----------------------------------------------------------------------------
(* The bodies of free are taken off their masters' lists.                  *)
Unlinked(v, w, free) ==
  /\ v \in [Bodies -> Body]
  /\ \A c \in Bodies :
       Has(v[c], <<w[c].placed, w[c].removed, w[c].healthy>>, <<w[c].checked, w[c].listed>>,
           <<IF c \in free THEN NoMaster ELSE w[c].master, w[c].summons \ free>>,
           <<w[c].seen, w[c].released, w[c].refs - (IF c \in free THEN 1 ELSE 0)>>)

LEMMA UnlinkedSound ==
  ASSUME NEW w, Sound(w), NEW free \in SUBSET Bodies,
         \A c \in free : w[c].master # NoMaster,
         NEW v, Unlinked(v, w, free)
  PROVE  Sound(v)
<1>1. ASSUME NEW c \in Bodies
      PROVE  /\ v[c].placed = w[c].placed /\ v[c].removed = w[c].removed
             /\ v[c].healthy = w[c].healthy /\ v[c].checked = w[c].checked
             /\ v[c].listed = w[c].listed /\ v[c].summons = w[c].summons \ free
             /\ v[c].seen = w[c].seen /\ v[c].released = w[c].released
             /\ v[c].master = IF c \in free THEN NoMaster ELSE w[c].master
             /\ v[c].refs = w[c].refs - IF c \in free THEN 1 ELSE 0
             /\ v[c] \in Body
  BY DEF Unlinked, Has
<1>2. NoMaster \notin Bodies /\ Masters \subseteq Bodies
  BY SummonsAssumption DEF Bodies
<1>3. ASSUME NEW c \in Bodies
      PROVE  Whole(v[c])
  <2>1. Whole(w[c]) /\ w[c].refs \in Int /\ w[c].released \in Nat
    BY SoundIs, BodyIs
  <2>2. v[c].refs = Count(v[c])
    BY <1>1, <2>1 DEF Whole, Count
  <2>3. ~w[c].placed /\ ~w[c].removed => v[c] = Nobody
    <3>. SUFFICES ASSUME ~w[c].placed, ~w[c].removed
                  PROVE  v[c] = Nobody
      OBVIOUS
    <3>1. w[c] = Nobody
      BY <2>1 DEF Whole
    <3>2. w[c].master = NoMaster /\ w[c].summons = {} /\ w[c].refs = 0
      BY <3>1 DEF Nobody
    <3>3. c \notin free
      BY <3>2
    <3>4. v[c].master = NoMaster /\ v[c].summons = {} /\ v[c].refs = 0 /\ w[c].summons = {}
      BY <1>1, <3>2, <3>3
    <3>. QED
      <4>1. w[c] \in Body /\ v[c] \in Body
        BY <1>1, SoundIs
      <4>2. v[c].master = w[c].master /\ v[c].summons = w[c].summons /\ v[c].refs = w[c].refs
        BY <3>2, <3>4
      <4>3. v[c] = w[c]
        BY <1>1, <4>1, <4>2, SameBody
      <4>. QED
        BY <3>1, <4>3
  <2>. QED
    BY <1>1, <2>1, <2>2, <2>3 DEF Whole
<1>4. \A c, m \in Bodies : v[c].master = m <=> c \in v[m].summons
  BY <1>1, <1>2 DEF Sound, Linked
<1>5. \A c \in Bodies : v[c].placed /\ v[c].master # NoMaster => v[v[c].master].placed
  <2>1. ASSUME NEW c \in Bodies, v[c].placed, v[c].master # NoMaster
        PROVE  v[v[c].master].placed
    <3>1. v[c].master = w[c].master /\ w[c].placed
      BY <1>1, <2>1
    <3>2. w[w[c].master].placed /\ w[c].master \in Bodies
      BY <2>1, <3>1, SoundIs DEF Sound, Linked
    <3>. QED
      BY <1>1, <3>1, <3>2
  <2>. QED
    BY <2>1
<1>6. \A c \in Bodies : v[c].master # c
  BY <1>1, <1>2 DEF Sound, Linked
<1>7. \A c \in Masters : v[c].placed => v[c].checked
  BY <1>1, <1>2 DEF Sound, Linked
<1>8. Linked(v)
  BY <1>4, <1>5, <1>6, <1>7 DEF Linked
<1>. QED
  BY <1>3, <1>8 DEF Sound, Unlinked

LEMMA RemoveSummonIs ==
  ASSUME NEW w, Sound(w), NEW m \in Bodies, NEW c \in Bodies, w[c].master = m,
         NEW v, v = RemoveSummon(w, m, c)
  PROVE  Unlinked(v, w, {c}) /\ Sound(v)
<1>1. c \in w[m].summons /\ c # m /\ w \in [Bodies -> Body] /\ w[c].refs \in Int /\ m # NoMaster
  BY SoundIs, BodyIs, LedIs DEF Sound, Linked
<1>2. v = [w EXCEPT ![m].summons = w[m].summons \ {c}, ![c].master = NoMaster,
                    ![c].refs = w[c].refs - 1]
  BY <1>1 DEF RemoveSummon
<1>3. v \in [Bodies -> Body]
  <2>1. w[m].summons \ {c} \in SUBSET Beasts /\ w[c].refs - 1 \in Int
    BY <1>1, SoundIs
  <2>. QED
    BY <1>1, <1>2, <2>1 DEF Body
<1>4. ASSUME NEW x \in Bodies
      PROVE  Has(v[x], <<w[x].placed, w[x].removed, w[x].healthy>>, <<w[x].checked, w[x].listed>>,
           <<IF x \in {c} THEN NoMaster ELSE w[x].master, w[x].summons \ {c}>>,
           <<w[x].seen, w[x].released, w[x].refs - (IF x \in {c} THEN 1 ELSE 0)>>)
  <2>1. w[x].refs \in Int /\ w[x] \in Body
    BY SoundIs, BodyIs
  <2>2. x # m => c \notin w[x].summons
    BY DEF Sound, Linked
  <2>3. /\ v[x].placed = w[x].placed /\ v[x].removed = w[x].removed
        /\ v[x].healthy = w[x].healthy /\ v[x].checked = w[x].checked
    BY <1>1, <1>2 DEF Body
  <2>4. v[x].listed = w[x].listed /\ v[x].seen = w[x].seen /\ v[x].released = w[x].released
    BY <1>1, <1>2 DEF Body
  <2>5. v[x].master = IF x \in {c} THEN NoMaster ELSE w[x].master
    BY <1>1, <1>2 DEF Body
  <2>6. v[x].summons = IF x = m THEN w[x].summons \ {c} ELSE w[x].summons
    BY <1>1, <1>2 DEF Body
  <2>7. v[x].summons = w[x].summons \ {c}
    BY <2>2, <2>6
  <2>8. v[x].refs = w[x].refs - (IF x \in {c} THEN 1 ELSE 0)
    <3>1. x # c => v[x].refs = w[x].refs
      BY <1>1, <1>2 DEF Body
    <3>2. v[c].refs = w[c].refs - 1
      BY <1>1, <1>2 DEF Body
    <3>. QED
      BY <2>1, <3>1, <3>2
  <2>9. v[x] \in Body
    BY <1>3
  <2>. QED
    BY <2>3, <2>4, <2>5, <2>7, <2>8, <2>9 DEF Has
<1>5. Unlinked(v, w, {c})
  BY <1>3, <1>4 DEF Unlinked
<1>. QED
  BY <1>1, <1>5, UnlinkedSound

-----------------------------------------------------------------------------
(* The list of m is given up, and its summons are killed.                  *)
Destroyed(v, w, m) ==
  /\ v \in [Bodies -> Body]
  /\ \A c \in Bodies :
       IF c = m
       THEN Has(v[c], <<w[c].placed, w[c].removed, w[c].healthy>>, <<w[c].checked, w[c].listed>>,
                <<w[c].master, {}>>, <<w[c].seen, w[c].released, w[c].refs>>)
       ELSE IF c \in w[m].summons
            THEN IF w[c].removed \/ ~w[c].healthy
                 THEN Has(v[c], <<w[c].placed, w[c].removed, FALSE>>,
                          <<w[c].checked, w[c].listed>>, <<NoMaster, w[c].summons>>,
                          <<w[c].seen, w[c].released, w[c].refs - 1>>)
                 ELSE Has(v[c], <<w[c].placed, w[c].removed, FALSE>>, <<TRUE, TRUE>>,
                          <<NoMaster, w[c].summons>>,
                          <<w[c].seen, w[c].released, w[c].refs - (IF w[c].listed THEN 1 ELSE 0)>>)
            ELSE v[c] = w[c]

LEMMA DestroySummonsIs ==
  ASSUME NEW w, Sound(w), NEW m \in Beasts, NEW v, v = DestroySummons(w, m)
  PROVE  Destroyed(v, w, m)
<1>0. m \in Bodies
  BY DEF Bodies
<1>1. v = [c \in Bodies |->
     IF c = m THEN [w[c] EXCEPT !.summons = {}]
     ELSE IF c \in w[m].summons
          THEN [Killed(w[c]) EXCEPT !.master = NoMaster, !.refs = @ - 1]
          ELSE w[c]]
  BY DEF DestroySummons
<1>2. ASSUME NEW c \in Bodies, c = m
      PROVE  Has(v[c], <<w[c].placed, w[c].removed, w[c].healthy>>, <<w[c].checked, w[c].listed>>,
                <<w[c].master, {}>>, <<w[c].seen, w[c].released, w[c].refs>>)
  <2>1. w[c] \in Body
    BY SoundIs
  <2>2. v[c] = [w[c] EXCEPT !.summons = {}]
    BY <1>1, <1>2
  <2>3. w[c].summons \ w[c].summons = {}
    OBVIOUS
  <2>4. v[c] = [w[c] EXCEPT !.summons = w[c].summons \ w[c].summons]
    BY <2>2, <2>3
  <2>5. Has(v[c], <<w[c].placed, w[c].removed, w[c].healthy>>, <<w[c].checked, w[c].listed>>,
             <<w[c].master, w[c].summons \ w[c].summons>>,
             <<w[c].seen, w[c].released, w[c].refs>>)
    BY <2>1, <2>4, StrippedIs
  <2>. QED
    BY <2>3, <2>5
<1>3. ASSUME NEW c \in Bodies, c # m, c \in w[m].summons
      PROVE  IF w[c].removed \/ ~w[c].healthy
                 THEN Has(v[c], <<w[c].placed, w[c].removed, FALSE>>,
                          <<w[c].checked, w[c].listed>>, <<NoMaster, w[c].summons>>,
                          <<w[c].seen, w[c].released, w[c].refs - 1>>)
                 ELSE Has(v[c], <<w[c].placed, w[c].removed, FALSE>>, <<TRUE, TRUE>>,
                          <<NoMaster, w[c].summons>>,
                          <<w[c].seen, w[c].released, w[c].refs - (IF w[c].listed THEN 1 ELSE 0)>>)
  <2>. DEFINE b == w[c]
              k == Killed(b)
  <2>1. b \in Body /\ b.refs \in Int
    BY SoundIs, BodyIs
  <2>2. v[c] = [k EXCEPT !.master = NoMaster, !.refs = k.refs - 1]
    BY <1>1, <1>3
  <2>3. IF b.removed \/ ~b.healthy
         THEN Has(k, <<b.placed, b.removed, FALSE>>, <<b.checked, b.listed>>,
                  <<b.master, b.summons>>, <<b.seen, b.released, b.refs>>)
         ELSE Has(k, <<b.placed, b.removed, FALSE>>, <<TRUE, TRUE>>, <<b.master, b.summons>>,
                  <<b.seen, b.released, b.refs + (IF b.listed THEN 0 ELSE 1)>>)
    <3>. HIDE DEF b
    <3>. QED
      BY <2>1, KilledIs
  <2>. HIDE DEF b, k
  <2>4. k \in Body
    BY <2>3 DEF Has
  <2>5. Has(v[c], <<k.placed, k.removed, k.healthy>>, <<k.checked, k.listed>>,
             <<NoMaster, k.summons>>, <<k.seen, k.released, k.refs - 1>>)
    BY <2>2, <2>4, FreedIs
  <2>6. CASE b.removed \/ ~b.healthy
    BY <2>3, <2>5, <2>6 DEF Has, b
  <2>7. CASE ~(b.removed \/ ~b.healthy)
    <3>1. k.refs - 1 = b.refs - (IF b.listed THEN 1 ELSE 0)
      BY <2>1, <2>3, <2>7 DEF Has
    <3>. QED
      BY <2>3, <2>5, <2>7, <3>1 DEF Has, b
  <2>. QED
    BY <2>6, <2>7 DEF b
<1>4. ASSUME NEW c \in Bodies, c # m, c \notin w[m].summons
      PROVE  v[c] = w[c]
  BY <1>1, <1>4
<1>5. v \in [Bodies -> Body]
  <2>1. ASSUME NEW c \in Bodies
        PROVE  v[c] \in Body
    <3>1. w[c] \in Body
      BY SoundIs
    <3>. QED
      BY <1>2, <1>3, <1>4, <3>1 DEF Has
  <2>2. v = [c \in Bodies |-> v[c]]
    BY <1>1
  <2>. QED
    BY <2>1, <2>2
<1>. QED
  BY <1>2, <1>3, <1>4, <1>5 DEF Destroyed

LEMMA DestroyedIs ==
  ASSUME NEW w, Sound(w), NEW m \in Beasts, NEW v, Destroyed(v, w, m), NEW c \in Bodies
  PROVE  /\ v[c].placed = w[c].placed /\ v[c].removed = w[c].removed
         /\ v[c].seen = w[c].seen /\ v[c].released = w[c].released
         /\ v[c].healthy = (w[c].healthy /\ c \notin w[m].summons)
         /\ v[c].checked = (w[c].checked \/ (c \in w[m].summons /\ ~w[c].removed /\ w[c].healthy))
         /\ v[c].listed = (w[c].listed \/ (c \in w[m].summons /\ ~w[c].removed /\ w[c].healthy))
         /\ v[c].master = IF c \in w[m].summons THEN NoMaster ELSE w[c].master
         /\ v[c].summons = IF c = m THEN {} ELSE w[c].summons
         /\ v[c] \in Body
<1>0. m \in Bodies /\ m \notin w[m].summons
  BY LedIs DEF Bodies
<1>1. w[c] \in Body
  BY SoundIs
<1>2. w[c].healthy \in BOOLEAN /\ w[c].checked \in BOOLEAN /\ w[c].listed \in BOOLEAN
  BY <1>1, BodyIs
<1>3. CASE c = m
  <2>1. Has(v[c], <<w[c].placed, w[c].removed, w[c].healthy>>, <<w[c].checked, w[c].listed>>,
                <<w[c].master, {}>>, <<w[c].seen, w[c].released, w[c].refs>>)
    BY <1>3 DEF Destroyed
  <2>. QED
    BY <1>0, <1>2, <1>3, <2>1 DEF Has
<1>4. CASE c # m /\ c \in w[m].summons /\ (w[c].removed \/ ~w[c].healthy)
  <2>1. Has(v[c], <<w[c].placed, w[c].removed, FALSE>>,
                          <<w[c].checked, w[c].listed>>, <<NoMaster, w[c].summons>>,
                          <<w[c].seen, w[c].released, w[c].refs - 1>>)
    BY <1>4 DEF Destroyed
  <2>. QED
    BY <1>2, <1>4, <2>1 DEF Has
<1>5. CASE c # m /\ c \in w[m].summons /\ ~(w[c].removed \/ ~w[c].healthy)
  <2>1. Has(v[c], <<w[c].placed, w[c].removed, FALSE>>, <<TRUE, TRUE>>,
                          <<NoMaster, w[c].summons>>,
                          <<w[c].seen, w[c].released, w[c].refs - (IF w[c].listed THEN 1 ELSE 0)>>)
    BY <1>5 DEF Destroyed
  <2>. QED
    BY <1>2, <1>5, <2>1 DEF Has
<1>6. CASE c # m /\ c \notin w[m].summons
  <2>1. v[c] = w[c]
    BY <1>6 DEF Destroyed
  <2>. QED
    BY <1>1, <1>2, <1>6, <2>1
<1>. QED
  BY <1>3, <1>4, <1>5, <1>6

LEMMA DestroyedSound ==
  ASSUME NEW w, Sound(w), NEW m \in Beasts, NEW v, Destroyed(v, w, m)
  PROVE  Sound(v)
<1>0. m \in Bodies /\ Masters \subseteq Bodies /\ NoMaster \notin Bodies
  BY SummonsAssumption DEF Bodies
<1>9. ASSUME NEW c \in Bodies
      PROVE  /\ v[c].placed = w[c].placed /\ v[c].removed = w[c].removed
             /\ v[c].healthy = (w[c].healthy /\ c \notin w[m].summons)
             /\ v[c].checked = (w[c].checked
                                \/ (c \in w[m].summons /\ ~w[c].removed /\ w[c].healthy))
             /\ v[c].listed = (w[c].listed
                               \/ (c \in w[m].summons /\ ~w[c].removed /\ w[c].healthy))
             /\ v[c] \in Body
  BY DestroyedIs
<1>1. ASSUME NEW c \in Bodies
      PROVE  Whole(v[c])
  <2>1. Whole(w[c]) /\ w[c].refs \in Int /\ w[c].released \in Nat /\ w[c].listed \in BOOLEAN
    BY SoundIs, BodyIs
  <2>2. c \in w[m].summons => c # m /\ w[c].master # NoMaster /\ (w[c].placed \/ w[c].removed)
    BY <1>0, LedIs
  <2>3. v[c].refs = Count(v[c])
    <3>1. CASE c = m
      <4>1. Has(v[c], <<w[c].placed, w[c].removed, w[c].healthy>>, <<w[c].checked, w[c].listed>>,
                <<w[c].master, {}>>, <<w[c].seen, w[c].released, w[c].refs>>)
        BY <3>1 DEF Destroyed
      <4>. QED
        BY <2>1, <4>1 DEF Has, Whole, Count
    <3>2. CASE c \in w[m].summons /\ (w[c].removed \/ ~w[c].healthy)
      <4>1. Has(v[c], <<w[c].placed, w[c].removed, FALSE>>,
                          <<w[c].checked, w[c].listed>>, <<NoMaster, w[c].summons>>,
                          <<w[c].seen, w[c].released, w[c].refs - 1>>)
        BY <2>2, <3>2 DEF Destroyed
      <4>. QED
        BY <2>1, <2>2, <3>2, <4>1 DEF Has, Whole, Count
    <3>3. CASE c \in w[m].summons /\ ~(w[c].removed \/ ~w[c].healthy)
      <4>1. Has(v[c], <<w[c].placed, w[c].removed, FALSE>>, <<TRUE, TRUE>>,
                          <<NoMaster, w[c].summons>>,
                          <<w[c].seen, w[c].released, w[c].refs - (IF w[c].listed THEN 1 ELSE 0)>>)
        BY <2>2, <3>3 DEF Destroyed
      <4>2. /\ v[c].placed = w[c].placed /\ v[c].listed /\ v[c].master = NoMaster
            /\ v[c].seen = w[c].seen /\ v[c].released = w[c].released
            /\ v[c].refs = w[c].refs - (IF w[c].listed THEN 1 ELSE 0)
        BY <4>1 DEF Has
      <4>. QED
        BY <2>1, <2>2, <3>3, <4>2 DEF Whole, Count
    <3>4. CASE c # m /\ c \notin w[m].summons
      <4>1. v[c] = w[c]
        BY <3>4 DEF Destroyed
      <4>. QED
        BY <2>1, <4>1 DEF Whole
    <3>. QED
      BY <3>1, <3>2, <3>3, <3>4
  <2>4. ~w[c].placed /\ ~w[c].removed => v[c] = Nobody
    <3>. SUFFICES ASSUME ~w[c].placed, ~w[c].removed
                  PROVE  v[c] = Nobody
      OBVIOUS
    <3>1. w[c] = Nobody /\ c \notin w[m].summons
      BY <2>1, <2>2 DEF Whole
    <3>2. w[c].summons = {}
      BY <3>1 DEF Nobody
    <3>3. CASE c = m
      <4>1. Has(v[c], <<w[c].placed, w[c].removed, w[c].healthy>>, <<w[c].checked, w[c].listed>>,
                <<w[c].master, {}>>, <<w[c].seen, w[c].released, w[c].refs>>)
        BY <3>3 DEF Destroyed
      <4>2. v[c] \in Body /\ w[c] \in Body
        BY <4>1, SoundIs DEF Has
      <4>3. v[c] = w[c]
        BY <3>2, <4>1, <4>2, SameBody DEF Has
      <4>. QED
        BY <3>1, <4>3
    <3>4. CASE c # m
      BY <3>1, <3>4 DEF Destroyed
    <3>. QED
      BY <3>3, <3>4
  <2>. QED
    BY <1>9, <2>1, <2>2, <2>3, <2>4 DEF Whole
<1>2. \A c, x \in Bodies : v[c].master = x <=> c \in v[x].summons
  <2>1. ASSUME NEW c \in Bodies, NEW x \in Bodies
        PROVE  v[c].master = x <=> c \in v[x].summons
    <3>1. w[c].master = x <=> c \in w[x].summons
      BY DEF Sound, Linked
    <3>2. w[c].master = m <=> c \in w[m].summons
      BY <1>0 DEF Sound, Linked
    <3>3. v[c].master = IF c \in w[m].summons THEN NoMaster ELSE w[c].master
      BY DestroyedIs
    <3>4. v[x].summons = IF x = m THEN {} ELSE w[x].summons
      BY DestroyedIs
    <3>. QED
      BY <1>0, <3>1, <3>2, <3>3, <3>4
  <2>. QED
    BY <2>1
<1>3. \A c \in Bodies : v[c].placed /\ v[c].master # NoMaster => v[v[c].master].placed
  <2>1. ASSUME NEW c \in Bodies, v[c].placed, v[c].master # NoMaster
        PROVE  v[v[c].master].placed
    <3>1. v[c].master = w[c].master /\ w[c].placed
      BY <2>1, DestroyedIs
    <3>2. w[w[c].master].placed /\ w[c].master \in Bodies
      BY <2>1, <3>1, SoundIs DEF Sound, Linked
    <3>. QED
      BY <3>1, <3>2, DestroyedIs
  <2>. QED
    BY <2>1
<1>4. \A c \in Bodies : v[c].master # c
  BY <1>0, DestroyedIs DEF Sound, Linked
<1>5. \A c \in Masters : v[c].placed => v[c].checked
  BY <1>0, <1>9 DEF Sound, Linked
<1>6. Linked(v)
  BY <1>2, <1>3, <1>4, <1>5 DEF Linked
<1>. QED
  BY <1>1, <1>6 DEF Sound, Destroyed

-----------------------------------------------------------------------------
(* c gets the master m.                                                    *)
Joined(v, w, m, c) ==
  /\ v \in [Bodies -> Body]
  /\ \A x \in Bodies :
       Has(v[x], <<w[x].placed, w[x].removed, w[x].healthy>>, <<w[x].checked, w[x].listed>>,
           <<IF x = c THEN m ELSE w[x].master,
             IF x = m THEN w[x].summons \cup {c} ELSE w[x].summons>>,
           <<w[x].seen, w[x].released, w[x].refs + (IF x = c THEN 1 ELSE 0)>>)

LEMMA AddSummonIs ==
  ASSUME NEW w \in [Bodies -> Body], NEW m \in Bodies, NEW c \in Beasts, c # m,
         NEW v, v = AddSummon(w, m, c)
  PROVE  Joined(v, w, m, c)
<1>1. c \in Bodies /\ w[c].refs \in Int /\ w[m].summons \in SUBSET Beasts
  BY BodyIs DEF Bodies
<1>2. v = [w EXCEPT ![m].summons = w[m].summons \cup {c}, ![c].master = m,
                    ![c].refs = w[c].refs + 1]
  BY <1>1 DEF AddSummon
<1>3. v \in [Bodies -> Body]
  <2>1. w[m].summons \cup {c} \in SUBSET Beasts /\ w[c].refs + 1 \in Int
    BY <1>1
  <2>. QED
    BY <1>1, <1>2, <2>1 DEF Body
<1>4. ASSUME NEW x \in Bodies
      PROVE  Has(v[x], <<w[x].placed, w[x].removed, w[x].healthy>>, <<w[x].checked, w[x].listed>>,
           <<IF x = c THEN m ELSE w[x].master,
             IF x = m THEN w[x].summons \cup {c} ELSE w[x].summons>>,
           <<w[x].seen, w[x].released, w[x].refs + (IF x = c THEN 1 ELSE 0)>>)
  <2>1. w[x].refs \in Int
    BY BodyIs
  <2>3. /\ v[x].placed = w[x].placed /\ v[x].removed = w[x].removed
        /\ v[x].healthy = w[x].healthy /\ v[x].checked = w[x].checked
    BY <1>1, <1>2 DEF Body
  <2>4. v[x].listed = w[x].listed /\ v[x].seen = w[x].seen /\ v[x].released = w[x].released
    BY <1>1, <1>2 DEF Body
  <2>5. v[x].master = IF x = c THEN m ELSE w[x].master
    BY <1>1, <1>2 DEF Body
  <2>6. v[x].summons = IF x = m THEN w[x].summons \cup {c} ELSE w[x].summons
    BY <1>1, <1>2 DEF Body
  <2>8. v[x].refs = w[x].refs + (IF x = c THEN 1 ELSE 0)
    <3>1. x # c => v[x].refs = w[x].refs
      BY <1>1, <1>2 DEF Body
    <3>2. v[c].refs = w[c].refs + 1
      BY <1>1, <1>2 DEF Body
    <3>. QED
      BY <2>1, <3>1, <3>2
  <2>9. v[x] \in Body
    BY <1>3
  <2>. QED
    BY <2>3, <2>4, <2>5, <2>6, <2>8, <2>9 DEF Has
<1>. QED
  BY <1>3, <1>4 DEF Joined

LEMMA JoinedSound ==
  ASSUME NEW w, Sound(w), NEW m \in Bodies, NEW c \in Beasts, c # m,
         w[m].placed, w[c].placed, w[c].master = NoMaster, NEW v, Joined(v, w, m, c)
  PROVE  Sound(v)
<1>0. c \in Bodies /\ Masters \subseteq Bodies /\ NoMaster \notin Bodies /\ w \in [Bodies -> Body]
  BY SummonsAssumption DEF Bodies, Sound
<1>9. ASSUME NEW x \in Bodies
      PROVE  /\ v[x] \in Body
             /\ v[x].placed = w[x].placed /\ v[x].removed = w[x].removed
             /\ v[x].healthy = w[x].healthy /\ v[x].checked = w[x].checked
             /\ v[x].listed = w[x].listed /\ v[x].seen = w[x].seen
             /\ v[x].released = w[x].released
             /\ v[x].master = IF x = c THEN m ELSE w[x].master
             /\ v[x].summons = IF x = m THEN w[x].summons \cup {c} ELSE w[x].summons
             /\ v[x].refs = w[x].refs + (IF x = c THEN 1 ELSE 0)
  BY DEF Joined, Has
<1>1. ASSUME NEW x \in Bodies
      PROVE  Whole(v[x])
  <2>1. Whole(w[x]) /\ w[x].refs \in Int /\ w[x].released \in Nat
    BY SoundIs, BodyIs
  <2>2. v[x].refs = Count(v[x])
    <3>1. /\ v[x].placed = w[x].placed /\ v[x].listed = w[x].listed
          /\ v[x].seen = w[x].seen /\ v[x].released = w[x].released
      BY <1>9
    <3>2. v[x].master = IF x = c THEN m ELSE w[x].master
      BY <1>9
    <3>3. v[x].refs = w[x].refs + (IF x = c THEN 1 ELSE 0)
      BY <1>9
    <3>4. m # NoMaster
      BY <1>0
    <3>5. CASE x = c
      BY <2>1, <3>1, <3>2, <3>3, <3>4, <3>5 DEF Whole, Count
    <3>6. CASE x # c
      BY <2>1, <3>1, <3>2, <3>3, <3>6 DEF Whole, Count
    <3>. QED
      BY <3>5, <3>6
  <2>3. ~w[x].placed /\ ~w[x].removed => v[x] = Nobody
    <3>. SUFFICES ASSUME ~w[x].placed, ~w[x].removed
                  PROVE  v[x] = Nobody
      OBVIOUS
    <3>1. x # m /\ x # c
      OBVIOUS
    <3>2. v[x] \in Body /\ w[x] \in Body
      BY <1>0, <1>9, SoundIs
    <3>3. v[x].refs = w[x].refs
      <4>1. v[x].refs = w[x].refs + (IF x = c THEN 1 ELSE 0)
        BY <1>9
      <4>. QED
        BY <2>1, <3>1, <4>1
    <3>4. v[x] = w[x]
      BY <1>0, <3>1, <3>2, <1>9, <3>3, SameBody
    <3>. QED
      BY <2>1, <3>4 DEF Whole
  <2>. QED
    BY <1>0, <2>1, <2>2, <2>3, <1>9 DEF Whole
<1>2. \A d, x \in Bodies : v[d].master = x <=> d \in v[x].summons
  <2>1. ASSUME NEW d \in Bodies, NEW x \in Bodies
        PROVE  v[d].master = x <=> d \in v[x].summons
    <3>1. w[d].master = x <=> d \in w[x].summons
      BY DEF Sound, Linked
    <3>2. v[d].master = IF d = c THEN m ELSE w[d].master
      BY <1>0, <1>9
    <3>3. v[x].summons = IF x = m THEN w[x].summons \cup {c} ELSE w[x].summons
      BY <1>0, <1>9
    <3>. QED
      BY <1>0, <3>1, <3>2, <3>3
  <2>. QED
    BY <2>1
<1>3. \A d \in Bodies : v[d].placed /\ v[d].master # NoMaster => v[v[d].master].placed
  <2>1. ASSUME NEW d \in Bodies, v[d].placed, v[d].master # NoMaster
        PROVE  v[v[d].master].placed
    <3>1. v[d].master = (IF d = c THEN m ELSE w[d].master) /\ w[d].placed
      BY <1>0, <2>1, <1>9
    <3>2. d # c => w[w[d].master].placed /\ w[d].master \in Bodies
      BY <2>1, <3>1, SoundIs DEF Sound, Linked
    <3>3. v[d].master \in Bodies /\ w[v[d].master].placed
      BY <3>1, <3>2
    <3>. QED
      BY <1>0, <3>3, <1>9
  <2>. QED
    BY <2>1
<1>4. \A d \in Bodies : v[d].master # d
  <2>1. ASSUME NEW d \in Bodies
        PROVE  v[d].master # d
    <3>1. w[d].master # d
      BY DEF Sound, Linked
    <3>2. v[d].master = IF d = c THEN m ELSE w[d].master
      BY <1>9
    <3>. QED
      BY <3>1, <3>2
  <2>. QED
    BY <2>1
<1>5. \A d \in Masters : v[d].placed => v[d].checked
  BY <1>0, <1>9 DEF Sound, Linked
<1>6. Linked(v)
  BY <1>2, <1>3, <1>4, <1>5 DEF Linked
<1>. QED
  BY <1>1, <1>6 DEF Sound, Joined

-----------------------------------------------------------------------------
(* One body changes, keeps its friends and does not leave the world.       *)
LEMMA OneSound ==
  ASSUME NEW w, Sound(w), NEW c \in Bodies, NEW t, Whole(t),
         t.master = w[c].master, t.summons = w[c].summons,
         w[c].placed => t.placed,
         t.placed /\ t.master # NoMaster => w[t.master].placed,
         c \in Masters /\ t.placed => t.checked,
         NEW v, v = [w EXCEPT ![c] = t]
  PROVE  Sound(v)
<1>0. w \in [Bodies -> Body] /\ t \in Body /\ Masters \subseteq Bodies /\ NoMaster \notin Bodies
  BY SummonsAssumption DEF Bodies, Sound, Whole
<1>1. v \in [Bodies -> Body] /\ \A x \in Bodies : v[x] = IF x = c THEN t ELSE w[x]
  BY <1>0
<1>2. \A x \in Bodies : /\ v[x].master = w[x].master /\ v[x].summons = w[x].summons
                        /\ w[x].placed => v[x].placed
  BY <1>1
<1>3. \A d, x \in Bodies : v[d].master = x <=> d \in v[x].summons
  BY <1>2 DEF Sound, Linked
<1>4. ASSUME NEW d \in Bodies, v[d].placed, v[d].master # NoMaster
      PROVE  v[v[d].master].placed
  <2>1. v[d].master = w[d].master /\ w[d].master \in Bodies
    BY <1>2, <1>4, SoundIs
  <2>2. w[w[d].master].placed
    <3>1. CASE d = c
      BY <1>1, <1>4, <3>1
    <3>2. CASE d # c
      <4>1. w[d].placed
        BY <1>1, <1>4, <3>2
      <4>. QED
        BY <1>4, <2>1, <4>1 DEF Sound, Linked
    <3>. QED
      BY <3>1, <3>2
  <2>. QED
    BY <1>2, <2>1, <2>2
<1>5. \A d \in Bodies : v[d].master # d
  BY <1>2 DEF Sound, Linked
<1>6. \A d \in Masters : v[d].placed => v[d].checked
  BY <1>0, <1>1 DEF Sound, Linked
<1>7. Linked(v)
  BY <1>3, <1>4, <1>5, <1>6 DEF Linked
<1>8. \A x \in Bodies : Whole(v[x])
  BY <1>1 DEF Sound
<1>. QED
  BY <1>1, <1>7, <1>8 DEF Sound

LEMMA EntersIs ==
  ASSUME NEW b \in Body, ~b.removed, ~b.listed, NEW t,
         t = AddCreatureCheck([b EXCEPT !.placed = TRUE, !.healthy = TRUE, !.refs = b.refs + 1])
  PROVE  Has(t, <<TRUE, b.removed, TRUE>>, <<TRUE, TRUE>>, <<b.master, b.summons>>,
             <<b.seen, b.released, b.refs + 2>>)
<1>. DEFINE u == [b EXCEPT !.placed = TRUE, !.healthy = TRUE, !.refs = b.refs + 1]
<1>1. b.refs + 1 \in Int /\ b.refs \in Int
  BY BodyIs
<1>2. u \in Body
  BY <1>1 DEF Body
<1>3. u.placed = TRUE /\ u.removed = b.removed /\ u.healthy = TRUE
  BY DEF Body
<1>4. u.checked = b.checked /\ u.listed = b.listed /\ u.master = b.master
  BY DEF Body
<1>5. u.summons = b.summons /\ u.seen = b.seen /\ u.released = b.released
  BY DEF Body
<1>6. u.refs = b.refs + 1
  BY DEF Body
<1>7. t = AddCreatureCheck(u)
  OBVIOUS
<1>. HIDE DEF u
<1>8. Has(t, <<u.placed, u.removed, u.healthy>>, <<TRUE, TRUE>>, <<u.master, u.summons>>,
             <<u.seen, u.released, u.refs + (IF u.listed THEN 0 ELSE 1)>>)
  BY <1>2, <1>3, <1>7, AddCreatureCheckIs
<1>9. u.refs + (IF u.listed THEN 0 ELSE 1) = b.refs + 2
  BY <1>1, <1>4, <1>6
<1>. QED
  BY <1>3, <1>4, <1>5, <1>8, <1>9

(* c comes into the world and is to be checked.                            *)
Entered(v, w, c) ==
  /\ v \in [Bodies -> Body]
  /\ \A x \in Bodies \ {c} : v[x] = w[x]
  /\ Has(v[c], <<TRUE, w[c].removed, TRUE>>, <<TRUE, TRUE>>, <<w[c].master, w[c].summons>>,
         <<w[c].seen, w[c].released, w[c].refs + 2>>)

LEMMA PlacedIs ==
  ASSUME NEW w \in [Bodies -> Body], NEW c \in Bodies, ~w[c].removed, ~w[c].listed,
         NEW v, v = Placed(w, c)
  PROVE  Entered(v, w, c)
<1>. DEFINE b == w[c]
            t == AddCreatureCheck([b EXCEPT !.placed = TRUE, !.healthy = TRUE, !.refs = b.refs + 1])
<1>1. v = [w EXCEPT ![c] = t]
  BY DEF Placed
<1>2. Has(t, <<TRUE, b.removed, TRUE>>, <<TRUE, TRUE>>, <<b.master, b.summons>>,
             <<b.seen, b.released, b.refs + 2>>)
  <2>1. b \in Body
    OBVIOUS
  <2>. HIDE DEF b
  <2>. QED
    BY <2>1, EntersIs DEF b
<1>. HIDE DEF t
<1>3. t \in Body
  BY <1>2 DEF Has
<1>. QED
  BY <1>1, <1>2, <1>3 DEF Entered

LEMMA PlaceSound ==
  ASSUME NEW w, Sound(w), NEW c \in Bodies, ~w[c].placed, ~w[c].removed,
         NEW v, v = Placed(w, c)
  PROVE  Sound(v)
<1>1. w[c] = Nobody /\ w \in [Bodies -> Body]
  BY SoundIs DEF Whole, Sound
<1>2. w[c].removed = FALSE /\ w[c].listed = FALSE
  BY <1>1 DEF Nobody
<1>3. Entered(v, w, c)
  BY <1>1, <1>2, PlacedIs
<1>4. w[c].master = NoMaster /\ w[c].summons = {} /\ w[c].seen = FALSE /\ w[c].released = 0
      /\ w[c].refs = 0
  BY <1>1 DEF Nobody
<1>. DEFINE t == v[c]
<1>5. v = [w EXCEPT ![c] = t]
  BY <1>1, <1>3 DEF Entered
<1>6. /\ t.placed = TRUE /\ t.removed = FALSE /\ t.healthy = TRUE /\ t.checked = TRUE
      /\ t.listed = TRUE /\ t.seen = FALSE /\ t.released = 0 /\ t \in Body
  BY <1>2, <1>3, <1>4 DEF Has, Entered
<1>7. t.master = NoMaster /\ t.summons = {}
  BY <1>3, <1>4 DEF Has, Entered
<1>9. t.refs = 2
  BY <1>3, <1>4 DEF Has, Entered
<1>. HIDE DEF t
<1>10. Count(t) = 2
  BY <1>6, <1>7 DEF Count
<1>11. Whole(t)
  BY <1>6, <1>9, <1>10 DEF Whole
<1>8. t.master = w[c].master /\ t.summons = w[c].summons
  BY <1>4, <1>7
<1>. QED
  BY <1>5, <1>6, <1>7, <1>8, <1>11, OneSound

LEMMA PlaceSummonSound ==
  ASSUME NEW w, Sound(w), NEW m \in Bodies, w[m].placed, NEW c \in Beasts,
         ~w[c].placed, ~w[c].removed, NEW u, u = AddSummon(w, m, c)
  PROVE  /\ Sound(Placed(u, c))
         /\ RemoveSummon(u, m, c) = w
<1>. DEFINE v == Placed(u, c)
            q == Placed(w, c)
            r == RemoveSummon(u, m, c)
<1>0. w \in [Bodies -> Body] /\ c \in Bodies /\ c # m /\ NoMaster \notin Bodies
  BY SummonsAssumption DEF Sound, Bodies
<1>1. w[c] = Nobody
  BY <1>0, SoundIs DEF Whole
<1>2. /\ w[c].removed = FALSE /\ w[c].listed = FALSE /\ w[c].master = NoMaster /\ w[c].summons = {}
      /\ ~w[c].placed /\ w[c].refs = 0 /\ w[c].checked = FALSE
  BY <1>1 DEF Nobody
<1>3. Joined(u, w, m, c)
  BY <1>0, AddSummonIs
<1>4. u \in [Bodies -> Body]
  BY <1>3 DEF Joined
<1>5. ASSUME NEW x \in Bodies
      PROVE  Has(u[x], <<w[x].placed, w[x].removed, w[x].healthy>>, <<w[x].checked, w[x].listed>>,
           <<IF x = c THEN m ELSE w[x].master,
             IF x = m THEN w[x].summons \cup {c} ELSE w[x].summons>>,
           <<w[x].seen, w[x].released, w[x].refs + (IF x = c THEN 1 ELSE 0)>>)
  BY <1>3 DEF Joined
<1>6. Sound(v)
  <2>1. Entered(q, w, c)
    BY <1>0, <1>2, PlacedIs
  <2>2. ~u[c].removed /\ ~u[c].listed
    BY <1>0, <1>2, <1>5 DEF Has
  <2>3. Entered(v, u, c)
    BY <1>0, <1>4, <2>2, PlacedIs
  <2>4. Sound(q)
    BY <1>0, <1>2, PlaceSound
  <2>. HIDE DEF v, q
  <2>5. ASSUME NEW x \in Bodies
        PROVE  Has(v[x], <<q[x].placed, q[x].removed, q[x].healthy>>, <<q[x].checked, q[x].listed>>,
           <<IF x = c THEN m ELSE q[x].master,
             IF x = m THEN q[x].summons \cup {c} ELSE q[x].summons>>,
           <<q[x].seen, q[x].released, q[x].refs + (IF x = c THEN 1 ELSE 0)>>)
    <3>1. CASE x = c
      <4>1. /\ u[c].removed = w[c].removed /\ u[c].master = m /\ u[c].summons = w[c].summons
            /\ u[c].seen = w[c].seen /\ u[c].released = w[c].released
        BY <1>0, <1>5 DEF Has
      <4>2. u[c].refs = 1
        <5>1. u[c].refs = w[c].refs + (IF c = c THEN 1 ELSE 0)
          BY <1>0, <1>5 DEF Has
        <5>. QED
          BY <1>2, <5>1
      <4>3. /\ v[c].placed = TRUE /\ v[c].removed = w[c].removed /\ v[c].healthy = TRUE
            /\ v[c].checked = TRUE /\ v[c].listed = TRUE /\ v[c].master = m
            /\ v[c].summons = w[c].summons /\ v[c].seen = w[c].seen
            /\ v[c].released = w[c].released /\ v[c] \in Body
        BY <2>3, <4>1 DEF Has, Entered
      <4>4. /\ q[c].placed = TRUE /\ q[c].removed = w[c].removed /\ q[c].healthy = TRUE
            /\ q[c].checked = TRUE /\ q[c].listed = TRUE /\ q[c].summons = w[c].summons
            /\ q[c].seen = w[c].seen /\ q[c].released = w[c].released
        BY <2>1 DEF Has, Entered
      <4>5. v[c].refs = u[c].refs + 2 /\ q[c].refs = w[c].refs + 2
        BY <2>1, <2>3 DEF Has, Entered
      <4>6. v[c].refs = q[c].refs + 1
        BY <1>2, <4>2, <4>5
      <4>. QED
        BY <1>0, <3>1, <4>3, <4>4, <4>6 DEF Has
    <3>2. CASE x # c
      BY <1>5, <2>1, <2>3, <3>2 DEF Entered
    <3>. QED
      BY <3>1, <3>2
  <2>6. Joined(v, q, m, c)
    BY <2>3, <2>5 DEF Joined, Entered
  <2>7. q[m].placed /\ q[c].placed /\ q[c].master = NoMaster
    BY <1>0, <1>2, <2>1 DEF Has, Entered
  <2>. QED
    BY <1>0, <2>4, <2>6, <2>7, JoinedSound
<1>7. r = w
  <2>1. c \in u[m].summons /\ u[m].summons \ {c} = w[m].summons /\ u[c].refs - 1 = w[c].refs
    <3>1. c \notin w[m].summons
      BY <1>0, <1>2 DEF Sound, Linked
    <3>2. u[m].summons = w[m].summons \cup {c}
      BY <1>0, <1>5 DEF Has
    <3>3. u[c].refs = w[c].refs + 1
      BY <1>0, <1>5 DEF Has
    <3>. QED
      BY <1>2, <3>1, <3>2, <3>3
  <2>2. r = [u EXCEPT ![m].summons = w[m].summons, ![c].master = NoMaster, ![c].refs = w[c].refs]
    BY <2>1 DEF RemoveSummon
  <2>. HIDE DEF r
  <2>3. w[m].summons \in SUBSET Beasts /\ w[c].refs \in Int
    BY <1>0, BodyIs
  <2>4. r \in [Bodies -> Body]
    <3>. DEFINE a == [u[m] EXCEPT !.summons = w[m].summons]
                b == [u[c] EXCEPT !.master = NoMaster, !.refs = w[c].refs]
    <3>1. u[m] \in Body /\ u[c] \in Body
      BY <1>0, <1>4
    <3>2. a \in Body /\ b \in Body
      BY <2>3, <3>1 DEF Body
    <3>3. r = [u EXCEPT ![m] = a, ![c] = b]
      BY <1>0, <2>2
    <3>. HIDE DEF a, b
    <3>. QED
      BY <1>0, <1>4, <3>2, <3>3
  <2>5. ASSUME NEW x \in Bodies
        PROVE  r[x] = w[x]
    <3>1. /\ r[x].placed = u[x].placed /\ r[x].removed = u[x].removed
          /\ r[x].healthy = u[x].healthy /\ r[x].checked = u[x].checked
      BY <1>0, <1>4, <2>2 DEF Body
    <3>2. r[x].listed = u[x].listed /\ r[x].seen = u[x].seen /\ r[x].released = u[x].released
      BY <1>0, <1>4, <2>2 DEF Body
    <3>3. r[x].master = IF x = c THEN NoMaster ELSE u[x].master
      BY <1>0, <1>4, <2>2 DEF Body
    <3>4. r[x].summons = IF x = m THEN w[m].summons ELSE u[x].summons
      BY <1>0, <1>4, <2>2 DEF Body
    <3>5. r[x].refs = IF x = c THEN w[c].refs ELSE u[x].refs
      BY <1>0, <1>4, <2>2 DEF Body
    <3>6. w[x] \in Body /\ r[x] \in Body /\ w[x].refs \in Int
      BY <1>0, <2>4, BodyIs
    <3>7. r[x].master = w[x].master
      BY <1>2, <1>5, <3>3 DEF Has
    <3>8. r[x].summons = w[x].summons
      BY <1>5, <3>4 DEF Has
    <3>9. r[x].refs = w[x].refs
      <4>1. x # c => u[x].refs = w[x].refs + 0
        BY <1>5 DEF Has
      <4>. QED
        BY <3>5, <3>6, <4>1
    <3>10. /\ u[x].placed = w[x].placed /\ u[x].removed = w[x].removed
           /\ u[x].healthy = w[x].healthy /\ u[x].checked = w[x].checked
           /\ u[x].listed = w[x].listed /\ u[x].seen = w[x].seen /\ u[x].released = w[x].released
      BY <1>5 DEF Has
    <3>. QED
      BY <3>1, <3>2, <3>6, <3>7, <3>8, <3>9, <3>10, SameBody
  <2>. QED
    BY <1>0, <2>4, <2>5
<1>. QED
  BY <1>6, <1>7

-----------------------------------------------------------------------------
(* gone is far with those who follow.                                      *)
Follows(gone, w, far) ==
  /\ far \subseteq gone /\ gone \subseteq Bodies
  /\ \A m \in gone : \A d \in w[m].summons : w[d].removed \/ d \in gone
  /\ \A d \in gone : d \in far \/ \E m \in gone : d \in w[m].summons /\ ~w[d].removed

LEMMA FollowingIs ==
  ASSUME NEW w, Sound(w), NEW far \in SUBSET Bodies
  PROVE  Follows(Following(w, far), w, far)
<1>. DEFINE Closed(S) == \A m \in S : \A d \in w[m].summons : w[d].removed \/ d \in S
            closed == {S \in SUBSET Bodies : far \subseteq S /\ Closed(S)}
            gone == {c \in Bodies : \A S \in closed : c \in S}
<1>1. Following(w, far) = gone
  BY DEF Following
<1>2. far \subseteq gone /\ gone \subseteq Bodies
  OBVIOUS
<1>3. ASSUME NEW m \in gone, NEW d \in w[m].summons, ~w[d].removed
      PROVE  d \in gone
  <2>1. d \in Bodies
    BY SoundIs
  <2>2. ASSUME NEW S \in closed
        PROVE  d \in S
    BY <1>3
  <2>. QED
    BY <2>1, <2>2
<1>4. ASSUME NEW d \in gone, d \notin far,
             \A m \in gone : ~(d \in w[m].summons /\ ~w[d].removed)
      PROVE  FALSE
  <2>. DEFINE S == gone \ {d}
  <2>1. S \in SUBSET Bodies /\ far \subseteq S /\ d \notin S
    BY <1>2, <1>4
  <2>2. ASSUME NEW m \in S, NEW e \in w[m].summons
        PROVE  w[e].removed \/ e \in S
    <3>1. m \in gone
      BY <2>2
    <3>2. w[e].removed \/ e \in gone
      BY <1>3, <2>2, <3>1
    <3>3. e # d \/ w[e].removed
      BY <1>4, <2>2, <3>1
    <3>. QED
      BY <3>2, <3>3
  <2>3. Closed(S)
    BY <2>2
  <2>4. S \in closed
    BY <2>1, <2>3
  <2>. QED
    BY <1>4, <2>1, <2>4
<1>. HIDE DEF gone
<1>5. Follows(gone, w, far)
  BY <1>2, <1>3, <1>4 DEF Follows
<1>. QED
  BY <1>1, <1>5

(* The bodies of gone are removed, and those of free taken off lists.      *)
Departed(v, w, gone, free) ==
  /\ v \in [Bodies -> Body]
  /\ \A c \in Bodies :
       IF c \in gone
       THEN Has(v[c], <<FALSE, TRUE, w[c].healthy>>, <<FALSE, w[c].listed>>,
                <<IF c \in free THEN NoMaster ELSE w[c].master, w[c].summons \ free>>,
                <<w[c].seen, w[c].released + 1, w[c].refs - (IF c \in free THEN 1 ELSE 0)>>)
       ELSE Has(v[c], <<w[c].placed, w[c].removed, w[c].healthy>>, <<w[c].checked, w[c].listed>>,
                <<w[c].master, w[c].summons \ free>>, <<w[c].seen, w[c].released, w[c].refs>>)

LEMMA RemoveCreaturesIs ==
  ASSUME NEW w, Sound(w), NEW far \in SUBSET Bodies, NEW v, v = RemoveCreatures(w, far)
  PROVE  LET gone == Following(w, {c \in far : ~w[c].removed})
         IN  Departed(v, w, gone, LetGo(w, gone))
<1>. DEFINE gone == Following(w, {c \in far : ~w[c].removed})
            free == LetGo(w, gone)
            s(c) == [w[c] EXCEPT !.summons = w[c].summons \ free]
            f(c) == [s(c) EXCEPT !.master = NoMaster, !.refs = s(c).refs - 1]
<1>1. v = [c \in Bodies |-> IF c \in free THEN Removed(f(c))
                        ELSE IF c \in gone THEN Removed(s(c)) ELSE s(c)]
  BY DEF RemoveCreatures
<1>2. free \subseteq gone
  BY DEF LetGo
<1>. HIDE DEF free, gone
<1>3. ASSUME NEW c \in Bodies
      PROVE  Has(s(c), <<w[c].placed, w[c].removed, w[c].healthy>>, <<w[c].checked, w[c].listed>>,
             <<w[c].master, w[c].summons \ free>>, <<w[c].seen, w[c].released, w[c].refs>>)
  <2>1. w[c] \in Body
    BY SoundIs
  <2>. QED
    BY <2>1, StrippedIs
<1>4. ASSUME NEW c \in Bodies
      PROVE  Has(f(c), <<w[c].placed, w[c].removed, w[c].healthy>>, <<w[c].checked, w[c].listed>>,
             <<NoMaster, w[c].summons \ free>>, <<w[c].seen, w[c].released, w[c].refs - 1>>)
  <2>. DEFINE b == s(c)
              t == f(c)
  <2>1. b \in Body
    BY <1>3 DEF Has
  <2>2. t = [b EXCEPT !.master = NoMaster, !.refs = b.refs - 1]
    OBVIOUS
  <2>. HIDE DEF b, t
  <2>3. Has(t, <<b.placed, b.removed, b.healthy>>, <<b.checked, b.listed>>,
             <<NoMaster, b.summons>>, <<b.seen, b.released, b.refs - 1>>)
    BY <2>1, <2>2, FreedIs
  <2>4. /\ b.placed = w[c].placed /\ b.removed = w[c].removed /\ b.healthy = w[c].healthy
        /\ b.checked = w[c].checked /\ b.listed = w[c].listed /\ b.summons = w[c].summons \ free
        /\ b.seen = w[c].seen /\ b.released = w[c].released /\ b.refs = w[c].refs
    BY <1>3 DEF b, Has
  <2>5. Has(t, <<w[c].placed, w[c].removed, w[c].healthy>>, <<w[c].checked, w[c].listed>>,
             <<NoMaster, w[c].summons \ free>>, <<w[c].seen, w[c].released, w[c].refs - 1>>)
    BY <2>3, <2>4
  <2>. QED
    BY <2>5 DEF t
<1>. HIDE DEF s, f
<1>5. ASSUME NEW c \in Bodies, c \in gone
      PROVE  Has(v[c], <<FALSE, TRUE, w[c].healthy>>, <<FALSE, w[c].listed>>,
                <<IF c \in free THEN NoMaster ELSE w[c].master, w[c].summons \ free>>,
                <<w[c].seen, w[c].released + 1, w[c].refs - (IF c \in free THEN 1 ELSE 0)>>)
  <2>. DEFINE b == IF c \in free THEN f(c) ELSE s(c)
  <2>1. v[c] = Removed(b)
    BY <1>1, <1>5
  <2>2. Has(b, <<w[c].placed, w[c].removed, w[c].healthy>>, <<w[c].checked, w[c].listed>>,
             <<IF c \in free THEN NoMaster ELSE w[c].master, w[c].summons \ free>>,
             <<w[c].seen, w[c].released, w[c].refs - (IF c \in free THEN 1 ELSE 0)>>)
    <3>1. CASE c \in free
      BY <1>4, <3>1
    <3>2. CASE c \notin free
      <4>1. w[c].refs - 0 = w[c].refs
        BY SoundIs, BodyIs
      <4>. QED
        BY <1>3, <3>2, <4>1
    <3>. QED
      BY <3>1, <3>2
  <2>. HIDE DEF b
  <2>3. b \in Body
    BY <2>2 DEF Has
  <2>4. Has(v[c], <<FALSE, TRUE, b.healthy>>, <<FALSE, b.listed>>, <<b.master, b.summons>>,
             <<b.seen, b.released + 1, b.refs>>)
    BY <2>1, <2>3, RemovedIs
  <2>5. /\ b.healthy = w[c].healthy /\ b.listed = w[c].listed
        /\ b.master = (IF c \in free THEN NoMaster ELSE w[c].master)
        /\ b.summons = w[c].summons \ free /\ b.seen = w[c].seen
        /\ b.released = w[c].released
        /\ b.refs = w[c].refs - (IF c \in free THEN 1 ELSE 0)
    BY <2>2 DEF Has
  <2>. QED
    BY <2>4, <2>5
<1>6. ASSUME NEW c \in Bodies, c \notin gone
      PROVE  Has(v[c], <<w[c].placed, w[c].removed, w[c].healthy>>, <<w[c].checked, w[c].listed>>,
                <<w[c].master, w[c].summons \ free>>, <<w[c].seen, w[c].released, w[c].refs>>)
  <2>1. v[c] = s(c)
    BY <1>1, <1>2, <1>6
  <2>. QED
    BY <1>3, <2>1
<1>7. v \in [Bodies -> Body]
  <2>1. \A c \in Bodies : v[c] \in Body
    BY <1>5, <1>6 DEF Has
  <2>2. v = [c \in Bodies |-> v[c]]
    BY <1>1
  <2>. QED
    BY <2>1, <2>2
<1>8. Departed(v, w, gone, free)
  BY <1>5, <1>6, <1>7 DEF Departed
<1>. QED
  BY <1>8 DEF gone, free

(* Who is placed can be removed.                                           *)
LEMMA DepartedSound ==
  ASSUME NEW w, Sound(w), NEW far \in SUBSET Bodies, \A c \in far : w[c].placed,
         NEW gone, Follows(gone, w, far),
         NEW v, Departed(v, w, gone, LetGo(w, gone))
  PROVE  Sound(v)
<1>. DEFINE free == LetGo(w, gone)
<1>0. gone \subseteq Bodies /\ free \subseteq gone /\ Masters \subseteq Bodies /\ NoMaster \notin Bodies
  BY SummonsAssumption DEF Follows, LetGo, Bodies
<1>1. ASSUME NEW c \in gone
      PROVE  w[c].placed /\ ~w[c].removed
  <2>1. CASE c \in far
    BY <1>0, <2>1, SoundIs DEF Whole
  <2>2. CASE c \notin far
    <3>1. PICK m \in gone : c \in w[m].summons /\ ~w[c].removed
      BY <2>2 DEF Follows
    <3>2. m \in Bodies /\ c \in Bodies
      BY <1>0
    <3>. QED
      BY <3>1, <3>2, LedIs
  <2>. QED
    BY <2>1, <2>2
<1>2. ASSUME NEW c \in free
      PROVE  w[c].master # NoMaster
  BY <1>0 DEF LetGo
<1>3. Departed(v, w, gone, free)
  OBVIOUS
<1>. HIDE DEF free
<1>4. ASSUME NEW c \in Bodies
      PROVE  /\ v[c] \in Body
             /\ v[c].placed = (w[c].placed /\ c \notin gone)
             /\ v[c].removed = (w[c].removed \/ c \in gone)
             /\ v[c].healthy = w[c].healthy /\ v[c].checked = (w[c].checked /\ c \notin gone)
             /\ v[c].listed = w[c].listed /\ v[c].seen = w[c].seen
             /\ v[c].released = w[c].released + (IF c \in gone THEN 1 ELSE 0)
             /\ v[c].master = (IF c \in free THEN NoMaster ELSE w[c].master)
             /\ v[c].summons = w[c].summons \ free
             /\ v[c].refs = w[c].refs - (IF c \in free THEN 1 ELSE 0)
  <2>1. w[c] \in Body /\ w[c].refs \in Int /\ w[c].released \in Nat
    BY SoundIs, BodyIs
  <2>2. w[c].placed \in BOOLEAN /\ w[c].removed \in BOOLEAN /\ w[c].checked \in BOOLEAN
    BY <2>1, BodyIs
  <2>3. CASE c \in gone
    <3>1. Has(v[c], <<FALSE, TRUE, w[c].healthy>>, <<FALSE, w[c].listed>>,
                <<IF c \in free THEN NoMaster ELSE w[c].master, w[c].summons \ free>>,
                <<w[c].seen, w[c].released + 1, w[c].refs - (IF c \in free THEN 1 ELSE 0)>>)
      BY <1>3, <2>3 DEF Departed
    <3>. QED
      BY <2>3, <3>1 DEF Has
  <2>4. CASE c \notin gone
    <3>1. Has(v[c], <<w[c].placed, w[c].removed, w[c].healthy>>, <<w[c].checked, w[c].listed>>,
                <<w[c].master, w[c].summons \ free>>, <<w[c].seen, w[c].released, w[c].refs>>)
      BY <1>3, <2>4 DEF Departed
    <3>2. c \notin free /\ w[c].refs - 0 = w[c].refs /\ w[c].released + 0 = w[c].released
      BY <1>0, <2>1, <2>4
    <3>. QED
      BY <2>2, <2>4, <3>1, <3>2 DEF Has
  <2>. QED
    BY <2>3, <2>4
<1>5. ASSUME NEW c \in Bodies
      PROVE  Whole(v[c])
  <2>1. Whole(w[c]) /\ w[c].refs \in Int /\ w[c].released \in Nat
    BY SoundIs, BodyIs
  <2>2. c \in gone => w[c].placed /\ ~w[c].removed
    BY <1>1
  <2>3. c \in free => w[c].master # NoMaster /\ c \in gone
    BY <1>0, <1>2
  <2>4. v[c].refs = Count(v[c])
    <3>1. /\ v[c].placed = (w[c].placed /\ c \notin gone)
          /\ v[c].listed = w[c].listed /\ v[c].seen = w[c].seen
          /\ v[c].released = w[c].released + (IF c \in gone THEN 1 ELSE 0)
      BY <1>4
    <3>2. /\ v[c].master = (IF c \in free THEN NoMaster ELSE w[c].master)
          /\ v[c].refs = w[c].refs - (IF c \in free THEN 1 ELSE 0)
      BY <1>4
    <3>3. CASE c \in free
      <4>1. /\ v[c].placed = FALSE /\ v[c].released = w[c].released + 1
            /\ v[c].master = NoMaster /\ v[c].refs = w[c].refs - 1
        BY <2>3, <3>1, <3>2, <3>3
      <4>2. w[c].placed /\ w[c].master # NoMaster
        BY <2>2, <2>3, <3>3
      <4>. QED
        BY <2>1, <3>1, <4>1, <4>2 DEF Whole, Count
    <3>4. CASE c \notin free /\ c \in gone
      <4>2. v[c].placed = FALSE /\ v[c].released = w[c].released + 1
        BY <3>1, <3>4
      <4>3. v[c].master = w[c].master /\ v[c].refs = w[c].refs
        BY <2>1, <3>2, <3>4
      <4>1. /\ v[c].placed = FALSE /\ v[c].released = w[c].released + 1
            /\ v[c].master = w[c].master /\ v[c].refs = w[c].refs
        BY <4>2, <4>3
      <4>. QED
        BY <2>1, <2>2, <3>1, <3>4, <4>1 DEF Whole, Count
    <3>5. CASE c \notin gone
      <4>1. /\ v[c].released = w[c].released
            /\ v[c].master = w[c].master /\ v[c].refs = w[c].refs
        BY <2>1, <2>3, <3>1, <3>2, <3>5
      <4>2. v[c].placed = w[c].placed
        <5>1. w[c].placed \in BOOLEAN
          BY SoundIs, BodyIs
        <5>. QED
          BY <3>1, <3>5, <5>1
      <4>. QED
        BY <2>1, <3>1, <4>1, <4>2 DEF Whole, Count
    <3>. QED
      BY <3>3, <3>4, <3>5
  <2>5. ~v[c].placed /\ ~v[c].removed => v[c] = Nobody
    <3>. SUFFICES ASSUME ~v[c].placed, ~v[c].removed
                  PROVE  v[c] = Nobody
      OBVIOUS
    <3>1. c \notin gone /\ ~w[c].placed /\ ~w[c].removed
      BY <1>4
    <3>2. w[c] = Nobody
      BY <2>1, <3>1 DEF Whole
    <3>3. w[c].summons = {}
      BY <3>2 DEF Nobody
    <3>4. v[c].summons = w[c].summons
      BY <1>4, <3>3
    <3>5. /\ v[c].placed = w[c].placed /\ v[c].removed = w[c].removed
          /\ v[c].checked = w[c].checked /\ v[c].released = w[c].released
          /\ v[c].master = w[c].master /\ v[c].refs = w[c].refs
      <4>1. Has(v[c], <<w[c].placed, w[c].removed, w[c].healthy>>, <<w[c].checked, w[c].listed>>,
                <<w[c].master, w[c].summons \ free>>, <<w[c].seen, w[c].released, w[c].refs>>)
        BY <1>3, <3>1 DEF Departed
      <4>. QED
        BY <4>1 DEF Has
    <3>6. v[c] \in Body /\ w[c] \in Body
      BY <1>4, <2>1 DEF Whole
    <3>7. v[c].healthy = w[c].healthy /\ v[c].listed = w[c].listed /\ v[c].seen = w[c].seen
      BY <1>4
    <3>8. v[c] = w[c]
      BY <3>4, <3>5, <3>6, <3>7, SameBody
    <3>. QED
      BY <3>2, <3>8
  <2>6. /\ v[c] \in Body
        /\ v[c].placed = (w[c].placed /\ c \notin gone)
        /\ v[c].removed = (w[c].removed \/ c \in gone)
        /\ v[c].healthy = w[c].healthy /\ v[c].checked = (w[c].checked /\ c \notin gone)
        /\ v[c].listed = w[c].listed
    BY <1>4
  <2>. QED
    BY <2>1, <2>4, <2>5, <2>6 DEF Whole
<1>6. \A c, m \in Bodies : v[c].master = m <=> c \in v[m].summons
  <2>1. ASSUME NEW c \in Bodies, NEW m \in Bodies
        PROVE  v[c].master = m <=> c \in v[m].summons
    <3>1. w[c].master = m <=> c \in w[m].summons
      BY DEF Sound, Linked
    <3>2. v[c].master = (IF c \in free THEN NoMaster ELSE w[c].master)
      BY <1>4
    <3>3. v[m].summons = w[m].summons \ free
      BY <1>4
    <3>. QED
      BY <1>0, <3>1, <3>2, <3>3
  <2>. QED
    BY <2>1
<1>7. \A c \in Bodies : v[c].placed /\ v[c].master # NoMaster => v[v[c].master].placed
  <2>1. ASSUME NEW c \in Bodies, v[c].placed, v[c].master # NoMaster
        PROVE  v[v[c].master].placed
    <3>1. w[c].placed /\ c \notin gone /\ v[c].master = w[c].master
      BY <1>4, <2>1
    <3>. DEFINE m == w[c].master
    <3>2. w[m].placed /\ m \in Bodies /\ c \in w[m].summons
      BY <2>1, <3>1, SoundIs DEF Sound, Linked
    <3>3. ~w[c].removed
      BY <3>1, SoundIs DEF Whole
    <3>4. m \notin gone
      BY <3>1, <3>2, <3>3 DEF Follows
    <3>. QED
      BY <1>4, <3>1, <3>2, <3>4
  <2>. QED
    BY <2>1
<1>8. \A c \in Bodies : v[c].master # c
  BY <1>0, <1>4 DEF Sound, Linked
<1>9. \A c \in Masters : v[c].placed => v[c].checked
  BY <1>0, <1>4 DEF Sound, Linked
<1>10. Linked(v)
  BY <1>6, <1>7, <1>8, <1>9 DEF Linked
<1>. QED
  BY <1>3, <1>5, <1>10 DEF Sound, Departed

(* What a step may do to the bodies before those that nothing refers to    *)
(* are deleted.                                                            *)
Legal(w, v) ==
  /\ Sound(v) /\ Fresh(v)
  /\ \A m \in Masters : w[m].placed /\ v[m].removed =>
       \A c \in w[m].summons : w[c].healthy => c \in v[m].summons

LEMMA OneLegal ==
  ASSUME NEW w, Sound(w), Fresh(w), NEW c \in Bodies, NEW t, Whole(t),
         t.placed = w[c].placed, t.removed = w[c].removed, t.released = w[c].released,
         t.master = w[c].master, t.summons = w[c].summons,
         c \in Masters /\ w[c].placed => t.checked,
         NEW v, v = [w EXCEPT ![c] = t]
  PROVE  Legal(w, v)
<1>0. w \in [Bodies -> Body] /\ Masters \subseteq Bodies
  BY DEF Bodies, Sound
<1>1. w[c].placed /\ w[c].master # NoMaster => w[w[c].master].placed
  BY DEF Sound, Linked
<1>2. Sound(v)
  BY <1>1, OneSound
<1>3. \A x \in Bodies : /\ v[x].removed = w[x].removed /\ v[x].released = w[x].released
                        /\ v[x].summons = w[x].summons
  BY <1>0
<1>4. Fresh(v)
  BY <1>3 DEF Fresh
<1>. QED
  BY <1>0, <1>2, <1>3, <1>4 DEF Legal

LEMMA HurtLegal ==
  ASSUME NEW w, Sound(w), Fresh(w), NEW c \in Bodies, w[c].placed, ~w[c].removed, w[c].healthy,
         NEW t, t = IF c \in Beasts THEN Killed(w[c]) ELSE [w[c] EXCEPT !.healthy = FALSE],
         NEW v, v = [w EXCEPT ![c] = t]
  PROVE  Legal(w, v)
<1>. DEFINE b == w[c]
<1>1. Whole(b) /\ b \in Body /\ b.refs \in Int /\ b.released \in Nat
  BY SoundIs, BodyIs
<1>2. b.placed = TRUE /\ b.removed = FALSE /\ b.healthy = TRUE /\ b.refs = Count(b)
  <2>1. b.placed \in BOOLEAN /\ b.removed \in BOOLEAN /\ b.healthy \in BOOLEAN
    BY <1>1, BodyIs
  <2>. HIDE DEF b
  <2>. QED
    BY <1>1, <2>1 DEF b, Whole
<1>3. c \in Masters => b.checked
  BY <1>2 DEF Sound, Linked
<1>4. c \notin Beasts => c \in Masters
  BY DEF Bodies
<1>5. /\ Whole(t) /\ t.placed = b.placed /\ t.removed = b.removed /\ t.released = b.released
      /\ t.master = b.master /\ t.summons = b.summons
      /\ c \in Masters => t.checked
  <2>1. CASE c \in Beasts
    <3>0. t = Killed(b) /\ c \notin Masters
      BY <2>1, SummonsAssumption
    <3>. HIDE DEF b
    <3>1. Has(t, <<b.placed, b.removed, FALSE>>, <<TRUE, TRUE>>, <<b.master, b.summons>>,
              <<b.seen, b.released, b.refs + (IF b.listed THEN 0 ELSE 1)>>)
      BY <1>1, <1>2, <3>0, KilledIs
    <3>2. /\ t \in Body /\ t.placed = TRUE /\ t.removed = FALSE /\ t.checked = TRUE
          /\ t.listed = TRUE /\ t.master = b.master /\ t.summons = b.summons
          /\ t.seen = b.seen /\ t.released = b.released
          /\ t.refs = b.refs + (IF b.listed THEN 0 ELSE 1)
      BY <1>2, <3>1 DEF Has
    <3>3. t.refs = Count(t)
      BY <1>1, <1>2, <3>2 DEF Count
    <3>4. Whole(t)
      BY <3>2, <3>3 DEF Whole
    <3>. QED
      BY <1>2, <3>0, <3>2, <3>4
  <2>2. CASE c \notin Beasts
    <3>0. t = [b EXCEPT !.healthy = FALSE] /\ b.checked
      BY <1>3, <1>4, <2>2
    <3>. HIDE DEF b
    <3>1. /\ t \in Body /\ t.placed = b.placed /\ t.removed = b.removed
          /\ t.checked = b.checked /\ t.listed = b.listed
      BY <1>1, <3>0 DEF Body
    <3>2. /\ t.master = b.master /\ t.summons = b.summons
          /\ t.seen = b.seen /\ t.released = b.released /\ t.refs = b.refs
      BY <1>1, <3>0 DEF Body
    <3>3. t.refs = Count(t)
      BY <1>2, <3>1, <3>2 DEF Count
    <3>4. Whole(t)
      BY <1>1, <1>2, <3>0, <3>1, <3>3 DEF Whole
    <3>. QED
      BY <3>0, <3>1, <3>2, <3>4
  <2>. QED
    BY <2>1, <2>2
<1>. QED
  BY <1>5, OneLegal

LEMMA UpdateIdleLegal ==
  ASSUME NEW w, Sound(w), Fresh(w), NEW c \in Beasts, w[c].placed, ~w[c].removed,
         NEW idle \in BOOLEAN, NEW t, t = SetIdle(w[c], idle),
         NEW v, v = [w EXCEPT ![c] = t]
  PROVE  Legal(w, v)
<1>. DEFINE b == w[c]
<1>0. c \in Bodies /\ c \notin Masters
  BY SummonsAssumption DEF Bodies
<1>1. Whole(b) /\ b \in Body /\ b.refs \in Int /\ b.released \in Nat
  BY <1>0, SoundIs, BodyIs
<1>2. b.placed = TRUE /\ b.removed = FALSE /\ b.refs = Count(b)
  <2>1. b.placed \in BOOLEAN /\ b.removed \in BOOLEAN
    BY <1>1, BodyIs
  <2>. HIDE DEF b
  <2>. QED
    BY <1>1, <2>1 DEF b, Whole
<1>3. t = SetIdle(b, idle)
  OBVIOUS
<1>. HIDE DEF b
<1>5. /\ Whole(t) /\ t.placed = b.placed /\ t.removed = b.removed /\ t.released = b.released
      /\ t.master = b.master /\ t.summons = b.summons
  <2>1. CASE ~b.healthy
    <3>1. t = b
      BY <1>3, <2>1 DEF SetIdle
    <3>. QED
      BY <1>1, <3>1
  <2>2. CASE b.healthy /\ idle
    <3>0. t = [b EXCEPT !.checked = FALSE]
      BY <1>2, <1>3, <2>2 DEF SetIdle
    <3>1. /\ t \in Body /\ t.placed = b.placed /\ t.removed = b.removed
          /\ t.checked = FALSE /\ t.listed = b.listed /\ t.healthy = b.healthy
      BY <1>1, <3>0 DEF Body
    <3>2. /\ t.master = b.master /\ t.summons = b.summons
          /\ t.seen = b.seen /\ t.released = b.released /\ t.refs = b.refs
      BY <1>1, <3>0 DEF Body
    <3>3. t.refs = Count(t)
      BY <1>2, <3>1, <3>2 DEF Count
    <3>4. Whole(t)
      BY <1>2, <2>2, <3>1, <3>3 DEF Whole
    <3>. QED
      BY <3>1, <3>2, <3>4
  <2>3. CASE b.healthy /\ ~idle
    <3>0. t = AddCreatureCheck(b)
      BY <1>2, <1>3, <2>3 DEF SetIdle
    <3>1. Has(t, <<b.placed, b.removed, b.healthy>>, <<TRUE, TRUE>>, <<b.master, b.summons>>,
              <<b.seen, b.released, b.refs + (IF b.listed THEN 0 ELSE 1)>>)
      BY <1>1, <1>2, <3>0, AddCreatureCheckIs
    <3>2. /\ t \in Body /\ t.placed = TRUE /\ t.removed = FALSE /\ t.checked = TRUE
          /\ t.listed = TRUE /\ t.master = b.master /\ t.summons = b.summons
          /\ t.seen = b.seen /\ t.released = b.released
          /\ t.refs = b.refs + (IF b.listed THEN 0 ELSE 1)
      BY <1>2, <3>1 DEF Has
    <3>3. t.refs = Count(t)
      BY <1>1, <1>2, <3>2 DEF Count
    <3>4. Whole(t)
      BY <3>2, <3>3 DEF Whole
    <3>. QED
      BY <1>2, <3>2, <3>4
  <2>. QED
    BY <2>1, <2>2, <2>3
<1>. QED
  BY <1>0, <1>5, OneLegal DEF b

LEMMA SeenLegal ==
  ASSUME NEW w, Sound(w), Fresh(w), NEW c \in Bodies, w[c].placed \/ w[c].removed,
         NEW sight \in BOOLEAN, w[c].seen # sight,
         NEW t, t = [w[c] EXCEPT !.seen = sight,
                                 !.refs = IF sight THEN w[c].refs + 1 ELSE w[c].refs - 1],
         NEW v, v = [w EXCEPT ![c] = t]
  PROVE  Legal(w, v)
<1>. DEFINE b == w[c]
            r == IF sight THEN b.refs + 1 ELSE b.refs - 1
<1>1. Whole(b) /\ b \in Body /\ b.refs \in Int /\ b.released \in Nat
  BY SoundIs, BodyIs
<1>2. b.refs = Count(b) /\ b.seen = ~sight
  <2>1. b.seen \in BOOLEAN
    BY <1>1, BodyIs
  <2>. QED
    BY <1>1, <2>1 DEF Whole
<1>3. r \in Int
  BY <1>1
<1>4. t = [b EXCEPT !.seen = sight, !.refs = r]
  OBVIOUS
<1>8. c \in Masters /\ b.placed => b.checked
  BY DEF Sound, Linked
<1>9. b.placed \/ b.removed
  OBVIOUS
<1>. HIDE DEF b
<1>7. r = IF sight THEN b.refs + 1 ELSE b.refs - 1
  OBVIOUS
<1>. HIDE DEF r
<1>5. /\ t \in Body /\ t.placed = b.placed /\ t.removed = b.removed
      /\ t.checked = b.checked /\ t.listed = b.listed /\ t.healthy = b.healthy
  BY <1>1, <1>3, <1>4 DEF Body
<1>6. /\ t.master = b.master /\ t.summons = b.summons
      /\ t.seen = sight /\ t.released = b.released /\ t.refs = r
  BY <1>1, <1>3, <1>4 DEF Body
<1>10. t.refs = Count(t)
  <2>1. CASE sight
    <3>1. t.seen = TRUE /\ b.seen = FALSE /\ t.refs = b.refs + 1
      BY <1>2, <1>6, <1>7, <2>1
    <3>2. t.placed = b.placed /\ t.listed = b.listed /\ t.master = b.master /\ t.released = b.released
      BY <1>5, <1>6
    <3>. QED
      BY <1>1, <1>2, <3>1, <3>2 DEF Count
  <2>2. CASE ~sight
    <3>1. t.seen = FALSE /\ b.seen = TRUE /\ t.refs = b.refs - 1
      BY <1>2, <1>6, <1>7, <2>2
    <3>2. t.placed = b.placed /\ t.listed = b.listed /\ t.master = b.master /\ t.released = b.released
      BY <1>5, <1>6
    <3>. QED
      BY <1>1, <1>2, <3>1, <3>2 DEF Count
  <2>. QED
    BY <2>1, <2>2
<1>11. Whole(t)
  BY <1>1, <1>5, <1>9, <1>10 DEF Whole
<1>. QED
  BY <1>5, <1>6, <1>8, <1>11, OneLegal DEF b

(* All entries of releaseThings are let go.                                *)
LEMMA CleanupIs ==
  ASSUME NEW w, Sound(w), NEW v, v = Cleanup(w)
  PROVE  /\ Sound(v) /\ Fresh(v)
         /\ \A c \in Bodies : v[c].removed = w[c].removed /\ v[c].summons = w[c].summons
<1>1. ASSUME NEW c \in Bodies
      PROVE  /\ Has(v[c], <<w[c].placed, w[c].removed, w[c].healthy>>,
                    <<w[c].checked, w[c].listed>>, <<w[c].master, w[c].summons>>,
                    <<w[c].seen, 0, w[c].refs - w[c].released>>)
             /\ Whole(v[c])
  <2>. DEFINE b == w[c]
              t == v[c]
              r == b.refs - b.released
  <2>1. Whole(b) /\ b \in Body /\ b.refs \in Int /\ b.released \in Nat
    BY SoundIs, BodyIs
  <2>2. r \in Int
    BY <2>1
  <2>3. t = [b EXCEPT !.refs = r, !.released = 0]
    BY DEF Cleanup
  <2>. HIDE DEF b, t
  <2>9. r = b.refs - b.released
    OBVIOUS
  <2>. HIDE DEF r
  <2>4. /\ t \in Body /\ t.placed = b.placed /\ t.removed = b.removed
        /\ t.checked = b.checked /\ t.listed = b.listed /\ t.healthy = b.healthy
    BY <2>1, <2>2, <2>3 DEF Body
  <2>5. /\ t.master = b.master /\ t.summons = b.summons
        /\ t.seen = b.seen /\ t.released = 0 /\ t.refs = r
    BY <2>1, <2>2, <2>3 DEF Body
  <2>6. Has(t, <<b.placed, b.removed, b.healthy>>, <<b.checked, b.listed>>,
            <<b.master, b.summons>>, <<b.seen, 0, r>>)
    BY <2>4, <2>5 DEF Has
  <2>7. t.refs = Count(t)
    <3>1. b.refs = Count(b)
      BY <2>1 DEF Whole
    <3>. QED
      BY <2>1, <2>4, <2>5, <2>9, <3>1 DEF Count
  <2>8. ~t.placed /\ ~t.removed => t = Nobody
    <3>. SUFFICES ASSUME ~t.placed, ~t.removed
                  PROVE  t = Nobody
      OBVIOUS
    <3>1. b = Nobody
      BY <2>1, <2>4 DEF Whole
    <3>2. b.released = 0
      BY <3>1 DEF Nobody
    <3>3. r = b.refs
      BY <2>1, <2>9, <3>2
    <3>4. t = b
      BY <2>1, <2>4, <2>5, <3>2, <3>3, SameBody
    <3>. QED
      BY <3>1, <3>4
  <2>10. Whole(t)
    BY <2>1, <2>4, <2>7, <2>8 DEF Whole
  <2>. QED
    BY <2>6, <2>9, <2>10 DEF b, t
<1>2. v \in [Bodies -> Body]
  <2>1. \A c \in Bodies : v[c] \in Body
    BY <1>1 DEF Has
  <2>2. v = [c \in Bodies |-> v[c]]
    BY DEF Cleanup
  <2>. QED
    BY <2>1, <2>2
<1>3. \A c \in Bodies : /\ v[c].placed = w[c].placed /\ v[c].removed = w[c].removed
                        /\ v[c].checked = w[c].checked
                        /\ v[c].master = w[c].master /\ v[c].summons = w[c].summons
                        /\ v[c].released = 0
  BY <1>1 DEF Has
<1>4. Linked(v)
  <2>0. Linked(w)
    BY DEF Sound
  <2>1. \A c, m \in Bodies : v[c].master = m <=> c \in v[m].summons
    BY <1>3, <2>0 DEF Linked
  <2>2. ASSUME NEW c \in Bodies, v[c].placed, v[c].master # NoMaster
        PROVE  v[v[c].master].placed
    <3>1. w[c].master \in Bodies
      BY <1>3, <2>2, SoundIs
    <3>. QED
      BY <1>3, <2>0, <2>2, <3>1 DEF Linked
  <2>3. \A c \in Bodies : v[c].master # c
    BY <1>3, <2>0 DEF Linked
  <2>4. \A c \in Masters : v[c].placed => v[c].checked
    BY <1>3, <2>0 DEF Linked, Bodies
  <2>. QED
    BY <2>1, <2>2, <2>3, <2>4 DEF Linked
<1>5. Sound(v)
  BY <1>1, <1>2, <1>4 DEF Sound
<1>6. Fresh(v)
  BY <1>3 DEF Fresh
<1>. QED
  BY <1>3, <1>5, <1>6

LEMMA PlaceLegal ==
  ASSUME NEW w, Sound(w), Fresh(w), NEW c \in Bodies, ~w[c].placed, ~w[c].removed,
         NEW v, v = Placed(w, c)
  PROVE  Legal(w, v)
<1>1. w[c] = Nobody /\ w \in [Bodies -> Body]
  BY SoundIs DEF Whole, Sound
<1>2. /\ w[c].removed = FALSE /\ w[c].listed = FALSE /\ w[c].summons = {}
      /\ w[c].released = 0
  BY <1>1 DEF Nobody
<1>3. Entered(v, w, c)
  BY <1>1, <1>2, PlacedIs
<1>4. v[c].removed = FALSE /\ v[c].released = 0
  BY <1>2, <1>3 DEF Entered, Has
<1>5. \A x \in Bodies \ {c} : v[x] = w[x]
  BY <1>3 DEF Entered
<1>6. Sound(v)
  BY PlaceSound
<1>7. Fresh(v)
  BY <1>4, <1>5 DEF Fresh
<1>. QED
  BY <1>4, <1>5, <1>6, <1>7 DEF Legal, Bodies

LEMMA PlaceSummonLegal ==
  ASSUME NEW w, Sound(w), Fresh(w), NEW m \in Bodies, w[m].placed, ~w[m].removed,
         NEW c \in Beasts, ~w[c].placed, ~w[c].removed,
         NEW u, u = AddSummon(w, m, c), NEW v, v = Placed(u, c) \/ v = RemoveSummon(u, m, c)
  PROVE  Legal(w, v)
<1>0. w \in [Bodies -> Body] /\ c \in Bodies /\ c # m
  BY DEF Sound, Bodies
<1>1. CASE v = RemoveSummon(u, m, c)
  <2>1. v = w
    BY <1>1, PlaceSummonSound
  <2>2. \A x \in Masters : ~(w[x].placed /\ w[x].removed)
    BY SoundIs DEF Whole, Bodies
  <2>. QED
    BY <2>1, <2>2 DEF Legal
<1>2. CASE v = Placed(u, c)
  <2>1. w[c] = Nobody
    BY <1>0, SoundIs DEF Whole
  <2>2. w[c].removed = FALSE /\ w[c].listed = FALSE /\ w[c].released = 0
    BY <2>1 DEF Nobody
  <2>3. Joined(u, w, m, c)
    BY <1>0, AddSummonIs
  <2>4. /\ u[c].removed = FALSE /\ u[c].listed = FALSE /\ u[c].released = 0
        /\ u \in [Bodies -> Body]
    BY <1>0, <2>2, <2>3 DEF Joined, Has
  <2>5. Entered(v, u, c)
    BY <1>0, <1>2, <2>4, PlacedIs
  <2>6. v[c].removed = FALSE /\ v[c].released = 0
    BY <2>4, <2>5 DEF Entered, Has
  <2>7. ASSUME NEW x \in Bodies, x # c
        PROVE  v[x].removed = w[x].removed /\ v[x].released = w[x].released
    <3>1. v[x] = u[x]
      BY <2>5, <2>7 DEF Entered
    <3>2. u[x].removed = w[x].removed /\ u[x].released = w[x].released
      BY <2>3 DEF Joined, Has
    <3>. QED
      BY <3>1, <3>2
  <2>8. Sound(v)
    BY <1>2, PlaceSummonSound
  <2>9. Fresh(v)
    BY <2>6, <2>7 DEF Fresh
  <2>10. \A x \in Masters : ~(w[x].placed /\ v[x].removed)
    <3>1. \A x \in Bodies : ~(w[x].placed /\ w[x].removed)
      BY SoundIs DEF Whole
    <3>. QED
      BY <2>6, <2>7, <3>1 DEF Bodies
  <2>. QED
    BY <2>8, <2>9, <2>10 DEF Legal
<1>. QED
  BY <1>1, <1>2

LEMMA ConvinceLegal ==
  ASSUME NEW w, Sound(w), Fresh(w), NEW m \in Masters, w[m].placed,
         NEW c \in Beasts, w[c].placed, w[c].master \notin Masters,
         NEW u, u = IF w[c].master = NoMaster THEN w ELSE RemoveSummon(w, w[c].master, c),
         NEW v, v = AddSummon(DestroySummons(u, c), m, c)
  PROVE  Legal(w, v)
<1>. DEFINE d == DestroySummons(u, c)
<1>0. /\ m \in Bodies /\ c \in Bodies /\ c # m /\ w \in [Bodies -> Body]
      /\ Beasts \subseteq Bodies /\ Masters \subseteq Bodies
  BY SummonsAssumption DEF Bodies, Sound
<1>1. /\ Sound(u) /\ u[c].master = NoMaster
      /\ \A x \in Bodies : /\ u[x].placed = w[x].placed /\ u[x].removed = w[x].removed
                           /\ u[x].released = w[x].released
  <2>1. CASE w[c].master = NoMaster
    BY <2>1
  <2>2. CASE w[c].master # NoMaster
    <3>1. w[c].master \in Bodies /\ u = RemoveSummon(w, w[c].master, c)
      BY <1>0, <2>2, SoundIs
    <3>2. Unlinked(u, w, {c}) /\ Sound(u)
      BY <1>0, <3>1, RemoveSummonIs
    <3>3. u[c].master = NoMaster
      BY <1>0, <3>2 DEF Unlinked, Has
    <3>4. \A x \in Bodies : /\ u[x].placed = w[x].placed /\ u[x].removed = w[x].removed
                            /\ u[x].released = w[x].released
      BY <3>2 DEF Unlinked, Has
    <3>. QED
      BY <3>2, <3>3, <3>4
  <2>. QED
    BY <2>1, <2>2
<1>2. Destroyed(d, u, c)
  BY <1>1, DestroySummonsIs
<1>. HIDE DEF d
<1>3. Sound(d)
  BY <1>1, <1>2, DestroyedSound
<1>4. ASSUME NEW x \in Bodies
      PROVE  /\ d[x].placed = u[x].placed /\ d[x].removed = u[x].removed
             /\ d[x].released = u[x].released
             /\ d[x].master = IF x \in u[c].summons THEN NoMaster ELSE u[x].master
  BY <1>1, <1>2, DestroyedIs
<1>5. d[c].master = NoMaster /\ d[c].placed /\ d[m].placed
  BY <1>0, <1>1, <1>4
<1>6. Joined(v, d, m, c)
  <2>1. d \in [Bodies -> Body]
    BY <1>3 DEF Sound
  <2>. QED
    BY <1>0, <2>1, AddSummonIs DEF d
<1>7. Sound(v)
  BY <1>0, <1>3, <1>5, <1>6, JoinedSound
<1>8. \A x \in Bodies : v[x].removed = d[x].removed /\ v[x].released = d[x].released
  BY <1>6 DEF Joined, Has
<1>9. \A x \in Bodies : v[x].removed = w[x].removed /\ v[x].released = w[x].released
  BY <1>1, <1>4, <1>8
<1>10. Fresh(v)
  BY <1>9 DEF Fresh
<1>11. \A x \in Masters : ~(w[x].placed /\ v[x].removed)
  BY <1>0, <1>9, SoundIs DEF Whole
<1>. QED
  BY <1>7, <1>10, <1>11 DEF Legal

(* The bodies of far and those that follow them have been removed.         *)
Taken(v, w, far) ==
  /\ Sound(v)
  /\ \A c \in Bodies : v[c].healthy = w[c].healthy /\ v[c].listed = w[c].listed
  /\ \A c \in Bodies : \/ v[c].removed = w[c].removed /\ v[c].released = w[c].released
                       \/ v[c].removed /\ ~w[c].removed /\ v[c].released = w[c].released + 1
  /\ \A m \in Bodies : v[m].removed /\ ~w[m].removed => v[m].summons = w[m].summons
  /\ \A m \in Bodies : \A c \in w[m].summons : c \notin far => c \in v[m].summons

LEMMA TakenIs ==
  ASSUME NEW w, Sound(w), NEW far \in SUBSET Bodies, \A c \in far : w[c].placed \/ w[c].removed,
         NEW v, v = RemoveCreatures(w, far)
  PROVE  Taken(v, w, far)
<1>. DEFINE near == {c \in far : ~w[c].removed}
            gone == Following(w, near)
            free == LetGo(w, gone)
<1>0. near \in SUBSET Bodies /\ near \subseteq far /\ \A c \in near : w[c].placed
  OBVIOUS
<1>. HIDE DEF near
<1>1. Departed(v, w, gone, free)
  BY RemoveCreaturesIs DEF near
<1>2. Follows(gone, w, near)
  BY <1>0, FollowingIs
<1>3. free = LetGo(w, gone)
  OBVIOUS
<1>. HIDE DEF gone
<1>4. Sound(v)
  BY <1>0, <1>1, <1>2, DepartedSound
<1>. HIDE DEF free
<1>5. ASSUME NEW c \in Bodies
      PROVE  /\ v[c].healthy = w[c].healthy /\ v[c].listed = w[c].listed
             /\ v[c].summons = w[c].summons \ free
  BY <1>1 DEF Departed, Has
<1>6. ASSUME NEW c \in gone
      PROVE  v[c].removed /\ ~w[c].removed /\ v[c].released = w[c].released + 1
  <2>1. c \in Bodies
    BY <1>2 DEF Follows
  <2>2. v[c].removed /\ v[c].released = w[c].released + 1
    BY <1>1, <1>6, <2>1 DEF Departed, Has
  <2>3. ~w[c].removed
    <3>1. CASE c \in near
      BY <1>0, <2>1, <3>1, SoundIs DEF Whole
    <3>2. CASE c \notin near
      BY <1>2, <3>2 DEF Follows
    <3>. QED
      BY <3>1, <3>2
  <2>. QED
    BY <2>2, <2>3
<1>7. ASSUME NEW c \in Bodies, c \notin gone
      PROVE  v[c].removed = w[c].removed /\ v[c].released = w[c].released
  BY <1>1, <1>7 DEF Departed, Has
<1>8. ASSUME NEW m \in gone, NEW c \in w[m].summons
      PROVE  c \notin free
  <2>1. m \in Bodies /\ c \in Bodies
    BY <1>2, SoundIs DEF Follows
  <2>2. w[c].master = m
    BY <2>1, LedIs
  <2>. QED
    BY <1>3, <2>2 DEF LetGo
<1>9. ASSUME NEW m \in Bodies, v[m].removed, ~w[m].removed
      PROVE  v[m].summons = w[m].summons
  <2>1. m \in gone
    BY <1>7, <1>9
  <2>. QED
    BY <1>5, <1>8, <2>1
<1>10. ASSUME NEW m \in Bodies, NEW c \in w[m].summons, c \notin far
       PROVE  c \in v[m].summons
  <2>1. c \in Bodies
    BY SoundIs
  <2>2. w[c].master = m
    BY <2>1, LedIs
  <2>3. c \notin free
    <3>. SUFFICES ASSUME c \in free
                  PROVE  FALSE
      OBVIOUS
    <3>1. c \in gone /\ m \notin gone
      BY <1>3, <2>2 DEF LetGo
    <3>2. c \notin near
      BY <1>0, <1>10
    <3>3. PICK x \in gone : c \in w[x].summons
      BY <1>2, <3>1, <3>2 DEF Follows
    <3>4. x \in Bodies
      BY <1>2 DEF Follows
    <3>5. w[c].master = x
      BY <2>1, <3>3, <3>4, LedIs
    <3>. QED
      BY <2>2, <3>1, <3>5
  <2>. QED
    BY <1>5, <2>3
<1>11. \A c \in Bodies : \/ v[c].removed = w[c].removed /\ v[c].released = w[c].released
                         \/ v[c].removed /\ ~w[c].removed /\ v[c].released = w[c].released + 1
  BY <1>6, <1>7
<1>. QED
  BY <1>4, <1>5, <1>9, <1>10, <1>11 DEF Taken

LEMMA RemoveLegal ==
  ASSUME NEW w, Sound(w), Fresh(w), NEW far \in SUBSET Bodies,
         \A c \in far : w[c].placed \/ w[c].removed,
         NEW v, v = RemoveCreatures(w, far)
  PROVE  Legal(w, v)
<1>1. Taken(v, w, far)
  BY TakenIs
<1>2. ASSUME NEW c \in Bodies
      PROVE  v[c].released <= IF v[c].removed THEN 1 ELSE 0
  <2>1. w[c].released \in Nat /\ w[c].released <= IF w[c].removed THEN 1 ELSE 0
    BY SoundIs, BodyIs DEF Fresh
  <2>2. CASE v[c].removed = w[c].removed /\ v[c].released = w[c].released
    BY <2>1, <2>2
  <2>3. CASE v[c].removed /\ ~w[c].removed /\ v[c].released = w[c].released + 1
    BY <2>1, <2>3
  <2>. QED
    BY <1>1, <2>2, <2>3 DEF Taken
<1>3. ASSUME NEW m \in Masters, w[m].placed, v[m].removed
      PROVE  v[m].summons = w[m].summons
  <2>1. m \in Bodies
    BY DEF Bodies
  <2>2. ~w[m].removed
    BY <1>3, <2>1, SoundIs DEF Whole
  <2>. QED
    BY <1>1, <1>3, <2>1, <2>2 DEF Taken
<1>. QED
  BY <1>1, <1>2, <1>3 DEF Legal, Taken, Fresh

-----------------------------------------------------------------------------
(* A healthy summon of a player stays on his list, and healthy.            *)
Stays(w, v) ==
  \A m \in Masters : \A c \in w[m].summons :
    w[c].healthy => c \in v[m].summons /\ v[c].healthy

LEMMA OnDeathIs ==
  ASSUME NEW w, Sound(w), NEW c \in Bodies, w[c].placed, ~w[c].healthy, w[c].checked,
         NEW how, NEW v, v = OnDeath(w, c, how)
  PROVE  Sound(v) /\ Stays(w, v) /\ \A x \in Bodies : w[x].listed => v[x].listed
<1>. DEFINE u == IF w[c].master = NoMaster THEN w ELSE RemoveSummon(w, w[c].master, c)
            d == IF c \in Beasts THEN DestroySummons(u, c) ELSE u
<1>0. Masters \subseteq Bodies /\ Beasts \subseteq Bodies /\ Masters \cap Beasts = {}
      /\ NoMaster \notin Bodies
  BY SummonsAssumption DEF Bodies
<1>1. /\ Sound(u)
      /\ \A x \in Bodies : /\ u[x].placed = w[x].placed /\ u[x].listed = w[x].listed
                           /\ u[x].removed = w[x].removed
                           /\ u[x].healthy = w[x].healthy /\ u[x].checked = w[x].checked
                           /\ w[x].summons \ {c} \subseteq u[x].summons
                           /\ u[x].summons \subseteq w[x].summons
  <2>1. CASE w[c].master = NoMaster
    BY <2>1
  <2>2. CASE w[c].master # NoMaster
    <3>1. w[c].master \in Bodies /\ u = RemoveSummon(w, w[c].master, c)
      BY <1>0, <2>2, SoundIs
    <3>2. Unlinked(u, w, {c}) /\ Sound(u)
      BY <1>0, <3>1, RemoveSummonIs
    <3>3. \A x \in Bodies : /\ u[x].placed = w[x].placed /\ u[x].listed = w[x].listed
                            /\ u[x].removed = w[x].removed
                            /\ u[x].healthy = w[x].healthy /\ u[x].checked = w[x].checked
                            /\ u[x].summons = w[x].summons \ {c}
      BY <3>2 DEF Unlinked, Has
    <3>. QED
      BY <3>2, <3>3
  <2>. QED
    BY <2>1, <2>2
<1>2. CASE how = "denied"
  <2>1. v = w
    BY <1>2 DEF OnDeath
  <2>. QED
    BY <2>1 DEF Stays
<1>3. CASE how # "denied" /\ how = "stays" /\ c \in Masters
  <2>1. v = [u EXCEPT ![c].healthy = TRUE]
    BY <1>3 DEF OnDeath
  <2>. HIDE DEF u
  <2>. DEFINE b == u[c]
              t == [b EXCEPT !.healthy = TRUE]
  <2>2. Whole(b) /\ b \in Body
    BY <1>1, SoundIs
  <2>3. u \in [Bodies -> Body] /\ v = [u EXCEPT ![c] = t]
    BY <1>1, <2>1 DEF Sound
  <2>4. b.checked /\ b.placed
    BY <1>1
  <2>5. t = [b EXCEPT !.healthy = TRUE]
    OBVIOUS
  <2>. HIDE DEF b, t
  <2>6. /\ t \in Body /\ t.placed = b.placed /\ t.removed = b.removed
        /\ t.checked = b.checked /\ t.listed = b.listed /\ t.healthy = TRUE
    BY <2>2, <2>5 DEF Body
  <2>7. /\ t.master = b.master /\ t.summons = b.summons
        /\ t.seen = b.seen /\ t.released = b.released /\ t.refs = b.refs
    BY <2>2, <2>5 DEF Body
  <2>8. t.refs = Count(t)
    BY <2>2, <2>6, <2>7 DEF Count, Whole
  <2>9. Whole(t)
    BY <2>2, <2>4, <2>6, <2>8 DEF Whole
  <2>10. t.placed /\ t.master # NoMaster => u[t.master].placed
    BY <1>1, <2>4, <2>7 DEF Sound, Linked, b
  <2>11. Sound(v)
    BY <1>1, <2>3, <2>4, <2>6, <2>7, <2>9, <2>10, OneSound DEF b
  <2>12. \A x \in Bodies : v[x].listed = u[x].listed /\ v[x].summons = u[x].summons
                           /\ (u[x].healthy => v[x].healthy)
    BY <2>3, <2>6, <2>7 DEF b
  <2>13. Stays(w, v)
    <3>1. ASSUME NEW m \in Masters, NEW x \in w[m].summons, w[x].healthy
          PROVE  x \in v[m].summons /\ v[x].healthy
      <4>1. m \in Bodies /\ x \in Bodies /\ x # c
        BY <1>0, <3>1, SoundIs
      <4>. QED
        BY <1>1, <2>12, <3>1, <4>1
    <3>. QED
      BY <3>1 DEF Stays
  <2>. QED
    BY <1>1, <2>11, <2>12, <2>13
<1>4. CASE how # "denied" /\ ~(how = "stays" /\ c \in Masters)
  <2>1. v = RemoveCreatures(d, {c})
    BY <1>4 DEF OnDeath, RemoveCreature
  <2>2. /\ Sound(d) /\ d[c].placed
        /\ \A x \in Bodies : w[x].listed => d[x].listed
        /\ Stays(w, d)
    <3>1. CASE c \notin Beasts
      <4>1. d = u
        BY <3>1
      <4>2. Stays(w, d)
        <5>1. ASSUME NEW m \in Masters, NEW x \in w[m].summons, w[x].healthy
              PROVE  x \in d[m].summons /\ d[x].healthy
          <6>1. m \in Bodies /\ x \in Bodies /\ x # c
            BY <1>0, <5>1, SoundIs
          <6>. QED
            BY <1>1, <4>1, <5>1, <6>1
        <5>. QED
          BY <5>1 DEF Stays
      <4>. QED
        BY <1>1, <4>1, <4>2
    <3>2. CASE c \in Beasts
      <4>. HIDE DEF u
      <4>1. Destroyed(d, u, c)
        BY <1>1, <3>2, DestroySummonsIs
      <4>. HIDE DEF d
      <4>2. Sound(d)
        BY <1>1, <3>2, <4>1, DestroyedSound
      <4>3. ASSUME NEW x \in Bodies
            PROVE  /\ d[x].placed = u[x].placed
                   /\ d[x].healthy = (u[x].healthy /\ x \notin u[c].summons)
                   /\ d[x].listed = (u[x].listed
                                     \/ (x \in u[c].summons /\ ~u[x].removed /\ u[x].healthy))
                   /\ d[x].summons = IF x = c THEN {} ELSE u[x].summons
        BY <1>1, <3>2, <4>1, DestroyedIs
      <4>4. Stays(w, d)
        <5>1. ASSUME NEW m \in Masters, NEW x \in w[m].summons, w[x].healthy
              PROVE  x \in d[m].summons /\ d[x].healthy
          <6>1. m \in Bodies /\ x \in Bodies /\ x # c /\ m # c
            BY <1>0, <3>2, <5>1, SoundIs
          <6>2. x \in u[m].summons /\ u[x].healthy
            BY <1>1, <5>1, <6>1
          <6>3. x \notin u[c].summons
            BY <1>1, <6>1, <6>2 DEF Sound, Linked
          <6>. QED
            BY <4>3, <6>1, <6>2, <6>3
        <5>. QED
          BY <5>1 DEF Stays
      <4>. QED
        BY <1>1, <4>2, <4>3, <4>4
    <3>. QED
      BY <3>1, <3>2
  <2>. HIDE DEF d, u
  <2>3. Taken(v, d, {c})
    BY <2>1, <2>2, TakenIs
  <2>4. Sound(v) /\ \A x \in Bodies : w[x].listed => v[x].listed
    BY <2>2, <2>3 DEF Taken
  <2>5. Stays(w, v)
    <3>1. ASSUME NEW m \in Masters, NEW x \in w[m].summons, w[x].healthy
          PROVE  x \in v[m].summons /\ v[x].healthy
      <4>1. m \in Bodies /\ x \in Bodies /\ x # c
        BY <1>0, <3>1, SoundIs
      <4>2. x \in d[m].summons /\ d[x].healthy
        BY <2>2, <3>1 DEF Stays
      <4>. QED
        BY <2>3, <4>1, <4>2 DEF Taken
    <3>. QED
      BY <3>1 DEF Stays
  <2>. QED
    BY <2>4, <2>5
<1>. QED
  BY <1>2, <1>3, <1>4

(* Induction along a sequence: what holds at 0 and with each place at the  *)
(* next holds at all.                                                      *)
LEMMA Onwards ==
  ASSUME NEW N \in Nat, NEW T \in SUBSET (0 .. N), 0 \in T, \A k \in T : k < N => k + 1 \in T
  PROVE  \A k \in 0 .. N : k \in T
<1>. DEFINE L == (0 .. N) \ T
<1>. SUFFICES ASSUME L # {}
              PROVE  FALSE
  OBVIOUS
<1>1. L \in SUBSET Nat
  OBVIOUS
<1>. HIDE DEF L
<1>2. PICK k \in L : \A j \in L : k <= j
  BY <1>1, Least
<1>. USE DEF L
<1>3. k \in 1 .. N /\ k \notin T
  OBVIOUS
<1>4. k - 1 \notin L
  BY <1>2, <1>3
<1>5. k - 1 \in T /\ k - 1 < N
  BY <1>3, <1>4
<1>. QED
  BY <1>3, <1>5

-----------------------------------------------------------------------------
LEMMA CheckedIs ==
  ASSUME NEW w, Sound(w), NEW c \in Bodies, w[c].listed, NEW how, NEW v, v = Checked(w, c, how)
  PROVE  Sound(v) /\ Stays(w, v) /\ \A x \in Bodies \ {c} : w[x].listed => v[x].listed
<1>1. CASE w[c].checked /\ w[c].healthy
  BY <1>1 DEF Checked, Stays
<1>2. CASE w[c].checked /\ ~w[c].healthy
  <2>1. v = OnDeath(w, c, how) /\ w[c].placed
    BY <1>2, SoundIs DEF Checked, Whole
  <2>2. Sound(v) /\ Stays(w, v) /\ \A x \in Bodies : w[x].listed => v[x].listed
    BY <1>2, <2>1, OnDeathIs
  <2>. QED
    BY <2>2
<1>3. CASE ~w[c].checked
  <2>. DEFINE b == w[c]
              t == [b EXCEPT !.listed = FALSE, !.released = b.released + 1]
  <2>1. Whole(b) /\ b \in Body /\ b.released \in Nat /\ b.listed = TRUE /\ b.checked = FALSE
    <3>1. Whole(b) /\ b \in Body
      BY SoundIs
    <3>2. b.listed \in BOOLEAN /\ b.checked \in BOOLEAN /\ b.released \in Nat
      BY <3>1, BodyIs
    <3>. QED
      BY <1>3, <3>1, <3>2
  <2>2. w \in [Bodies -> Body] /\ v = [w EXCEPT ![c] = t]
    BY <1>3 DEF Checked, Sound
  <2>3. c \in Masters => ~b.placed
    BY <1>3 DEF Sound, Linked
  <2>4. t = [b EXCEPT !.listed = FALSE, !.released = b.released + 1] /\ b.released + 1 \in Nat
    BY <2>1
  <2>5. b.placed /\ b.master # NoMaster => w[b.master].placed
    BY DEF Sound, Linked
  <2>. HIDE DEF b, t
  <2>6. /\ t \in Body /\ t.placed = b.placed /\ t.removed = b.removed
        /\ t.checked = b.checked /\ t.listed = FALSE /\ t.healthy = b.healthy
    BY <2>1, <2>4 DEF Body
  <2>7. /\ t.master = b.master /\ t.summons = b.summons
        /\ t.seen = b.seen /\ t.released = b.released + 1 /\ t.refs = b.refs
    BY <2>1, <2>4 DEF Body
  <2>8. t.refs = Count(t)
    BY <2>1, <2>6, <2>7 DEF Count, Whole
  <2>9. b # Nobody
    BY <2>1 DEF Nobody
  <2>10. Whole(t)
    BY <2>1, <2>6, <2>8, <2>9 DEF Whole
  <2>15. /\ t.master = w[c].master /\ t.summons = w[c].summons
         /\ w[c].placed => t.placed
         /\ t.placed /\ t.master # NoMaster => w[t.master].placed
         /\ c \in Masters /\ t.placed => t.checked
    BY <2>3, <2>5, <2>6, <2>7 DEF b
  <2>11. Sound(v)
    BY <2>2, <2>10, <2>15, OneSound
  <2>12. \A x \in Bodies : v[x].summons = w[x].summons /\ v[x].healthy = w[x].healthy
    BY <2>2, <2>6, <2>7 DEF b
  <2>13. \A x \in Bodies \ {c} : w[x].listed => v[x].listed
    BY <2>2
  <2>14. Stays(w, v)
    <3>1. ASSUME NEW m \in Masters, NEW x \in w[m].summons, w[x].healthy
          PROVE  x \in v[m].summons /\ v[x].healthy
      <4>1. m \in Bodies
        BY DEF Bodies
      <4>2. x \in Bodies
        BY <3>1, <4>1, SoundIs
      <4>. QED
        BY <2>12, <3>1, <4>1, <4>2
    <3>. QED
      BY <3>1 DEF Stays
  <2>. QED
    BY <2>11, <2>13, <2>14
<1>. QED
  BY <1>1, <1>2, <1>3

(* after[n] are the bodies after n turns of the loop from w.               *)
Turned(after, w, vector, how, N) ==
  after = [n \in 0 .. N |-> IF n = 0 THEN w ELSE Checked(after[n - 1], vector[n], how)]

LEMMA TurnedExists ==
  ASSUME NEW w, NEW vector, NEW how, NEW N \in Nat
  PROVE  \E after : Turned(after, w, vector, how, N)
<1>. DEFINE T == {k \in 0 .. N : \E after : Turned(after, w, vector, how, k)}
<1>3. T \in SUBSET (0 .. N)
  OBVIOUS
<1>1. 0 \in T
  <2>. DEFINE g == [n \in 0 .. 0 |-> w]
  <2>1. g = [n \in 0 .. 0 |-> IF n = 0 THEN w ELSE Checked(g[n - 1], vector[n], how)]
    OBVIOUS
  <2>. HIDE DEF g
  <2>2. Turned(g, w, vector, how, 0)
    BY <2>1 DEF Turned
  <2>. QED
    BY <2>2
<1>2. ASSUME NEW k \in T, k < N
      PROVE  k + 1 \in T
  <2>1. PICK f : Turned(f, w, vector, how, k)
    OBVIOUS
  <2>2. k \in Nat /\ k + 1 \in 0 .. N
    <3>. HIDE DEF T
    <3>. QED
      BY <1>2, <1>3
  <2>. DEFINE g == [n \in 0 .. k + 1 |-> IF n = k + 1 THEN Checked(f[k], vector[k + 1], how) ELSE f[n]]
  <2>3. ASSUME NEW n \in 0 .. k + 1
        PROVE  g[n] = IF n = 0 THEN w ELSE Checked(g[n - 1], vector[n], how)
    <3>1. CASE n = k + 1
      <4>1. n # 0 /\ n - 1 = k /\ k # k + 1 /\ k \in 0 .. k + 1
        BY <2>2, <3>1
      <4>2. g[n - 1] = f[k]
        BY <4>1
      <4>. QED
        BY <3>1, <4>1, <4>2
    <3>2. CASE n # k + 1
      <4>1. n \in 0 .. k /\ (n # 0 => n - 1 \in 0 .. k /\ n - 1 # k + 1 /\ n - 1 \in 0 .. k + 1)
        BY <2>2, <3>2
      <4>2. f[n] = IF n = 0 THEN w ELSE Checked(f[n - 1], vector[n], how)
        BY <2>1, <4>1 DEF Turned
      <4>3. g[n] = f[n] /\ (n # 0 => g[n - 1] = f[n - 1])
        BY <3>2, <4>1
      <4>. QED
        BY <4>2, <4>3
    <3>. QED
      BY <3>1, <3>2
  <2>4. \E e : g = [n \in 0 .. k + 1 |-> e[n]]
    <3>1. g = [n \in 0 .. k + 1 |-> g[n]]
      OBVIOUS
    <3>. QED
      BY <3>1
  <2>. HIDE DEF g
  <2>5. g = [n \in 0 .. k + 1 |-> IF n = 0 THEN w ELSE Checked(g[n - 1], vector[n], how)]
    BY <2>3, <2>4
  <2>6. Turned(g, w, vector, how, k + 1)
    BY <2>5 DEF Turned
  <2>. QED
    BY <2>2, <2>6
<1>. HIDE DEF T
<1>4. N \in T
  BY <1>1, <1>2, <1>3, Onwards
<1>. QED
  BY <1>4 DEF T

LEMMA TurnedIs ==
  ASSUME NEW w, Sound(w), NEW N \in Nat, NEW vector \in [1 .. N -> Bodies], IsInjective(vector),
         \A i \in 1 .. N : w[vector[i]].listed,
         NEW how, NEW after, Turned(after, w, vector, how, N)
  PROVE  Sound(after[N]) /\ Stays(w, after[N])
<1>. DEFINE Good(n) == /\ Sound(after[n]) /\ Stays(w, after[n])
                       /\ \A i \in 1 .. N : i > n => after[n][vector[i]].listed
            T == {n \in 0 .. N : Good(n)}
<1>0. \A i, j \in 1 .. N : vector[i] = vector[j] => i = j
  BY DEF IsInjective
<1>1. 0 \in T
  <2>1. after[0] = w
    BY DEF Turned
  <2>2. Stays(w, w)
    BY DEF Stays
  <2>. QED
    BY <2>1, <2>2
<1>2. ASSUME NEW n \in T, n < N
      PROVE  n + 1 \in T
  <2>1. n \in Nat /\ n + 1 \in 0 .. N /\ n + 1 \in 1 .. N /\ n + 1 # 0 /\ n + 1 - 1 = n
    BY <1>2
  <2>2. Good(n)
    BY <1>2
  <2>. DEFINE a == after[n]
              b == after[n + 1]
              c == vector[n + 1]
  <2>3. b = Checked(a, c, how)
    BY <2>1 DEF Turned
  <2>4. c \in Bodies /\ a[c].listed /\ Sound(a) /\ Stays(w, a)
    BY <2>1, <2>2
  <2>5. \A i \in 1 .. N : i > n + 1 => vector[i] \in Bodies \ {c} /\ a[vector[i]].listed
    BY <1>0, <2>1, <2>2
  <2>. HIDE DEF a, b, c, Good
  <2>6. Sound(b) /\ Stays(a, b) /\ \A x \in Bodies \ {c} : a[x].listed => b[x].listed
    BY <2>3, <2>4, CheckedIs
  <2>7. Stays(w, b)
    BY <2>4, <2>6 DEF Stays
  <2>8. \A i \in 1 .. N : i > n + 1 => b[vector[i]].listed
    BY <2>5, <2>6
  <2>9. Good(n + 1)
    BY <2>6, <2>7, <2>8 DEF Good, b
  <2>. QED
    BY <2>1, <2>9
<1>3. T \in SUBSET (0 .. N)
  OBVIOUS
<1>. HIDE DEF T, Good
<1>5. \A n \in T : n < N => n + 1 \in T
  BY <1>2
<1>6. \A k \in 0 .. N : k \in T
  BY <1>1, <1>3, <1>5, Onwards
<1>4. N \in T
  BY <1>6
<1>. QED
  BY <1>4 DEF T, Good

LEMMA OrdersAre ==
  ASSUME NEW vector \in Orders
  PROVE  Len(vector) \in Nat /\ vector \in [1 .. Len(vector) -> Bodies] /\ IsInjective(vector)
<1>1. IsFiniteSet(Bodies)
  BY SummonsAssumption, FS_Union DEF Bodies
<1>2. Cardinality(Bodies) \in Nat
  BY <1>1, FS_CardinalityType
<1>3. PICK n \in 1 .. Cardinality(Bodies) : vector \in [1 .. n -> Bodies]
  BY DEF Orders
<1>4. n \in Nat /\ Len(vector) = n
  BY <1>2, <1>3
<1>. QED
  BY <1>3, <1>4 DEF Orders

LEMMA CheckCreaturesLegal ==
  ASSUME NEW w, Sound(w), NEW vector \in Orders, \A i \in DOMAIN vector : w[vector[i]].listed,
         NEW how, NEW after,
         after = [n \in 0 .. Len(vector) |-> IF n = 0 THEN w ELSE Checked(after[n - 1], vector[n], how)],
         NEW v, v = Cleanup(after[Len(vector)])
  PROVE  Legal(w, v)
<1>1. PICK N \in Nat : vector \in [1 .. N -> Bodies] /\ IsInjective(vector) /\ N = Len(vector)
  BY OrdersAre
<1>2. Turned(after, w, vector, how, N)
  BY <1>1 DEF Turned
<1>3. \A i \in 1 .. N : w[vector[i]].listed
  BY <1>1
<1>. DEFINE a == after[N]
<1>4. Sound(a) /\ Stays(w, a)
  BY <1>1, <1>2, <1>3, TurnedIs
<1>5. v = Cleanup(a)
  BY <1>1
<1>. HIDE DEF a
<1>6. /\ Sound(v) /\ Fresh(v)
      /\ \A c \in Bodies : v[c].removed = a[c].removed /\ v[c].summons = a[c].summons
  BY <1>4, <1>5, CleanupIs
<1>. QED
  BY <1>4, <1>6 DEF Legal, Stays, Bodies

LEMMA OneMore ==
  ASSUME NEW S, IsFiniteSet(S), NEW x, x \notin S, NEW p \in BOOLEAN
  PROVE  LET U == IF p THEN S \cup {x} ELSE S
         IN  IsFiniteSet(U) /\ Cardinality(U) = Cardinality(S) + (IF p THEN 1 ELSE 0)
<1>1. Cardinality(S) \in Nat
  BY FS_CardinalityType
<1>. QED
  BY <1>1, FS_AddElement

LEMMA FourAre ==
  ASSUME NEW p \in BOOLEAN, NEW q \in BOOLEAN, NEW r \in BOOLEAN, NEW s \in BOOLEAN
  PROVE  Cardinality({k \in 1 .. 4 : <<p, q, r, s>>[k]})
         = (IF p THEN 1 ELSE 0) + (IF q THEN 1 ELSE 0) + (IF r THEN 1 ELSE 0) + (IF s THEN 1 ELSE 0)
<1>. DEFINE A == IF p THEN {} \cup {1} ELSE {}
            B == IF q THEN A \cup {2} ELSE A
            C == IF r THEN B \cup {3} ELSE B
            D == IF s THEN C \cup {4} ELSE C
<1>0. IsFiniteSet({}) /\ Cardinality({}) = 0
  BY FS_EmptySet
<1>1. A \subseteq {1}
  OBVIOUS
<1>2. B \subseteq {1, 2}
  OBVIOUS
<1>3. C \subseteq {1, 2, 3}
  OBVIOUS
<1>4. {k \in 1 .. 4 : <<p, q, r, s>>[k]} = D
  <2>1. ASSUME NEW k
        PROVE  k \in {j \in 1 .. 4 : <<p, q, r, s>>[j]} <=> k \in D
    <3>1. k \in D <=> (k = 1 /\ p) \/ (k = 2 /\ q) \/ (k = 3 /\ r) \/ (k = 4 /\ s)
      OBVIOUS
    <3>2. k \in 1 .. 4 <=> k = 1 \/ k = 2 \/ k = 3 \/ k = 4
      OBVIOUS
    <3>. HIDE DEF D
    <3>. QED
      BY <3>1, <3>2
  <2>. HIDE DEF D
  <2>. QED
    BY <2>1
<1>5. IsFiniteSet(A) /\ Cardinality(A) = 0 + (IF p THEN 1 ELSE 0)
  BY <1>0, OneMore
<1>. HIDE DEF A
<1>6. IsFiniteSet(B) /\ Cardinality(B) = Cardinality(A) + (IF q THEN 1 ELSE 0)
  <2>1. 2 \notin A
    BY <1>1
  <2>. QED
    BY <1>5, <2>1, OneMore
<1>. HIDE DEF B
<1>7. IsFiniteSet(C) /\ Cardinality(C) = Cardinality(B) + (IF r THEN 1 ELSE 0)
  <2>1. 3 \notin B
    BY <1>2
  <2>. QED
    BY <1>6, <2>1, OneMore
<1>. HIDE DEF C
<1>8. Cardinality(D) = Cardinality(C) + (IF s THEN 1 ELSE 0)
  <2>1. 4 \notin C
    BY <1>3
  <2>. QED
    BY <1>7, <2>1, OneMore
<1>. HIDE DEF D
<1>. QED
  BY <1>4, <1>5, <1>6, <1>7, <1>8

-----------------------------------------------------------------------------
LEMMA SummonInvInit ==
  ASSUME SummonInit
  PROVE  SummonInv
<1>1. \A c \in Bodies : bodies[c] = Nobody
  BY DEF SummonInit
<1>2. /\ Nobody.placed = FALSE /\ Nobody.removed = FALSE /\ Nobody.checked = FALSE
      /\ Nobody.master = NoMaster /\ Nobody.summons = {} /\ Nobody.released = 0
  BY DEF Nobody
<1>3. Nobody \in Body /\ Whole(Nobody)
  BY NobodyIs DEF Whole
<1>4. NoMaster \notin Bodies /\ Masters \subseteq Bodies
  BY SummonsAssumption DEF Bodies
<1>5. bodies \in [Bodies -> Body]
  BY <1>3 DEF SummonInit
<1>6. Linked(bodies)
  BY <1>1, <1>2, <1>4 DEF Linked
<1>7. Sound(bodies)
  BY <1>1, <1>3, <1>5, <1>6 DEF Sound
<1>8. Fresh(bodies) /\ Alive(bodies)
  BY <1>1, <1>2 DEF Fresh, Alive
<1>. QED
  BY <1>7, <1>8 DEF SummonInv

(* Every step changes the bodies in a way that is allowed, and then buries *)
(* those that nothing refers to.                                           *)
LEMMA SummonStep ==
  ASSUME SummonInv, SummonNext
  PROVE  \E v : Legal(bodies, v) /\ bodies' = Buried(v)
<1>. DEFINE Goal == \E v : Legal(bodies, v) /\ bodies' = Buried(v)
<1>0. Sound(bodies) /\ Fresh(bodies)
  BY DEF SummonInv
<1>1. ASSUME NEW v, Legal(bodies, v), Become(v)
      PROVE  Goal
  BY <1>1 DEF Become
<1>. HIDE DEF Goal
<1>2. ASSUME NEW c \in Bodies
      PROVE  bodies[c] \in Body /\ bodies \in [Bodies -> Body]
  BY <1>0 DEF Sound
<1>3. ASSUME NEW c \in Bodies, Place(c)
      PROVE  Goal
  BY <1>0, <1>1, <1>3, PlaceLegal DEF Place, Exists
<1>4. ASSUME NEW c \in Bodies, Hurt(c)
      PROVE  Goal
  <2>. DEFINE t == IF c \in Beasts THEN Killed(bodies[c]) ELSE [bodies[c] EXCEPT !.healthy = FALSE]
              v == [bodies EXCEPT ![c] = t]
  <2>1. Become(v) /\ bodies[c].placed /\ ~bodies[c].removed /\ bodies[c].healthy
    BY <1>4 DEF Hurt, InGame
  <2>2. Legal(bodies, v)
    BY <1>0, <2>1, HurtLegal
  <2>. HIDE DEF v
  <2>. QED
    BY <1>1, <2>1, <2>2
<1>5. ASSUME NEW c \in Bodies, Depart(c)
      PROVE  Goal
  <2>. DEFINE v == RemoveCreatures(bodies, {c})
  <2>1. Become(v) /\ bodies[c].placed
    BY <1>5 DEF Depart, InGame, RemoveCreature
  <2>2. Legal(bodies, v)
    BY <1>0, <2>1, RemoveLegal
  <2>. HIDE DEF v
  <2>. QED
    BY <1>1, <2>1, <2>2
<1>6. ASSUME NEW c \in Bodies, Notice(c)
      PROVE  Goal
  <2>. DEFINE t == [bodies[c] EXCEPT !.seen = TRUE,
                                     !.refs = IF TRUE THEN bodies[c].refs + 1 ELSE bodies[c].refs - 1]
              v == [bodies EXCEPT ![c] = t]
  <2>1. bodies[c].placed /\ bodies[c].seen # TRUE
    BY <1>6 DEF Notice, InGame
  <2>2. Become(v)
    <3>1. v = [bodies EXCEPT ![c].seen = TRUE, ![c].refs = bodies[c].refs + 1]
      BY <1>2
    <3>. QED
      BY <1>2, <1>6, <3>1 DEF Notice
  <2>3. Legal(bodies, v)
    BY <1>0, <2>1, SeenLegal
  <2>. HIDE DEF v
  <2>. QED
    BY <1>1, <2>2, <2>3
<1>7. ASSUME NEW c \in Bodies, Lose(c)
      PROVE  Goal
  <2>. DEFINE t == [bodies[c] EXCEPT !.seen = FALSE,
                                     !.refs = IF FALSE THEN bodies[c].refs + 1 ELSE bodies[c].refs - 1]
              v == [bodies EXCEPT ![c] = t]
  <2>1. bodies[c].seen # FALSE /\ (bodies[c].placed \/ bodies[c].removed)
    <3>1. Nobody.seen = FALSE
      BY DEF Nobody
    <3>. QED
      BY <1>0, <1>7, <3>1, SoundIs DEF Lose, Whole
  <2>2. Become(v)
    <3>1. v = [bodies EXCEPT ![c].seen = FALSE, ![c].refs = bodies[c].refs - 1]
      BY <1>2
    <3>. QED
      BY <1>2, <1>7, <3>1 DEF Lose
  <2>3. Legal(bodies, v)
    BY <1>0, <2>1, SeenLegal
  <2>. HIDE DEF v
  <2>. QED
    BY <1>1, <2>2, <2>3
<1>8. ASSUME NEW m \in Bodies, NEW c \in Beasts, PlaceSummon(m, c)
      PROVE  Goal
  <2>. DEFINE u == AddSummon(bodies, m, c)
  <2>1. /\ bodies[m].placed /\ ~bodies[m].removed /\ ~bodies[c].placed /\ ~bodies[c].removed
        /\ Become(Placed(u, c)) \/ Become(RemoveSummon(u, m, c))
    BY <1>8 DEF PlaceSummon, InGame, Exists
  <2>. HIDE DEF u
  <2>2. PICK v : Become(v) /\ (v = Placed(u, c) \/ v = RemoveSummon(u, m, c))
    BY <2>1
  <2>3. Legal(bodies, v)
    BY <1>0, <2>1, <2>2, PlaceSummonLegal DEF u
  <2>. QED
    BY <1>1, <2>2, <2>3
<1>9. ASSUME NEW m \in Masters, NEW c \in Beasts, Convince(m, c)
      PROVE  Goal
  <2>. DEFINE u == IF bodies[c].master = NoMaster THEN bodies
                   ELSE RemoveSummon(bodies, bodies[c].master, c)
              v == AddSummon(DestroySummons(u, c), m, c)
  <2>1. Become(v) /\ bodies[m].placed /\ bodies[c].placed /\ bodies[c].master \notin Masters
    BY <1>9 DEF Convince, InGame
  <2>2. Legal(bodies, v)
    BY <1>0, <2>1, ConvinceLegal
  <2>. HIDE DEF v
  <2>. QED
    BY <1>1, <2>1, <2>2
<1>10. ASSUME NEW c \in Beasts, NEW idle \in BOOLEAN, UpdateIdle(c, idle)
       PROVE  Goal
  <2>. DEFINE v == [bodies EXCEPT ![c] = SetIdle(bodies[c], idle)]
  <2>1. Become(v) /\ bodies[c].placed /\ ~bodies[c].removed
    BY <1>10 DEF UpdateIdle, InGame
  <2>2. Legal(bodies, v)
    BY <1>0, <2>1, UpdateIdleLegal
  <2>. HIDE DEF v
  <2>. QED
    BY <1>1, <2>1, <2>2
<1>11. ASSUME NEW m \in Bodies, NEW far \in SUBSET bodies[m].summons, MoveAway(m, far)
       PROVE  Goal
  <2>. DEFINE v == RemoveCreatures(bodies, far)
  <2>1. Become(v)
    BY <1>11 DEF MoveAway
  <2>2. ASSUME NEW c \in far
        PROVE  c \in Bodies /\ (bodies[c].placed \/ bodies[c].removed)
    <3>1. c \in Bodies
      BY <1>0, SoundIs
    <3>. QED
      BY <1>0, <3>1, LedIs
  <2>3. Legal(bodies, v)
    <3>1. far \in SUBSET Bodies
      BY <2>2
    <3>. QED
      BY <1>0, <2>2, <3>1, RemoveLegal
  <2>. HIDE DEF v
  <2>. QED
    BY <1>1, <2>1, <2>3
<1>12. ASSUME NEW vector \in Orders, NEW how, CheckCreatures(vector, how)
       PROVE  Goal
  <2>. DEFINE N == Len(vector)
              after == CHOOSE f : f = [n \in 0 .. N |->
                         IF n = 0 THEN bodies ELSE Checked(f[n - 1], vector[n], how)]
              v == Cleanup(after[N])
  <2>1. Become(v) /\ \A i \in DOMAIN vector : bodies[vector[i]].listed
    BY <1>12 DEF CheckCreatures
  <2>2. N \in Nat
    BY OrdersAre
  <2>3. \E f : f = [n \in 0 .. N |-> IF n = 0 THEN bodies ELSE Checked(f[n - 1], vector[n], how)]
    <3>. HIDE DEF N
    <3>1. \E f : Turned(f, bodies, vector, how, N)
      BY <2>2, TurnedExists
    <3>. QED
      BY <3>1 DEF Turned
  <2>4. after = [n \in 0 .. N |-> IF n = 0 THEN bodies ELSE Checked(after[n - 1], vector[n], how)]
    <3>. HIDE DEF N
    <3>. QED
      BY <2>3
  <2>. HIDE DEF after
  <2>5. Legal(bodies, v)
    BY <1>0, <2>1, <2>4, CheckCreaturesLegal
  <2>. HIDE DEF v
  <2>. QED
    BY <1>1, <2>1, <2>5
<1>13. ASSUME CleanUp
       PROVE  Goal
  <2>. DEFINE v == Cleanup(bodies)
  <2>1. Become(v)
    BY <1>13 DEF CleanUp
  <2>2. /\ Sound(v) /\ Fresh(v)
        /\ \A c \in Bodies : v[c].removed = bodies[c].removed /\ v[c].summons = bodies[c].summons
    BY <1>0, CleanupIs
  <2>. HIDE DEF v
  <2>3. Legal(bodies, v)
    BY <2>2 DEF Legal, Bodies
  <2>. QED
    BY <1>1, <2>1, <2>3
<1>14. Goal
  BY <1>3, <1>4, <1>5, <1>6, <1>7, <1>8, <1>9, <1>10, <1>11, <1>12, <1>13 DEF SummonNext
<1>. QED
  BY <1>14 DEF Goal

(* Masters and summons know each other, are counted and checked as long as *)
(* they exist, and leave together: 800/creature.cpp, monster.cpp, game.cpp. *)
THEOREM SummonsAlwaysKept == SummonSpec => SummonsKept
<1>. DEFINE Walk == \A m \in Masters : \A c \in bodies[m].summons :
                      InGame(m) /\ bodies'[m].removed /\ bodies[c].healthy => c \in bodies'[m].summons
<1>1. SummonInit => SummonInv
  BY SummonInvInit
<1>2. SummonInv /\ [SummonNext]_bodies => SummonInv' /\ [Walk]_bodies
  <2>1. CASE SummonInv /\ SummonNext
    <3>1. PICK v : Legal(bodies, v) /\ bodies' = Buried(v)
      BY <2>1, SummonStep
    <3>2. /\ Sound(bodies') /\ Fresh(bodies') /\ Alive(bodies')
          /\ \A m \in Bodies : bodies'[m].removed =>
               v[m].removed /\ bodies'[m].summons = v[m].summons
      BY <3>1, BuriedKeeps DEF Legal
    <3>3. Walk
      BY <3>1, <3>2 DEF Legal, InGame, Bodies
    <3>4. SummonInv'
      BY <3>2 DEF SummonInv, Sound, Fresh, Alive, Linked
    <3>. QED
      BY <3>3, <3>4
  <2>2. CASE SummonInv /\ UNCHANGED bodies
    BY <2>2 DEF SummonInv, Sound, Fresh, Alive, Linked
  <2>. QED
    BY <2>1, <2>2
<1>3. SummonInv => SummonTypeOK /\ MastersMutual /\ BodyRefs /\ DeadAreChecked /\ NobodyLeftBehind
  <2>. SUFFICES ASSUME SummonInv
                PROVE  SummonTypeOK /\ MastersMutual /\ BodyRefs /\ DeadAreChecked /\ NobodyLeftBehind
    OBVIOUS
  <2>0. Sound(bodies) /\ Fresh(bodies) /\ bodies \in [Bodies -> Body]
    BY DEF SummonInv, Sound
  <2>1. ASSUME NEW c \in Bodies
        PROVE  /\ bodies[c].refs = Cardinality({k \in 1 .. 4 :
                    <<bodies[c].placed, bodies[c].listed, bodies[c].master # NoMaster,
                      bodies[c].seen>>[k]}) + bodies[c].released
               /\ bodies[c].released \in 0 .. 2 /\ bodies[c].refs \in 0 .. 6
    <3>. DEFINE b == bodies[c]
    <3>1. /\ Whole(b) /\ b.placed \in BOOLEAN /\ b.listed \in BOOLEAN /\ b.seen \in BOOLEAN
          /\ b.released \in Nat /\ b.refs \in Int
      BY <2>0, SoundIs, BodyIs
    <3>2. b.released <= 1
      BY <2>0, <3>1 DEF Fresh
    <3>. HIDE DEF b
    <3>3. Cardinality({k \in 1 .. 4 : <<b.placed, b.listed, b.master # NoMaster, b.seen>>[k]})
          = (IF b.placed THEN 1 ELSE 0) + (IF b.listed THEN 1 ELSE 0)
            + (IF b.master # NoMaster THEN 1 ELSE 0) + (IF b.seen THEN 1 ELSE 0)
      <4>. DEFINE p == b.placed
                  q == b.listed
                  r == b.master # NoMaster
                  s == b.seen
      <4>1. p \in BOOLEAN /\ q \in BOOLEAN /\ r \in BOOLEAN /\ s \in BOOLEAN
        BY <3>1
      <4>. HIDE DEF p, q, r, s
      <4>2. Cardinality({k \in 1 .. 4 : <<p, q, r, s>>[k]})
            = (IF p THEN 1 ELSE 0) + (IF q THEN 1 ELSE 0)
              + (IF r THEN 1 ELSE 0) + (IF s THEN 1 ELSE 0)
        BY <4>1, FourAre
      <4>. QED
        BY <4>2 DEF p, q, r, s
    <3>4. b.refs = Count(b)
      BY <3>1 DEF Whole
    <3>5. b.refs = Cardinality({k \in 1 .. 4 :
                     <<b.placed, b.listed, b.master # NoMaster, b.seen>>[k]}) + b.released
      BY <3>1, <3>3, <3>4 DEF Count
    <3>6. b.released \in 0 .. 2 /\ b.refs \in 0 .. 6
      BY <3>1, <3>2, <3>4 DEF Count
    <3>. QED
      BY <3>5, <3>6 DEF b
  <2>2. BodyRefs
    BY <2>1 DEF BodyRefs
  <2>3. SummonTypeOK
    <3>. DEFINE R == [placed : BOOLEAN, removed : BOOLEAN, healthy : BOOLEAN,
                      checked : BOOLEAN, listed : BOOLEAN, master : Bodies \cup {NoMaster},
                      summons : SUBSET Beasts, seen : BOOLEAN, released : 0 .. 2, refs : 0 .. 6]
    <3>1. ASSUME NEW b \in Body, b.released \in 0 .. 2, b.refs \in 0 .. 6
          PROVE  b \in R
      BY <3>1 DEF Body
    <3>. HIDE DEF R
    <3>2. \A c \in Bodies : bodies[c] \in R
      BY <2>0, <2>1, <3>1
    <3>3. bodies \in [Bodies -> R]
      BY <2>0, <3>2
    <3>. QED
      BY <3>3 DEF R, SummonTypeOK
  <2>4. MastersMutual
    <3>1. \A c, m \in Bodies : bodies[c].master = m <=> c \in bodies[m].summons
      BY <2>0 DEF Sound, Linked
    <3>2. ASSUME NEW c \in Bodies, NEW m \in Bodies, c \in bodies[m].summons
          PROVE  Exists(c) /\ Exists(m)
      <4>1. bodies[c].placed \/ bodies[c].removed
        BY <2>0, <3>2, LedIs
      <4>2. bodies[m] # Nobody
        BY <3>2 DEF Nobody
      <4>3. bodies[m].placed \/ bodies[m].removed
        BY <2>0, <4>2, SoundIs DEF Whole
      <4>. QED
        BY <4>1, <4>3 DEF Exists
    <3>. QED
      BY <3>1, <3>2 DEF MastersMutual
  <2>5. DeadAreChecked
    BY <2>0, SoundIs DEF DeadAreChecked, InGame, Whole
  <2>6. NobodyLeftBehind
    <3>1. ASSUME NEW c \in Bodies, InGame(c), bodies[c].master # NoMaster
          PROVE  InGame(bodies[c].master)
      <4>1. bodies[c].master \in Bodies /\ bodies[bodies[c].master].placed
        BY <2>0, <3>1, SoundIs DEF InGame, Sound, Linked
      <4>. QED
        BY <2>0, <4>1, SoundIs DEF InGame, Whole
    <3>. QED
      BY <3>1 DEF NobodyLeftBehind
  <2>. QED
    BY <2>2, <2>3, <2>4, <2>5, <2>6
<1>. HIDE DEF Walk
<1>4. SummonSpec => [](SummonTypeOK /\ MastersMutual /\ BodyRefs /\ DeadAreChecked
                       /\ NobodyLeftBehind) /\ [][Walk]_bodies
  BY <1>1, <1>2, <1>3, PTL DEF SummonSpec
<1>. QED
  BY <1>4 DEF Walk, SummonsKept, WalkedListStays
=============================================================================
