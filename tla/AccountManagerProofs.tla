------------------------ MODULE AccountManagerProofs ------------------------
(***************************************************************************)
(* Machine-checked proofs about module AccountManager, for any clients,    *)
(* names, accounts and texts, any number of rows, and with and without the *)
(* choice of a vocation.                                                   *)
(***************************************************************************)
EXTENDS AccountManager, Integers, WellFoundedInduction, TLAPS

Dialogue ==
  [mode : {"off", "lock", "account", "new"}, talk : SUBSET (1 .. 12),
   account : AccountIds \cup {NoAccount}, name : Names \cup {NoName},
   victim : Names \cup {NoName}, number : AccountIds \cup {NoAccount},
   chosen : SUBSET {"sex", "vocation"}]

Character ==
  [name : Names, account : AccountIds, deleted : BOOLEAN,
   locked : BOOLEAN, made : SUBSET {"sex", "vocation"}]

(* What a dialogue has asked for it still knows, however its questions     *)
(* overlap.  A name that was taken meanwhile is asked for again (6) before *)
(* anything else; who comes from the dialogue of a newcomer may have 7 and *)
(* 8 left of it, but then 6 as well.                                       *)
Told(m) ==
  /\ m.mode = "lock" => m.victim \in Names /\ (2 \in m.talk => m.name \in Names)
  /\ m.mode = "new" =>
       /\ m.talk \subseteq 1 .. 8 /\ m.chosen = {}
       /\ 7 \in m.talk \/ 8 \in m.talk => 6 \in m.talk
       /\ 5 \in m.talk => m.number \in AccountIds
  /\ m.mode = "account" =>
       /\ 6 \notin m.talk /\ m.talk \cap {7, 8, 9, 11, 12} # {} => m.name \in Names
       /\ 9 \in m.talk => "sex" \in m.chosen
       /\ 11 \in m.talk => "sex" \in m.chosen /\ ChooseVocation
       /\ 12 \in m.talk => m.chosen = {"sex", "vocation"} /\ ChooseVocation
       /\ "vocation" \in m.chosen => ChooseVocation

(* The inductive invariant. *)
Dialogues == DialoguesSafe /\ \A c \in Clients : Told(talks[c])
-----------------------------------------------------------------------------
LEMMA Least ==
  ASSUME NEW T \in SUBSET Nat, T # {}
  PROVE  \E x \in T : \A y \in T : x <= y
<1>1. PICK R : IsWellFoundedOn(R, Nat) /\ \A x, y \in Nat : <<y, x>> \in R <=> y < x
  <2>. DEFINE S == OpToRel(<, Nat)
  <2>1. IsWellFoundedOn(S, Nat)
    BY NatLessThanWellFounded
  <2>2. \A x, y \in Nat : <<y, x>> \in S <=> y < x
    BY DEF OpToRel
  <2>. QED
    BY <2>1, <2>2, Zenon
<1>2. T \subseteq Nat
  OBVIOUS
<1>3. PICK x \in T : \A y \in T : ~ (<<y, x>> \in R)
  BY <1>1, <1>2, WFMin
<1>4. \A y \in T : x <= y
  <2>. TAKE y \in T
  <2>1. x \in Nat /\ y \in Nat /\ ~(y < x)
    BY <1>1, <1>2, <1>3
  <2>. QED
    BY <2>1
<1>. QED
  BY <1>4

(* First returns the branch whose condition holds and no earlier one's.    *)
LEMMA FirstIs ==
  ASSUME NEW n \in Nat, NEW b, DOMAIN b = 1 .. n, First(b) # "other"
  PROVE  \E i \in 1 .. n : /\ b[i][1] /\ First(b) = b[i][2]
                           /\ \A j \in 1 .. i - 1 : ~b[j][1]
<1>. DEFINE T == {i \in 1 .. n : b[i][1]}
<1>1. T # {}
  BY DEF First
<1>2. PICK i \in T : \A j \in T : i <= j
  <2>1. T \in SUBSET Nat
    OBVIOUS
  <2>. QED
    BY <1>1, <2>1, Least
<1>3. i \in 1 .. n /\ b[i][1] /\ \A j \in 1 .. i - 1 : ~b[j][1]
  <2>1. ASSUME NEW j \in 1 .. i - 1, b[j][1]
        PROVE  FALSE
    <3>1. i \in Nat /\ i <= n /\ j \in Nat /\ j < i /\ j >= 1
      OBVIOUS
    <3>2. j \in T
      BY <2>1, <3>1
    <3>. QED
      BY <1>2, <3>1, <3>2
  <2>. QED
    BY <2>1
<1>. DEFINE k == CHOOSE h \in DOMAIN b : b[h][1] /\ \A j \in 1 .. h - 1 : ~b[j][1]
<1>4. k \in DOMAIN b /\ b[k][1] /\ \A j \in 1 .. k - 1 : ~b[j][1]
  BY <1>3
<1>5. First(b) = b[k][2]
  BY <1>4 DEF First
<1>. HIDE DEF k
<1>. QED
  BY <1>4, <1>5
-----------------------------------------------------------------------------
(* When a branch is taken, what it asks about has been asked before; and   *)
(* one behind the name's is taken only when no name is awaited.            *)
LEMMA AccountBranchIs ==
  ASSUME NEW m, NEW t, NEW b, b = AccountBranch(m, t)
  PROVE  /\ b = "askSex" => 7 \in m.talk
         /\ b = "sex" => 8 \in m.talk
         /\ b \in {"resex", "askVocation"} => 9 \in m.talk
         /\ b = "askVocation" => ChooseVocation
         /\ b = "vocation" => 11 \in m.talk
         /\ b = "revocation" => 12 \in m.talk
         /\ b \in {"askSex", "sex", "resex", "askVocation", "vocation", "revocation", "create"}
              => 6 \notin m.talk
         /\ b = "create" => 12 \in m.talk \/ (9 \in m.talk /\ ~ChooseVocation)
         /\ b \in {"other", "menu", "askDelete", "nameDelete", "delete", "keep", "askName",
                   "name", "renameNew", "askSex", "sex", "resex", "askVocation", "vocation",
                   "create", "revocation"}
<1>. DEFINE br ==
       << <<t = "cancel" \/ (t = "account" /\ 1 \notin m.talk), "menu">>,
           <<Asked(m, 1, {"delete"}, t), "askDelete">>,
           <<2 \in m.talk, "nameDelete">>,
           <<Asked(m, 3, {"yes"}, t), "delete">>,
           <<Asked(m, 3, {"no"}, t), "keep">>,
           <<Asked(m, 1, {"character"}, t), "askName">>,
           <<6 \in m.talk, "name">>,
           <<Asked(m, 7, {"no"}, t), "renameNew">>,
           <<Asked(m, 7, {"yes"}, t), "askSex">>,
           <<Asked(m, 8, {"male"}, t), "sex">>,
           <<Asked(m, 9, {"no"}, t), "resex">>,
           <<Asked(m, 9, {"yes"}, t), AfterSex>>,
           <<11 \in m.talk, "vocation">>,
           <<Asked(m, 12, {"yes"}, t), "create">>,
           <<Asked(m, 12, {"no"}, t), "revocation">> >>
<1>1. b = First(br)
  BY DEF AccountBranch
<1>2. DOMAIN br = 1 .. 15
  OBVIOUS
<1>3. /\ br[7][1] <=> 6 \in m.talk
      /\ br[9][1] => 7 \in m.talk
      /\ br[10][1] => 8 \in m.talk
      /\ br[11][1] => 9 \in m.talk
      /\ br[12][1] => 9 \in m.talk
      /\ br[13][1] => 11 \in m.talk
      /\ br[14][1] => 12 \in m.talk
      /\ br[15][1] => 12 \in m.talk
  BY DEF Asked
<1>4. /\ br[1][2] = "menu" /\ br[2][2] = "askDelete" /\ br[3][2] = "nameDelete"
      /\ br[4][2] = "delete" /\ br[5][2] = "keep" /\ br[6][2] = "askName"
      /\ br[7][2] = "name" /\ br[8][2] = "renameNew" /\ br[9][2] = "askSex"
      /\ br[10][2] = "sex" /\ br[11][2] = "resex" /\ br[12][2] = AfterSex
      /\ br[13][2] = "vocation" /\ br[14][2] = "create" /\ br[15][2] = "revocation"
  OBVIOUS
<1>5. AfterSex = IF ChooseVocation THEN "askVocation" ELSE "create"
  BY DEF AfterSex
<1>. HIDE DEF br
<1>6. CASE b = "other"
  BY <1>6
<1>7. CASE b # "other"
  <2>1. PICK i \in 1 .. 15 : /\ br[i][1] /\ b = br[i][2]
                             /\ \A j \in 1 .. i - 1 : ~br[j][1]
    <3>1. 15 \in Nat /\ First(br) # "other"
      BY <1>1, <1>7
    <3>2. \E i \in 1 .. 15 : /\ br[i][1] /\ First(br) = br[i][2]
                             /\ \A j \in 1 .. i - 1 : ~br[j][1]
      BY <1>2, <3>1, FirstIs, Zenon
    <3>. QED
      BY <1>1, <3>2
  <2>2. CASE i \in 1 .. 7
    BY <1>4, <2>1, <2>2
  <2>3. CASE i \in 8 .. 15
    <3>1. 6 \notin m.talk
      BY <1>3, <2>1, <2>3
    <3>2. CASE i \in 8 .. 11
      BY <1>3, <1>4, <2>1, <3>1, <3>2
    <3>3. CASE i \in 12 .. 15
      BY <1>3, <1>4, <1>5, <2>1, <3>1, <3>3
    <3>. QED
      BY <2>3, <3>2, <3>3
  <2>. QED
    BY <2>2, <2>3
<1>. QED
  BY <1>6, <1>7
-----------------------------------------------------------------------------
LEMMA NewBranchIs ==
  ASSUME NEW m, NEW t, NEW b, b = NewBranch(m, t)
  PROVE  /\ b = "found" => 5 \in m.talk
         /\ b = "recoverNumber" => 7 \in m.talk
         /\ b \in {"other", "start", "password", "askNumber", "repassword", "number", "found",
                   "renumber", "recover", "recoverNumber", "recoverKey"}
<1>. DEFINE br ==
       << <<t = "account" /\ 1 \notin m.talk, "start">>,
           <<2 \in m.talk, "password">>,
           <<Asked(m, 3, {"yes"}, t), "askNumber">>,
           <<Asked(m, 3, {"no"}, t), "repassword">>,
           <<4 \in m.talk, "number">>,
           <<Asked(m, 5, {"yes"}, t), "found">>,
           <<Asked(m, 5, {"no"}, t), "renumber">>,
           <<t = "recover" /\ 6 \notin m.talk, "recover">>,
           <<7 \in m.talk, "recoverNumber">>,
           <<8 \in m.talk, "recoverKey">> >>
<1>1. b = First(br)
  BY DEF NewBranch
<1>2. DOMAIN br = 1 .. 10
  OBVIOUS
<1>3. (br[6][1] => 5 \in m.talk) /\ (br[9][1] => 7 \in m.talk)
  BY DEF Asked
<1>4. /\ br[1][2] = "start" /\ br[2][2] = "password" /\ br[3][2] = "askNumber"
      /\ br[4][2] = "repassword" /\ br[5][2] = "number" /\ br[6][2] = "found"
      /\ br[7][2] = "renumber" /\ br[8][2] = "recover" /\ br[9][2] = "recoverNumber"
      /\ br[10][2] = "recoverKey"
  OBVIOUS
<1>. HIDE DEF br
<1>5. CASE b = "other"
  BY <1>5
<1>6. CASE b # "other"
  <2>1. PICK i \in 1 .. 10 : br[i][1] /\ b = br[i][2]
    <3>1. 10 \in Nat /\ First(br) # "other"
      BY <1>1, <1>6
    <3>2. \E i \in 1 .. 10 : /\ br[i][1] /\ First(br) = br[i][2]
                             /\ \A j \in 1 .. i - 1 : ~br[j][1]
      BY <1>2, <3>1, FirstIs, Zenon
    <3>. QED
      BY <1>1, <3>2
  <2>. QED
    BY <1>3, <1>4, <2>1
<1>. QED
  BY <1>5, <1>6
-----------------------------------------------------------------------------
(* What a step of a dialogue changes of it, field by field.                *)
LEMMA ToIs ==
  ASSUME NEW m \in Dialogue, NEW out, NEW in \in SUBSET (1 .. 12), NEW d, d = To(m, out, in)
  PROVE  /\ d \in Dialogue /\ d.mode = m.mode /\ d.talk = (m.talk \ out) \cup in
         /\ d.account = m.account /\ d.name = m.name /\ d.victim = m.victim
         /\ d.number = m.number /\ d.chosen = m.chosen
<1>1. (m.talk \ out) \cup in \in SUBSET (1 .. 12)
  BY DEF Dialogue
<1>. QED
  BY <1>1 DEF To, Dialogue

LEMMA NameIs ==
  ASSUME NEW m \in Dialogue, NEW n \in Names \cup {NoName}, NEW d, d = [m EXCEPT !.name = n]
  PROVE  /\ d \in Dialogue /\ d.mode = m.mode /\ d.talk = m.talk
         /\ d.account = m.account /\ d.name = n /\ d.victim = m.victim
         /\ d.number = m.number /\ d.chosen = m.chosen
BY DEF Dialogue

LEMMA VictimIs ==
  ASSUME NEW m \in Dialogue, NEW n \in Names \cup {NoName}, NEW d, d = [m EXCEPT !.victim = n]
  PROVE  /\ d \in Dialogue /\ d.mode = m.mode /\ d.talk = m.talk
         /\ d.account = m.account /\ d.name = m.name /\ d.victim = n
         /\ d.number = m.number /\ d.chosen = m.chosen
BY DEF Dialogue

LEMMA NumberIs ==
  ASSUME NEW m \in Dialogue, NEW a \in AccountIds \cup {NoAccount}, NEW d,
         d = [m EXCEPT !.number = a]
  PROVE  /\ d \in Dialogue /\ d.mode = m.mode /\ d.talk = m.talk
         /\ d.account = m.account /\ d.name = m.name /\ d.victim = m.victim
         /\ d.number = a /\ d.chosen = m.chosen
BY DEF Dialogue

LEMMA ChosenIs ==
  ASSUME NEW m \in Dialogue, NEW x \in {"sex", "vocation"}, NEW d,
         d = [m EXCEPT !.chosen = @ \cup {x}]
  PROVE  /\ d \in Dialogue /\ d.mode = m.mode /\ d.talk = m.talk
         /\ d.account = m.account /\ d.name = m.name /\ d.victim = m.victim
         /\ d.number = m.number /\ d.chosen = m.chosen \cup {x}
<1>1. m.chosen \cup {x} \in SUBSET {"sex", "vocation"}
  BY DEF Dialogue
<1>. QED
  BY <1>1 DEF Dialogue

LEMMA AtMenuIs ==
  ASSUME NEW m \in Dialogue, NEW d, d = AtMenu(m)
  PROVE  /\ d \in Dialogue /\ d.mode = m.mode /\ d.talk = {1}
         /\ d.account = m.account /\ d.name = NoName /\ d.victim = NoName
         /\ d.number = m.number /\ d.chosen = {}
<1>1. d = [m EXCEPT !.talk = {1}, !.victim = NoName, !.name = NoName, !.chosen = {}]
  BY DEF AtMenu, Menu
<1>2. /\ d.mode = m.mode /\ d.talk = {1} /\ d.account = m.account /\ d.name = NoName
      /\ d.victim = NoName /\ d.number = m.number /\ d.chosen = {}
  BY <1>1 DEF Dialogue
<1>3. {1} \in SUBSET (1 .. 12) /\ {} \in SUBSET {"sex", "vocation"}
  OBVIOUS
<1>4. d \in Dialogue
  BY <1>1, <1>3 DEF Dialogue
<1>. QED
  BY <1>2, <1>4
-----------------------------------------------------------------------------
(* A text that leads the dialogue on leaves it knowing what it asked for.  *)
LEMMA AccountAnswered ==
  ASSUME NEW m \in Dialogue, NEW t, m.mode = "account", Told(m)
  PROVE  Answered(m, t) \in Dialogue /\ Told(Answered(m, t))
<1>. DEFINE b == AccountBranch(m, t)
            d == Answered(m, t)
<1>1. b = AccountBranch(m, t) /\ d = Answered(m, t)
  OBVIOUS
<1>. SUFFICES d \in Dialogue /\ Told(d)
  OBVIOUS
<1>. HIDE DEF b, d
<1>2. /\ b = "askSex" => 7 \in m.talk
      /\ b = "sex" => 8 \in m.talk
      /\ b \in {"resex", "askVocation"} => 9 \in m.talk
      /\ b = "askVocation" => ChooseVocation
      /\ b = "vocation" => 11 \in m.talk
      /\ b = "revocation" => 12 \in m.talk
      /\ b \in {"askSex", "sex", "resex", "askVocation", "vocation", "revocation", "create"}
           => 6 \notin m.talk
      /\ b \in {"other", "menu", "askDelete", "nameDelete", "delete", "keep", "askName",
                "name", "renameNew", "askSex", "sex", "resex", "askVocation", "vocation",
                "create", "revocation"}
  BY <1>1, AccountBranchIs
<1>3. CASE b = "menu"
  <2>1. d = AtMenu(m)
    BY <1>1, <1>3 DEF Answered
  <2>. QED
    BY <2>1, AtMenuIs DEF Told
<1>4. CASE b = "askDelete"
  <2>1. d = To(m, {1}, {2})
    BY <1>1, <1>4 DEF Answered
  <2>. QED
    BY <1>2, <1>4, <2>1, ToIs DEF Told
<1>5. CASE b = "nameDelete" /\ t \in Names
  <2>1. d = [To(m, {2}, {3}) EXCEPT !.victim = t]
    BY <1>1, <1>5 DEF Answered
  <2>2. PICK a : a = To(m, {2}, {3})
    OBVIOUS
  <2>3. d = [a EXCEPT !.victim = t]
    BY <2>1, <2>2
  <2>. QED
    BY <1>2, <1>5, <2>2, <2>3, ToIs, VictimIs DEF Told
<1>6. CASE b = "keep"
  <2>1. d = [To(m, {3}, {1}) EXCEPT !.victim = NoName]
    BY <1>1, <1>6 DEF Answered
  <2>2. PICK a : a = To(m, {3}, {1})
    OBVIOUS
  <2>3. d = [a EXCEPT !.victim = NoName]
    BY <2>1, <2>2
  <2>. QED
    BY <1>2, <1>6, <2>2, <2>3, ToIs, VictimIs DEF Told
<1>7. CASE b = "renameNew"
  <2>1. d = [To(m, {7}, {6}) EXCEPT !.name = NoName]
    BY <1>1, <1>7 DEF Answered
  <2>2. PICK a : a = To(m, {7}, {6})
    OBVIOUS
  <2>3. d = [a EXCEPT !.name = NoName]
    BY <2>1, <2>2
  <2>. QED
    BY <1>2, <1>7, <2>2, <2>3, ToIs, NameIs DEF Told
<1>8. CASE b = "askSex"
  <2>1. d = To(m, {7}, {8})
    BY <1>1, <1>8 DEF Answered
  <2>. QED
    BY <1>2, <1>8, <2>1, ToIs DEF Told
<1>9. CASE b = "sex"
  <2>1. d = [To(m, {8}, {9}) EXCEPT !.chosen = @ \cup {"sex"}]
    BY <1>1, <1>9 DEF Answered
  <2>2. PICK a : a = To(m, {8}, {9})
    OBVIOUS
  <2>3. d = [a EXCEPT !.chosen = @ \cup {"sex"}]
    BY <2>1, <2>2
  <2>. QED
    BY <1>2, <1>9, <2>2, <2>3, ToIs, ChosenIs DEF Told
<1>10. CASE b = "resex"
  <2>1. d = To(m, {9}, {8})
    BY <1>1, <1>10 DEF Answered
  <2>. QED
    BY <1>2, <1>10, <2>1, ToIs DEF Told
<1>11. CASE b = "askVocation"
  <2>1. d = To(m, {9}, {11})
    BY <1>1, <1>11 DEF Answered
  <2>. QED
    BY <1>2, <1>11, <2>1, ToIs DEF Told
<1>12. CASE b = "vocation" /\ t = "knight"
  <2>1. d = [To(m, {11}, {12}) EXCEPT !.chosen = @ \cup {"vocation"}]
    BY <1>1, <1>12 DEF Answered
  <2>2. PICK a : a = To(m, {11}, {12})
    OBVIOUS
  <2>3. d = [a EXCEPT !.chosen = @ \cup {"vocation"}]
    BY <2>1, <2>2
  <2>4. /\ a \in Dialogue /\ a.mode = m.mode /\ a.talk = (m.talk \ {11}) \cup {12}
        /\ a.name = m.name /\ a.chosen = m.chosen
    BY <2>2, ToIs
  <2>5. /\ d \in Dialogue /\ d.mode = m.mode /\ d.talk = (m.talk \ {11}) \cup {12}
        /\ d.name = m.name /\ d.chosen = m.chosen \cup {"vocation"}
    BY <2>3, <2>4, ChosenIs
  <2>6. 11 \in m.talk /\ 6 \notin m.talk /\ "sex" \in m.chosen /\ ChooseVocation
        /\ m.name \in Names
    BY <1>2, <1>12 DEF Told
  <2>7. d.chosen = {"sex", "vocation"}
    BY <2>5, <2>6 DEF Dialogue
  <2>. QED
    BY <2>5, <2>6, <2>7 DEF Told
<1>13. CASE b = "revocation"
  <2>1. d = To(m, {12}, {11})
    BY <1>1, <1>13 DEF Answered
  <2>. QED
    BY <1>2, <1>13, <2>1, ToIs DEF Told
<1>14. CASE \/ b \in {"other", "delete", "askName", "name", "create"}
            \/ b = "nameDelete" /\ t \notin Names
            \/ b = "vocation" /\ t # "knight"
  <2>1. d = m
    BY <1>1, <1>14 DEF Answered
  <2>. QED
    BY <2>1
<1>15. b \in {"other", "menu", "askDelete", "nameDelete", "delete", "keep", "askName",
             "name", "renameNew", "askSex", "sex", "resex", "askVocation", "vocation",
             "create", "revocation"}
  BY <1>2
<1>. QED
  BY <1>3, <1>4, <1>5, <1>6, <1>7, <1>8, <1>9, <1>10, <1>11, <1>12, <1>13, <1>14, <1>15

LEMMA NewAnswered ==
  ASSUME NEW m \in Dialogue, NEW t, m.mode = "new", Told(m)
  PROVE  Answered(m, t) \in Dialogue /\ Told(Answered(m, t))
<1>. DEFINE b == NewBranch(m, t)
            d == Answered(m, t)
<1>1. b = NewBranch(m, t) /\ d = Answered(m, t)
  OBVIOUS
<1>. SUFFICES d \in Dialogue /\ Told(d)
  OBVIOUS
<1>. HIDE DEF b, d
<1>2. b = "recoverNumber" => 7 \in m.talk
  BY <1>1, NewBranchIs
<1>3. b \in {"other", "start", "password", "askNumber", "repassword", "number", "found",
            "renumber", "recover", "recoverNumber", "recoverKey"}
  BY <1>1, NewBranchIs
<1>4. CASE b = "start"
  <2>1. d = To(m, {}, {1, 2})
    BY <1>1, <1>4 DEF Answered
  <2>. QED
    BY <1>2, <1>4, <2>1, ToIs DEF Told
<1>5. CASE b = "password" /\ t = "secret"
  <2>1. d = To(m, {2}, {3})
    BY <1>1, <1>5 DEF Answered
  <2>. QED
    BY <1>2, <1>5, <2>1, ToIs DEF Told
<1>6. CASE b = "askNumber"
  <2>1. d = To(m, {3}, {4})
    BY <1>1, <1>6 DEF Answered
  <2>. QED
    BY <1>2, <1>6, <2>1, ToIs DEF Told
<1>7. CASE b = "repassword"
  <2>1. d = To(m, {3}, {2})
    BY <1>1, <1>7 DEF Answered
  <2>. QED
    BY <1>2, <1>7, <2>1, ToIs DEF Told
<1>8. CASE b = "number" /\ t \in AccountIds
  <2>1. d = [To(m, {4}, {5}) EXCEPT !.number = t]
    BY <1>1, <1>8 DEF Answered
  <2>2. PICK a : a = To(m, {4}, {5})
    OBVIOUS
  <2>3. d = [a EXCEPT !.number = t]
    BY <2>1, <2>2
  <2>. QED
    BY <1>2, <1>8, <2>2, <2>3, ToIs, NumberIs DEF Told
<1>9. CASE b = "renumber"
  <2>1. d = [To(m, {5}, {4}) EXCEPT !.number = NoAccount]
    BY <1>1, <1>9 DEF Answered
  <2>2. PICK a : a = To(m, {5}, {4})
    OBVIOUS
  <2>3. d = [a EXCEPT !.number = NoAccount]
    BY <2>1, <2>2
  <2>. QED
    BY <1>2, <1>9, <2>2, <2>3, ToIs, NumberIs DEF Told
<1>10. CASE b = "recover"
  <2>1. d = To(m, {}, {6, 7})
    BY <1>1, <1>10 DEF Answered
  <2>. QED
    BY <1>2, <1>10, <2>1, ToIs DEF Told
<1>11. CASE b = "recoverNumber"
  <2>1. d = To(m, {7}, {8})
    BY <1>1, <1>11 DEF Answered
  <2>. QED
    BY <1>2, <1>11, <2>1, ToIs DEF Told
<1>12. CASE b = "recoverKey"
  <2>1. d = To(m, {7, 8}, {})
    BY <1>1, <1>12 DEF Answered
  <2>. QED
    BY <1>2, <1>12, <2>1, ToIs DEF Told
<1>13. CASE \/ b \in {"other", "found"}
            \/ b = "password" /\ t # "secret"
            \/ b = "number" /\ t \notin AccountIds
  <2>1. d = m
    BY <1>1, <1>13 DEF Answered
  <2>. QED
    BY <2>1
<1>. QED
  BY <1>3, <1>4, <1>5, <1>6, <1>7, <1>8, <1>9, <1>10, <1>11, <1>12, <1>13
-----------------------------------------------------------------------------
(* The invariant in two parts: what the dialogues know, and what is in the *)
(* tables, the cache and the game.                                         *)
Talking == talks \in [Clients -> Dialogue] /\ \A c \in Clients : Told(talks[c])

RowsOK == rows \in [RowIds -> {NoRow} \cup Character]

NamesUnique ==
  \A q \in RowIds : \A r \in RowIds \ {q} :
    rows[q] # NoRow => <<rows[q].name, rows[q].deleted>> # <<rows[r].name, rows[r].deleted>>

CacheOK == guidCache \in [Names -> RowIds \cup {0}] /\ CacheIsTrue

Tabled ==
  /\ RowsOK /\ NamesUnique /\ CacheOK /\ BornComplete
  /\ accounts \in [ids : SUBSET AccountIds, unnamed : BOOLEAN]
  /\ playing \subseteq RowIds /\ PlayersAreLive

LEMMA Parts == Dialogues <=> Talking /\ Tabled
BY DEF Dialogues, DialoguesSafe, AccountTypeOK, Talking, Tabled, RowsOK, NamesUnique, CacheOK,
       Dialogue, Character

LEMMA SaysTalking ==
  ASSUME Talking, NEW c \in Clients, NEW m \in Dialogue, Told(m), Says(c, m)
  PROVE  Talking'
<1>1. talks' = [talks EXCEPT ![c] = m]
  BY DEF Says
<1>2. talks' \in [Clients -> Dialogue]
  BY <1>1 DEF Talking
<1>3. \A k \in Clients : Told(talks'[k])
  BY <1>1 DEF Talking
<1>4. \A k \in Clients : Told(talks[k])'
  BY <1>3 DEF Told
<1>. QED
  BY <1>2, <1>4 DEF Talking

LEMMA TablesKept == Tabled /\ UNCHANGED Tables => Tabled'
BY DEF Tabled, Tables, RowsOK, NamesUnique, CacheOK, CacheIsTrue, BornComplete, PlayersAreLive, Live

(* A row that bears a name is a character. *)
LEMMA Rows ==
  ASSUME Tabled, NEW r \in RowIds
  PROVE  /\ rows[r] = NoRow \/ rows[r] \in Character
         /\ rows[r] # NoRow <=> rows[r].name \in Names
         /\ Live(r) => rows[r] \in Character /\ ~rows[r].deleted
<1>1. rows[r] = NoRow \/ rows[r] \in Character
  BY DEF Tabled, RowsOK
<1>2. NoRow.name \notin Names
  BY AccountManagerAssumption DEF NoRow
<1>3. \A x \in Character : x.name \in Names
  BY DEF Character
<1>. QED
  BY <1>1, <1>2, <1>3 DEF Live

LEMMA ZeroIsNoRow == 0 \notin RowIds
BY AccountManagerAssumption DEF RowIds

(* getGuidByName answers with a row that bears the name, or with none if   *)
(* no live character does.                                                 *)
LEMMA GuidOfIs ==
  ASSUME Tabled, NEW n \in Names
  PROVE  /\ GuidOf(n) \in RowIds \cup {0}
         /\ GuidOf(n) # 0 => GuidOf(n) \in RowIds /\ rows[GuidOf(n)].name = n
         /\ GuidOf(n) = 0 => guidCache[n] = 0 /\ LiveNamed(n) = {}
<1>1. CASE guidCache[n] # 0
  BY <1>1 DEF GuidOf, Tabled, CacheOK, CacheIsTrue
<1>2. CASE guidCache[n] = 0 /\ LiveNamed(n) = {}
  BY <1>2 DEF GuidOf
<1>3. CASE guidCache[n] = 0 /\ LiveNamed(n) # {}
  <2>1. PICK r : r = CHOOSE q \in LiveNamed(n) : TRUE
    OBVIOUS
  <2>2. GuidOf(n) = r
    BY <1>3, <2>1 DEF GuidOf
  <2>3. r \in LiveNamed(n)
    BY <1>3, <2>1
  <2>. QED
    BY <2>2, <2>3, ZeroIsNoRow DEF LiveNamed
<1>. QED
  BY <1>1, <1>2, <1>3

(* What is found may be put into the cache. *)
LEMMA CacheFollows ==
  ASSUME Tabled, NEW n \in Names, NEW r \in RowIds \cup {0}, r # 0 => rows[r].name = n,
         guidCache' = [guidCache EXCEPT ![n] = r], UNCHANGED rows
  PROVE  CacheOK'
<1>1. guidCache' \in [Names -> RowIds \cup {0}]
  BY DEF Tabled, CacheOK
<1>2. \A k \in Names : guidCache'[k] # 0 => rows[guidCache'[k]].name = k
  BY DEF Tabled, CacheOK, CacheIsTrue
<1>. QED
  BY <1>1, <1>2 DEF CacheOK, CacheIsTrue

LEMMA CacheWithKept ==
  ASSUME Tabled, NEW n \in Names, guidCache' = CacheWith(n), UNCHANGED <<rows, accounts, playing>>
  PROVE  Tabled'
<1>1. CacheOK'
  BY GuidOfIs, CacheFollows DEF CacheWith
<1>. QED
  BY <1>1 DEF Tabled, RowsOK, NamesUnique, BornComplete, PlayersAreLive, Live

(* A row is written: a new character, or one with another name or mark.    *)
LEMMA RowWritten ==
  ASSUME Tabled, NEW r \in RowIds, NEW x \in Character, rows' = [rows EXCEPT ![r] = x],
         \A q \in RowIds \ {r} : rows[q].name = x.name => rows[q].deleted # x.deleted,
         x.made = IF ChooseVocation THEN {"sex", "vocation"} ELSE {"sex"},
         r \in playing => ~x.deleted,
         CacheOK', UNCHANGED <<accounts, playing>>
  PROVE  Tabled'
<1>1. rows'[r] = x /\ \A q \in RowIds \ {r} : rows'[q] = rows[q]
  BY DEF Tabled, RowsOK
<1>2. x # NoRow
  BY AccountManagerAssumption DEF Character, NoRow
<1>3. RowsOK'
  BY DEF Tabled, RowsOK
<1>4. NamesUnique'
  <2>. SUFFICES ASSUME NEW q \in RowIds, NEW s \in RowIds \ {q}, rows'[q] # NoRow,
                       rows'[q].name = rows'[s].name, rows'[q].deleted = rows'[s].deleted
                PROVE  FALSE
    BY DEF NamesUnique
  <2>1. CASE q = r
    BY <1>1, <2>1
  <2>2. CASE s = r
    BY <1>1, <2>2
  <2>3. CASE q # r /\ s # r
    BY <1>1, <2>3 DEF Tabled, NamesUnique
  <2>. QED
    BY <2>1, <2>2, <2>3
<1>5. BornComplete'
  <2>. SUFFICES ASSUME NEW q \in RowIds, rows'[q] # NoRow
                PROVE  rows'[q].made = IF ChooseVocation THEN {"sex", "vocation"} ELSE {"sex"}
    BY DEF BornComplete
  <2>. QED
    BY <1>1 DEF Tabled, BornComplete
<1>6. PlayersAreLive'
  <2>. SUFFICES ASSUME NEW q \in playing
                PROVE  rows'[q] # NoRow /\ ~rows'[q].deleted
    BY DEF PlayersAreLive, Live
  <2>1. q \in RowIds /\ rows[q] # NoRow /\ ~rows[q].deleted
    BY DEF Tabled, PlayersAreLive, Live
  <2>. QED
    BY <1>1, <1>2, <2>1
<1>. QED
  BY <1>3, <1>4, <1>5, <1>6 DEF Tabled
-----------------------------------------------------------------------------
(* The actions, one by one. *)
LEMMA ChatStep ==
  ASSUME Talking, Tabled, NEW c \in Clients, NEW t, Chat(c, t)
  PROVE  Talking' /\ Tabled'
<1>1. talks[c] \in Dialogue /\ Told(talks[c])
  BY DEF Talking
<1>2. talks[c].mode \in {"account", "new"} /\ Says(c, Answered(talks[c], t)) /\ UNCHANGED Tables
  BY DEF Chat
<1>3. Answered(talks[c], t) \in Dialogue /\ Told(Answered(talks[c], t))
  BY <1>1, <1>2, AccountAnswered, NewAnswered
<1>. QED
  BY <1>1, <1>2, <1>3, SaysTalking, TablesKept

LEMMA MenuTold == ASSUME NEW m \in Dialogue, m.mode = "account"
                  PROVE  AtMenu(m) \in Dialogue /\ Told(AtMenu(m))
<1>1. PICK d : d = AtMenu(m)
  OBVIOUS
<1>2. d \in Dialogue /\ d.mode = "account" /\ d.talk = {1} /\ d.chosen = {}
  BY <1>1, AtMenuIs
<1>. QED
  BY <1>1, <1>2 DEF Told

LEMMA DeleteStep ==
  ASSUME Talking, Tabled, NEW c \in Clients, Delete(c)
  PROVE  Talking' /\ Tabled'
<1>. DEFINE m == talks[c]
<1>1. m \in Dialogue /\ m.mode = "account" /\ Says(c, AtMenu(m))
  BY DEF Talking, Delete
<1>2. Talking'
  BY <1>1, MenuTold, SaysTalking
<1>3. UNCHANGED <<accounts, guidCache, playing>>
  BY DEF Delete
<1>4. CASE UNCHANGED rows
  BY <1>2, <1>3, <1>4, TablesKept DEF Tables
<1>5. ASSUME NEW r \in RowIds, MayDelete(m, r), rows' = [rows EXCEPT ![r].deleted = TRUE]
      PROVE  Tabled'
  <2>1. Live(r) /\ rows[r] \in Character /\ ~rows[r].deleted
    BY <1>5, Rows DEF MayDelete
  <2>2. \A q \in playing : rows[q].name # rows[r].name
    BY <1>5 DEF MayDelete
  <2>3. \A q \in RowIds : rows[q].name = rows[r].name => ~rows[q].deleted
    BY <1>5 DEF MayDelete
  <2>4. PICK x : x = [rows[r] EXCEPT !.deleted = TRUE]
    OBVIOUS
  <2>5. x \in Character /\ x.name = rows[r].name /\ x.deleted = TRUE /\ x.made = rows[r].made
    BY <2>1, <2>4 DEF Character
  <2>6. rows' = [rows EXCEPT ![r] = x]
    BY <1>5, <2>4
  <2>7. \A q \in RowIds : rows'[q].name = rows[q].name
    BY <2>5, <2>6 DEF Tabled, RowsOK
  <2>8. CacheOK'
    BY <1>3, <2>7 DEF Tabled, CacheOK, CacheIsTrue
  <2>9. x.made = IF ChooseVocation THEN {"sex", "vocation"} ELSE {"sex"}
    BY <2>1, <2>5 DEF Tabled, BornComplete, Live
  <2>10. r \notin playing
    BY <2>2
  <2>11. \A q \in RowIds \ {r} : rows[q].name = x.name => rows[q].deleted # x.deleted
    BY <2>3, <2>5
  <2>. QED
    BY <1>3, <2>5, <2>6, <2>8, <2>9, <2>10, <2>11, RowWritten
<1>. QED
  BY <1>2, <1>4, <1>5 DEF Delete

LEMMA AskNameStep ==
  ASSUME Talking, Tabled, NEW c \in Clients, AskName(c)
  PROVE  Talking' /\ Tabled'
<1>. DEFINE m == talks[c]
<1>1. m \in Dialogue /\ m.mode = "account" /\ Told(m)
  BY DEF Talking, AskName
<1>2. PICK d : d = To(m, {1}, {6})
  OBVIOUS
<1>3. d \in Dialogue /\ Told(d)
  BY <1>1, <1>2, ToIs DEF Told
<1>4. (Says(c, d) \/ Says(c, AtMenu(m))) /\ UNCHANGED Tables
  BY <1>2 DEF AskName
<1>. QED
  BY <1>1, <1>3, <1>4, MenuTold, SaysTalking, TablesKept

LEMMA NameNewStep ==
  ASSUME Talking, Tabled, NEW c \in Clients, NEW n \in Names, NameNew(c, n)
  PROVE  Talking' /\ Tabled'
<1>1. talks[c] \in Dialogue /\ talks[c].mode = "account" /\ Told(talks[c])
  BY DEF Talking, NameNew
<1>2. PICK m : m = [talks[c] EXCEPT !.name = n]
  OBVIOUS
<1>3. PICK d : d = To(m, {6}, {7})
  OBVIOUS
<1>4. d \in Dialogue /\ Told(d)
  BY <1>1, <1>2, <1>3, NameIs, ToIs DEF Told
<1>5. Says(c, d) \/ Says(c, talks[c])
  BY <1>2, <1>3 DEF NameNew
<1>6. Tabled'
  BY CacheWithKept DEF NameNew
<1>. QED
  BY <1>1, <1>4, <1>5, <1>6, SaysTalking

LEMMA FirstFreeIs ==
  ASSUME \E r \in RowIds : rows[r] = NoRow
  PROVE  FirstFree \in RowIds /\ rows[FirstFree] = NoRow
<1>. DEFINE T == {r \in RowIds : rows[r] = NoRow}
<1>1. T # {} /\ T \in SUBSET Nat
  BY AccountManagerAssumption DEF RowIds
<1>2. PICK r \in T : \A q \in T : r <= q
  BY <1>1, Least
<1>3. \A q \in 1 .. r - 1 : rows[q] # NoRow
  <2>1. ASSUME NEW q \in 1 .. r - 1, rows[q] = NoRow
        PROVE  FALSE
    <3>1. r \in Nat /\ r <= MaxRows /\ q \in Nat /\ q < r /\ q >= 1 /\ q <= MaxRows
      BY AccountManagerAssumption DEF RowIds
    <3>2. q \in T
      BY <2>1, <3>1, AccountManagerAssumption DEF RowIds
    <3>. QED
      BY <1>2, <3>1, <3>2
  <2>. QED
    BY <2>1
<1>. QED
  BY <1>2, <1>3 DEF FirstFree

(* Whoever gets to the last "yes" has a name and has chosen all there is.  *)
LEMMA CreateIs ==
  ASSUME NEW m \in Dialogue, m.mode = "account", Told(m), AccountBranch(m, "yes") = "create"
  PROVE  /\ m.name \in Names
         /\ m.chosen = IF ChooseVocation THEN {"sex", "vocation"} ELSE {"sex"}
<1>1. 6 \notin m.talk /\ (12 \in m.talk \/ (9 \in m.talk /\ ~ChooseVocation))
  <2>1. PICK b, t : b = AccountBranch(m, t) /\ b = "create"
    OBVIOUS
  <2>. QED
    BY <2>1, AccountBranchIs
<1>2. m.chosen \subseteq {"sex", "vocation"}
  BY DEF Dialogue
<1>3. CASE 12 \in m.talk
  BY <1>1, <1>3 DEF Told
<1>4. CASE 9 \in m.talk /\ ~ChooseVocation
  <2>1. m.name \in Names /\ "sex" \in m.chosen /\ "vocation" \notin m.chosen
    BY <1>1, <1>4 DEF Told
  <2>. QED
    BY <1>2, <1>4, <2>1
<1>. QED
  BY <1>1, <1>3, <1>4

LEMMA CreateStep ==
  ASSUME Talking, Tabled, NEW c \in Clients, Create(c)
  PROVE  Talking' /\ Tabled'
<1>. DEFINE m == talks[c]
<1>1. m \in Dialogue /\ m.mode = "account" /\ Told(m)
  BY DEF Talking, Create
<1>2. /\ m.name \in Names
      /\ m.chosen = IF ChooseVocation THEN {"sex", "vocation"} ELSE {"sex"}
  BY <1>1, CreateIs DEF Create
<1>3. guidCache' = CacheWith(m.name) /\ UNCHANGED <<accounts, playing>>
  BY DEF Create
<1>4. CASE PlayerExists(m.name)
  <2>1. PICK d : d = To(m, {9}, {6})
    OBVIOUS
  <2>2. PICK e : e = [d EXCEPT !.name = NoName]
    OBVIOUS
  <2>3. e \in Dialogue /\ Told(e)
    BY <1>1, <2>1, <2>2, ToIs, NameIs DEF Told
  <2>4. Says(c, e) /\ UNCHANGED rows
    BY <1>4, <2>1, <2>2 DEF Create
  <2>. QED
    BY <1>2, <1>3, <2>3, <2>4, SaysTalking, CacheWithKept
<1>5. CASE ~PlayerExists(m.name)
  <2>1. Says(c, AtMenu(m)) /\ rows' = CreateCharacter(m)
    BY <1>5 DEF Create
  <2>2. Talking'
    BY <1>1, <2>1, MenuTold, SaysTalking
  <2>3. CASE m.account \notin accounts.ids
    <3>1. rows' = rows
      BY <2>1, <2>3 DEF CreateCharacter
    <3>. QED
      BY <1>2, <1>3, <2>2, <3>1, CacheWithKept
  <2>4. CASE m.account \in accounts.ids
    <3>1. PICK x : x = [name |-> m.name, account |-> m.account, deleted |-> FALSE,
                        locked |-> FALSE, made |-> m.chosen]
      OBVIOUS
    <3>2. PICK r : r = FirstFree
      OBVIOUS
    <3>3. r \in RowIds /\ rows[r] = NoRow
      BY <1>5, <2>4, <3>2, FirstFreeIs DEF Create
    <3>4. rows' = [rows EXCEPT ![r] = x]
      BY <1>5, <2>1, <2>4, <3>1, <3>2 DEF CreateCharacter
    <3>5. rows'[r] = x /\ \A q \in RowIds \ {r} : rows'[q] = rows[q]
      BY <3>3, <3>4 DEF Tabled, RowsOK
    <3>6. x \in Character /\ x.name = m.name /\ ~x.deleted /\ x.made = m.chosen
      <4>1. m.account \in AccountIds /\ m.chosen \in SUBSET {"sex", "vocation"}
        BY <1>1, <2>4 DEF Tabled, Dialogue
      <4>. QED
        BY <1>2, <3>1, <4>1 DEF Character
    <3>7. GuidOf(m.name) = 0 /\ guidCache[m.name] = 0 /\ LiveNamed(m.name) = {}
      BY <1>2, <1>5, GuidOfIs DEF PlayerExists
    <3>8. \A q \in RowIds : rows[q].name = m.name => rows[q].deleted
      BY <1>2, <3>7, Rows DEF LiveNamed, Live
    <3>9. guidCache' = guidCache
      BY <1>2, <1>3, <3>7 DEF CacheWith, Tabled, CacheOK
    <3>10. CacheOK'
      <4>1. ASSUME NEW n \in Names, guidCache[n] # 0
            PROVE  rows'[guidCache[n]].name = n
        <5>1. guidCache[n] \in RowIds /\ rows[guidCache[n]].name = n
          BY <4>1 DEF Tabled, CacheOK, CacheIsTrue
        <5>2. guidCache[n] # r
          BY <3>3, <5>1, Rows
        <5>. QED
          BY <3>5, <5>1, <5>2
      <4>. QED
        BY <3>9, <4>1 DEF Tabled, CacheOK, CacheIsTrue
    <3>11. r \notin playing
      BY <3>3 DEF Tabled, PlayersAreLive, Live
    <3>12. \A q \in RowIds \ {r} : rows[q].name = x.name => rows[q].deleted # x.deleted
      BY <3>6, <3>8
    <3>13. x.made = IF ChooseVocation THEN {"sex", "vocation"} ELSE {"sex"}
      BY <1>2, <3>6
    <3>. QED
      BY <1>3, <2>2, <3>3, <3>4, <3>6, <3>10, <3>11, <3>12, <3>13, RowWritten
  <2>. QED
    BY <2>3, <2>4
<1>. QED
  BY <1>4, <1>5

(* The number of a new account confirmed: with it the dialogue goes on as  *)
(* that of an owner, of which at most 6, 7 and 8 are left.                 *)
LEMMA FoundStep ==
  ASSUME Talking, Tabled, NEW c \in Clients, Found(c)
  PROVE  Talking' /\ Tabled'
<1>. DEFINE m == talks[c]
            asked == m.talk \ (2 .. 5)
<1>1. m \in Dialogue /\ m.mode = "new" /\ Told(m)
  BY DEF Talking, Found
<1>2. UNCHANGED <<rows, guidCache, playing>>
  BY DEF Found
<1>3. m.number \in AccountIds
  <2>1. PICK b, t : b = NewBranch(m, t) /\ b = "found"
    BY DEF Found
  <2>2. 5 \in m.talk
    BY <2>1, NewBranchIs
  <2>. QED
    BY <1>1, <2>2 DEF Told
<1>4. ASSUME accounts' \in [ids : SUBSET AccountIds, unnamed : BOOLEAN]
      PROVE  Tabled'
  BY <1>2, <1>4 DEF Tabled, RowsOK, NamesUnique, CacheOK, CacheIsTrue, BornComplete,
                    PlayersAreLive, Live
<1>5. CASE m.number \in accounts.ids
  <2>1. PICK d : d = To(m, {5}, {4})
    OBVIOUS
  <2>2. PICK e : e = [d EXCEPT !.number = NoAccount]
    OBVIOUS
  <2>3. e \in Dialogue /\ Told(e)
    BY <1>1, <2>1, <2>2, ToIs, NumberIs DEF Told
  <2>4. Says(c, e) /\ accounts' = accounts
    BY <1>5, <2>1, <2>2 DEF Found
  <2>. QED
    BY <1>4, <2>3, <2>4, SaysTalking DEF Tabled
<1>6. CASE m.number \notin accounts.ids /\ accounts.unnamed
  <2>1. PICK e : e = [m EXCEPT !.talk = asked, !.mode = m.mode, !.number = NoAccount]
    OBVIOUS
  <2>2. e.mode = "new" /\ e.talk = asked /\ e.chosen = m.chosen
    BY <1>1, <2>1 DEF Dialogue
  <2>3. asked \in SUBSET (1 .. 12)
    BY <1>1 DEF Dialogue
  <2>4. e \in Dialogue
    BY <1>1, <2>1, <2>3 DEF Dialogue
  <2>5. Told(e)
    BY <1>1, <2>2 DEF Told
  <2>6. Says(c, e) /\ accounts' = accounts
    BY <1>6, <2>1 DEF Found
  <2>. QED
    BY <1>4, <2>4, <2>5, <2>6, SaysTalking DEF Tabled
<1>7. CASE m.number \notin accounts.ids /\ ~accounts.unnamed
  <2>1. PICK e : e = [m EXCEPT !.talk = asked \ {1}, !.mode = "account", !.number = NoAccount]
    OBVIOUS
  <2>2. e.mode = "account" /\ e.talk = asked \ {1} /\ e.chosen = m.chosen
    BY <1>1, <2>1 DEF Dialogue
  <2>3. asked \ {1} \in SUBSET (1 .. 12)
    BY <1>1 DEF Dialogue
  <2>4. e \in Dialogue
    BY <1>1, <2>1, <2>3 DEF Dialogue
  <2>5. Told(e)
    <3>1. m.talk \subseteq 1 .. 8 /\ m.chosen = {} /\ (7 \in m.talk \/ 8 \in m.talk => 6 \in m.talk)
      BY <1>1 DEF Told
    <3>2. asked \ {1} \subseteq {6, 7, 8}
      BY <3>1
    <3>. QED
      BY <2>2, <3>1, <3>2 DEF Told
  <2>6. Says(c, e) /\ accounts' = [ids |-> accounts.ids \cup {m.number}, unnamed |-> TRUE]
    BY <1>7, <2>1 DEF Found
  <2>. QED
    BY <1>3, <1>4, <2>4, <2>5, <2>6, SaysTalking DEF Tabled
<1>. QED
  BY <1>5, <1>6, <1>7

LEMMA ChooseNewStep ==
  ASSUME Talking, Tabled, NEW c \in Clients, NEW n \in Names, ChooseNew(c, n)
  PROVE  Talking' /\ Tabled'
<1>1. talks[c] \in Dialogue /\ talks[c].mode = "lock" /\ Told(talks[c])
  BY DEF Talking, ChooseNew
<1>2. PICK m : m = [talks[c] EXCEPT !.name = n]
  OBVIOUS
<1>3. PICK d : d = To(m, {}, {1, 2})
  OBVIOUS
<1>4. d \in Dialogue /\ Told(d)
  BY <1>1, <1>2, <1>3, NameIs, ToIs DEF Told
<1>5. Says(c, d) \/ Says(c, talks[c])
  BY <1>2, <1>3 DEF ChooseNew
<1>6. Tabled'
  BY CacheWithKept DEF ChooseNew
<1>. QED
  BY <1>1, <1>4, <1>5, <1>6, SaysTalking

LEMMA DoubtNewStep ==
  ASSUME Talking, Tabled, NEW c \in Clients, DoubtNew(c)
  PROVE  Talking' /\ Tabled'
<1>1. talks[c] \in Dialogue /\ talks[c].mode = "lock" /\ Told(talks[c])
  BY DEF Talking, DoubtNew
<1>2. PICK d : d = To(talks[c], {1, 2}, {})
  OBVIOUS
<1>3. PICK e : e = [d EXCEPT !.name = NoName]
  OBVIOUS
<1>4. e \in Dialogue /\ Told(e)
  BY <1>1, <1>2, <1>3, NameIs, ToIs DEF Told
<1>. QED
  BY <1>2, <1>3, <1>4, SaysTalking, TablesKept DEF DoubtNew

(* A new name for a locked character, which the cache led to by its old    *)
(* name; nobody alive bears the new one, and so the two differ.            *)
LEMMA RenameStep ==
  ASSUME Talking, Tabled, NEW c \in Clients, Rename(c)
  PROVE  Talking' /\ Tabled'
<1>. DEFINE m == talks[c]
            taken == PlayerExists(m.name)
<1>1. PICK r : r = GuidOf(m.victim)
  OBVIOUS
<1>. DEFINE ok == ~taken /\ r # 0
              /\ \A q \in RowIds : rows[q].name = m.name => rows[q].deleted # rows[r].deleted
<1>2. m \in Dialogue /\ m.mode = "lock" /\ Told(m) /\ 2 \in m.talk
  BY DEF Talking, Rename
<1>3. m.victim \in Names /\ m.name \in Names
  BY <1>2 DEF Told
<1>4. Talking'
  <2>1. PICK out : out = IF ok THEN {2} ELSE {1, 2}
    OBVIOUS
  <2>2. PICK d : d = To(m, out, {})
    OBVIOUS
  <2>3. PICK e : e = [d EXCEPT !.name = NoName]
    OBVIOUS
  <2>4. e \in Dialogue /\ Told(e)
    <3>1. d \in Dialogue /\ d.mode = "lock" /\ d.victim = m.victim /\ 2 \notin d.talk
      BY <1>2, <2>1, <2>2, ToIs
    <3>2. /\ e \in Dialogue /\ e.mode = d.mode /\ e.talk = d.talk /\ e.victim = d.victim
      BY <2>3, <3>1, NameIs
    <3>3. e.mode = "lock" /\ e.victim \in Names /\ 2 \notin e.talk
      BY <1>3, <3>1, <3>2
    <3>. QED
      BY <3>2, <3>3 DEF Told
  <2>5. Says(c, e)
    BY <1>1, <2>1, <2>2, <2>3 DEF Rename
  <2>. QED
    BY <2>4, <2>5, SaysTalking
<1>5. UNCHANGED <<accounts, playing>>
  BY DEF Rename
<1>6. CASE taken
  <2>1. rows' = rows /\ guidCache' = CacheWith(m.name)
    BY <1>6 DEF Rename
  <2>. QED
    BY <1>3, <1>4, <1>5, <2>1, CacheWithKept
<1>7. CASE ~taken /\ ~ok
  <2>1. rows' = rows /\ guidCache' = CacheWith(m.victim)
    BY <1>1, <1>7 DEF Rename
  <2>. QED
    BY <1>3, <1>4, <1>5, <2>1, CacheWithKept
<1>8. CASE ok
  <2>1. r \in RowIds /\ rows[r].name = m.victim
    BY <1>1, <1>3, <1>8, GuidOfIs
  <2>2. rows[r] \in Character
    BY <1>3, <2>1, Rows
  <2>3. m.name # m.victim
    BY <1>1, <1>8 DEF PlayerExists
  <2>4. PICK x : x = [rows[r] EXCEPT !.name = m.name, !.locked = FALSE]
    OBVIOUS
  <2>5. /\ x \in Character /\ x.name = m.name /\ x.made = rows[r].made
        /\ x.deleted = rows[r].deleted
    BY <1>3, <2>2, <2>4 DEF Character
  <2>6. rows' = [rows EXCEPT ![r].name = m.name, ![r].locked = FALSE]
        /\ guidCache' = CacheRenamed(m.victim, m.name, r)
    BY <1>1, <1>8 DEF Rename
  <2>7. rows' = [rows EXCEPT ![r] = x]
    BY <2>1, <2>4, <2>6 DEF Tabled, RowsOK
  <2>8. rows'[r] = x /\ \A q \in RowIds \ {r} : rows'[q] = rows[q]
    BY <2>1, <2>7 DEF Tabled, RowsOK
  <2>9. CacheOK'
    <3>1. guidCache' \in [Names -> RowIds \cup {0}]
      BY <2>1, <2>6 DEF CacheRenamed, Tabled, CacheOK
    <3>2. ASSUME NEW n \in Names, guidCache'[n] # 0
          PROVE  rows'[guidCache'[n]].name = n
      <4>1. CASE n = m.victim
        BY <1>3, <2>6, <3>2, <4>1 DEF CacheRenamed
      <4>2. CASE n = m.name
        <5>1. guidCache'[n] = r
          BY <1>3, <2>3, <2>6, <4>2 DEF CacheRenamed
        <5>. QED
          BY <2>5, <2>8, <4>2, <5>1
      <4>3. CASE n # m.victim /\ n # m.name
        <5>1. guidCache'[n] = guidCache[n]
          BY <2>6, <4>3 DEF CacheRenamed
        <5>2. guidCache[n] \in RowIds /\ rows[guidCache[n]].name = n
          BY <3>2, <5>1 DEF Tabled, CacheOK, CacheIsTrue
        <5>. QED
          BY <2>1, <2>8, <4>3, <5>1, <5>2
      <4>. QED
        BY <4>1, <4>2, <4>3
    <3>. QED
      BY <3>1, <3>2 DEF CacheOK, CacheIsTrue
  <2>10. \A q \in RowIds \ {r} : rows[q].name = x.name => rows[q].deleted # x.deleted
    BY <1>8, <2>5
  <2>11. x.made = IF ChooseVocation THEN {"sex", "vocation"} ELSE {"sex"}
    BY <1>3, <2>1, <2>5, Rows DEF Tabled, BornComplete
  <2>12. r \in playing => ~x.deleted
    BY <2>5 DEF Tabled, PlayersAreLive, Live
  <2>. QED
    BY <1>4, <1>5, <2>1, <2>5, <2>7, <2>9, <2>10, <2>11, <2>12, RowWritten
<1>. QED
  BY <1>6, <1>7, <1>8

LEMMA SilentIs ==
  ASSUME NEW d, d = Silent
  PROVE  d \in Dialogue /\ d.mode = "off" /\ d.talk = {} /\ d.chosen = {} /\ Told(d)
<1>1. {} \in SUBSET (1 .. 12) /\ {} \in SUBSET {"sex", "vocation"}
  OBVIOUS
<1>2. d \in Dialogue /\ d.mode = "off" /\ d.talk = {} /\ d.chosen = {}
  BY <1>1 DEF Silent, Dialogue
<1>. QED
  BY <1>2 DEF Told

LEMMA ComesStep ==
  ASSUME Talking, Tabled, NEW c \in Clients, NEW a \in AccountIds \cup {NoAccount},
         (a \in AccountIds /\ Comes(c, a)) \/ NewComes(c, a)
  PROVE  Talking' /\ Tabled'
<1>1. PICK mode \in {"account", "new"} : Says(c, [Silent EXCEPT !.mode = mode, !.account = a])
  BY DEF Comes, NewComes
<1>2. PICK s : s = Silent
  OBVIOUS
<1>3. PICK d : d = [s EXCEPT !.mode = mode, !.account = a]
  OBVIOUS
<1>4. d.mode = mode /\ d.talk = {} /\ d.chosen = {}
  BY <1>2, <1>3, SilentIs DEF Dialogue
<1>5. d \in Dialogue
  <2>1. s \in Dialogue
    BY <1>2, SilentIs
  <2>2. PICK e : e = [s EXCEPT !.mode = mode]
    OBVIOUS
  <2>3. e \in Dialogue
    BY <2>1, <2>2 DEF Dialogue
  <2>4. d = [e EXCEPT !.account = a]
    BY <1>3, <2>2
  <2>. QED
    BY <2>3, <2>4 DEF Dialogue
<1>6. Told(d)
  BY <1>1, <1>4 DEF Told
<1>7. Says(c, d) /\ UNCHANGED Tables
  BY <1>1, <1>2, <1>3 DEF Comes, NewComes
<1>. QED
  BY <1>5, <1>6, <1>7, SaysTalking, TablesKept

LEMMA LockedComesStep ==
  ASSUME Talking, Tabled, NEW c \in Clients, NEW r \in RowIds, LockedComes(c, r)
  PROVE  Talking' /\ Tabled'
<1>1. rows[r] \in Character
  BY Rows DEF LockedComes
<1>2. rows[r].name \in Names /\ rows[r].account \in AccountIds
  BY <1>1 DEF Character
<1>3. PICK s, d : s = Silent /\ d = [s EXCEPT !.mode = "lock", !.account = rows[r].account,
                                             !.victim = rows[r].name]
  OBVIOUS
<1>4. d.mode = "lock" /\ d.talk = {} /\ d.victim = rows[r].name
  BY <1>3, SilentIs DEF Dialogue
<1>5. d \in Dialogue
  <2>1. s \in Dialogue
    BY <1>3, SilentIs
  <2>2. PICK e : e = [s EXCEPT !.mode = "lock"]
    OBVIOUS
  <2>3. PICK f : f = [e EXCEPT !.account = rows[r].account]
    OBVIOUS
  <2>4. e \in Dialogue
    BY <2>1, <2>2 DEF Dialogue
  <2>5. f \in Dialogue
    BY <1>2, <2>3, <2>4 DEF Dialogue
  <2>6. d = [f EXCEPT !.victim = rows[r].name]
    BY <1>3, <2>2, <2>3
  <2>. QED
    BY <1>2, <2>5, <2>6 DEF Dialogue
<1>6. Told(d)
  BY <1>2, <1>4 DEF Told
<1>7. /\ Says(c, d) /\ guidCache' = [guidCache EXCEPT ![rows[r].name] = r]
      /\ UNCHANGED <<rows, accounts, playing>>
  BY <1>3 DEF LockedComes
<1>8. CacheOK'
  BY <1>2, <1>7, CacheFollows
<1>9. Tabled'
  BY <1>7, <1>8 DEF Tabled, RowsOK, NamesUnique, BornComplete, PlayersAreLive, Live
<1>. QED
  BY <1>6, <1>7, <1>9, <1>5, SaysTalking

LEMMA GoesStep ==
  ASSUME Talking, Tabled, NEW c \in Clients, Goes(c)
  PROVE  Talking' /\ Tabled'
BY SilentIs, SaysTalking, TablesKept DEF Goes

LEMMA EntersStep ==
  ASSUME Talking, Tabled, NEW r \in RowIds, Enters(r)
  PROVE  Talking' /\ Tabled'
<1>1. rows[r] \in Character /\ rows[r].name \in Names
  BY Rows DEF Enters, Character
<1>2. CacheOK'
  BY <1>1, CacheFollows DEF Enters
<1>3. PlayersAreLive'
  BY DEF Tabled, Enters, PlayersAreLive, Live
<1>4. Talking'
  BY DEF Enters, Talking, Told
<1>. QED
  BY <1>2, <1>3, <1>4 DEF Enters, Tabled, RowsOK, NamesUnique, BornComplete

LEMMA ExitsStep ==
  ASSUME Talking, Tabled, NEW r \in RowIds, Exits(r)
  PROVE  Talking' /\ Tabled'
<1>1. playing' \subseteq playing /\ UNCHANGED <<talks, rows, accounts, guidCache>>
  BY DEF Exits
<1>. QED
  BY <1>1 DEF Talking, Told, Tabled, RowsOK, NamesUnique, CacheOK, CacheIsTrue, BornComplete,
              PlayersAreLive, Live

LEMMA LockStep ==
  ASSUME Talking, Tabled, NEW r \in RowIds, Lock(r)
  PROVE  Talking' /\ Tabled'
<1>1. rows[r] \in Character /\ rows[r] # NoRow
  BY Rows DEF Lock, Live
<1>2. PICK x : x = [rows[r] EXCEPT !.locked = TRUE]
  OBVIOUS
<1>3. /\ x \in Character /\ x.name = rows[r].name /\ x.made = rows[r].made
      /\ x.deleted = rows[r].deleted
  BY <1>1, <1>2 DEF Character
<1>4. rows' = [rows EXCEPT ![r] = x]
  BY <1>2 DEF Lock
<1>5. \A q \in RowIds \ {r} : rows[q].name = x.name => rows[q].deleted # x.deleted
  BY <1>1, <1>3 DEF Tabled, NamesUnique
<1>6. x.made = IF ChooseVocation THEN {"sex", "vocation"} ELSE {"sex"}
  BY <1>1, <1>3 DEF Tabled, BornComplete
<1>7. CacheOK'
  <2>1. \A q \in RowIds : rows'[q].name = rows[q].name
    BY <1>3, <1>4 DEF Tabled, RowsOK
  <2>2. guidCache' = guidCache
    BY DEF Lock
  <2>. QED
    BY <2>1, <2>2 DEF Tabled, CacheOK, CacheIsTrue
<1>8. r \notin playing /\ UNCHANGED <<talks, accounts, playing>>
  BY DEF Lock
<1>9. Tabled'
  BY <1>3, <1>4, <1>5, <1>6, <1>7, <1>8, RowWritten
<1>. QED
  BY <1>8, <1>9 DEF Talking, Told

LEMMA RestartStep ==
  ASSUME Talking, Tabled, Restart
  PROVE  Talking' /\ Tabled'
<1>2. PICK d : d = Silent
  OBVIOUS
<1>3. d \in Dialogue /\ Told(d)
  BY <1>2, SilentIs
<1>4. talks' = [c \in Clients |-> d]
  BY <1>2 DEF Restart
<1>5. Talking'
  BY <1>3, <1>4 DEF Talking, Told
<1>6. CacheOK'
  BY DEF Restart, CacheOK, CacheIsTrue
<1>. QED
  BY <1>5, <1>6 DEF Restart, Tabled, RowsOK, NamesUnique, BornComplete, PlayersAreLive, Live
-----------------------------------------------------------------------------
LEMMA DialoguesInit == ManagerInit => Dialogues
<1>. SUFFICES ASSUME ManagerInit PROVE Talking /\ Tabled
  BY Parts
<1>2. PICK d : d = Silent
  OBVIOUS
<1>3. d \in Dialogue /\ Told(d)
  BY <1>2, SilentIs
<1>4. talks = [c \in Clients |-> d]
  BY <1>2 DEF ManagerInit
<1>5. Talking
  BY <1>3, <1>4 DEF Talking, Told
<1>6. accounts \in [ids : SUBSET AccountIds, unnamed : BOOLEAN]
  BY DEF ManagerInit
<1>7. RowsOK /\ NamesUnique /\ CacheOK /\ BornComplete
  BY DEF ManagerInit, RowsOK, NamesUnique, CacheOK, CacheIsTrue, BornComplete
<1>8. playing \subseteq RowIds /\ PlayersAreLive
  BY DEF ManagerInit, PlayersAreLive
<1>. QED
  BY <1>5, <1>6, <1>7, <1>8 DEF Tabled

LEMMA DialoguesNext == Dialogues /\ [ManagerNext]_managerVars => Dialogues'
<1>. SUFFICES ASSUME Talking, Tabled, [ManagerNext]_managerVars
              PROVE  Talking' /\ Tabled'
  BY Parts DEF Dialogues, DialoguesSafe, AccountTypeOK, Talking, Tabled, RowsOK, NamesUnique,
               CacheOK, Dialogue, Character
<1>1. CASE UNCHANGED managerVars
  BY <1>1, TablesKept DEF managerVars, Tables, Talking, Told
<1>2. ASSUME NEW c \in Clients,
             \/ \E t \in Texts \cup Names \cup AccountIds : Chat(c, t)
             \/ Delete(c) \/ AskName(c) \/ Create(c) \/ Found(c) \/ DoubtNew(c) \/ Rename(c)
             \/ Goes(c)
      PROVE  Talking' /\ Tabled'
  BY <1>2, ChatStep, DeleteStep, AskNameStep, CreateStep, FoundStep, DoubtNewStep, RenameStep,
     GoesStep
<1>3. ASSUME NEW c \in Clients,
             \/ \E n \in Names : NameNew(c, n) \/ ChooseNew(c, n)
             \/ \E a \in AccountIds : Comes(c, a)
             \/ \E a \in AccountIds \cup {NoAccount} : NewComes(c, a)
             \/ \E r \in RowIds : LockedComes(c, r)
      PROVE  Talking' /\ Tabled'
  BY <1>3, NameNewStep, ChooseNewStep, ComesStep, LockedComesStep
<1>4. ASSUME NEW r \in RowIds, Enters(r) \/ Exits(r) \/ Lock(r)
      PROVE  Talking' /\ Tabled'
  BY <1>4, EntersStep, ExitsStep, LockStep
<1>. QED
  BY <1>1, <1>2, <1>3, <1>4, RestartStep DEF ManagerNext

(* Whatever clients say to the account manager, at once and out of turn,   *)
(* across renames, deletions and restarts: the cache leads every name to   *)
(* the row that bears it, who is in game is not deleted, names are unique, *)
(* and no character is created before all was chosen.                      *)
THEOREM DialoguesAlwaysSafe == ManagerSpec => []DialoguesSafe
<1>1. Dialogues => DialoguesSafe
  BY DEF Dialogues
<1>. QED
  BY <1>1, DialoguesInit, DialoguesNext, PTL DEF ManagerSpec
=============================================================================
