------------------------------ MODULE GameProofs ------------------------------
(***************************************************************************)
(* Machine-checked proofs about modules GameState, for any number of       *)
(* orders from administrators, scripts and signals, and Walking, for paths *)
(* of any length, any number of events and any queue.                      *)
(***************************************************************************)
EXTENDS GameState, Walking, FiniteSetTheorems, TLAPS

(***************************************************************************)
(* GameState: what the threads still do to the state of the game, and when *)
(* the process exits.                                                      *)
(***************************************************************************)
(* What a thread has still to do, as a sequence of steps.                  *)

Kinds == States \cup Stages \cup {"save", "clean", "term", "exit"}

StepSet ==
  [op : {"check", "assign"}, arg : States] \cup [op : {"arm"}, arg : Stages]
  \cup [op : {"post"}, arg : Kinds]
  \cup [op : {"enter", "leave", "write", "stop"}, arg : {"maintain", "normal", "all"}]

Exit == Step("post", "exit")

Has(c, op) == \E n \in DOMAIN c : c[n].op = op
Exits(c) == \E n \in DOMAIN c : c[n] = Exit

(* Who takes the game to maintain takes it back later. *)
Leaves(c) ==
  \A n \in DOMAIN c : c[n].op = "enter" => \E m \in DOMAIN c : n < m /\ c[m].op = "leave"

Steady(c) ==
  /\ c \in Seq(StepSet) /\ Leaves(c)
  /\ \A n \in DOMAIN c : c[n].op \notin {"check", "assign"}

(* Only its first step decides what state is to come. *)
Sound(c) == c \in Seq(StepSet) /\ Leaves(c) /\ (c # <<>> => Steady(Tail(c)))

(* The handler of signals opens the game or cleans the map. *)
Calm(c) ==
  \A n \in DOMAIN c : /\ c[n].op # "post"
                      /\ c[n].op \in {"check", "assign"} => c[n].arg \in {"normal", "maintain"}

LEMMA TailIs ==
  ASSUME NEW c, c \in Seq(StepSet), c # <<>>
  PROVE  /\ Head(c) = c[1] /\ c[1] \in StepSet /\ 1 \in DOMAIN c /\ Tail(c) \in Seq(StepSet)
         /\ \A n \in DOMAIN Tail(c) : n \in Nat \ {0} /\ n + 1 \in DOMAIN c /\ Tail(c)[n] = c[n + 1]
         /\ \A n \in DOMAIN c : n \in Nat \ {0}
         /\ \A n \in DOMAIN c \ {1} : n > 1 /\ n - 1 \in DOMAIN Tail(c) /\ Tail(c)[n - 1] = c[n]
OBVIOUS

LEMMA ConsIs ==
  ASSUME NEW s \in StepSet, NEW c \in Seq(StepSet)
  PROVE  /\ <<s>> \o c \in Seq(StepSet) /\ <<s>> \o c # <<>>
         /\ Head(<<s>> \o c) = s /\ Tail(<<s>> \o c) = c
OBVIOUS

LEMMA ConcatIs ==
  ASSUME NEW c \in Seq(StepSet), NEW d \in Seq(StepSet)
  PROVE  /\ c \o d \in Seq(StepSet) /\ Len(c) \in Nat
         /\ \A n \in DOMAIN c : n \in Nat /\ n <= Len(c) /\ n \in DOMAIN (c \o d) /\ (c \o d)[n] = c[n]
         /\ \A n \in DOMAIN d : n \in Nat \ {0} /\ Len(c) + n \in DOMAIN (c \o d)
                                /\ (c \o d)[Len(c) + n] = d[n]
         /\ \A n \in DOMAIN (c \o d) :
              \/ n \in DOMAIN c /\ (c \o d)[n] = c[n]
              \/ \E m \in DOMAIN d : n = Len(c) + m /\ (c \o d)[n] = d[m]
<1>1. /\ c \o d \in Seq(StepSet) /\ Len(c) \in Nat
      /\ \A n \in DOMAIN c : n \in Nat /\ n <= Len(c) /\ n \in DOMAIN (c \o d) /\ (c \o d)[n] = c[n]
  OBVIOUS
<1>2. \A n \in DOMAIN d : n \in Nat \ {0} /\ Len(c) + n \in DOMAIN (c \o d)
                          /\ (c \o d)[Len(c) + n] = d[n]
  OBVIOUS
<1>3. ASSUME NEW n \in DOMAIN (c \o d), n \notin DOMAIN c
      PROVE  n - Len(c) \in DOMAIN d /\ n = Len(c) + (n - Len(c)) /\ (c \o d)[n] = d[n - Len(c)]
  BY <1>3
<1>. QED
  BY <1>1, <1>2, <1>3

(* What is left after a step. *)
LEMMA TailKeeps ==
  ASSUME NEW c, Sound(c), c # <<>>
  PROVE  /\ Head(c) \in StepSet /\ Steady(Tail(c)) /\ Sound(Tail(c)) /\ ~Setting(Tail(c))
         /\ \A op : (Has(Tail(c), op) => Has(c, op)) /\ (Has(c, op) => Head(c).op = op \/ Has(Tail(c), op))
         /\ Head(c).op = "enter" => Has(Tail(c), "leave")
         /\ Exits(Tail(c)) => Exits(c)
         /\ Head(c) = Exit => Exits(c)
         /\ Calm(c) => /\ Calm(Tail(c)) /\ Head(c).op # "post"
                       /\ Head(c).op \in {"check", "assign"} => Head(c).arg \in {"normal", "maintain"}
<1>1. c \in Seq(StepSet) /\ Leaves(c) /\ Steady(Tail(c))
  BY DEF Sound
<1>2. /\ Head(c) = c[1] /\ c[1] \in StepSet /\ 1 \in DOMAIN c
      /\ \A n \in DOMAIN Tail(c) : n \in Nat \ {0} /\ n + 1 \in DOMAIN c /\ Tail(c)[n] = c[n + 1]
      /\ \A n \in DOMAIN c : n \in Nat \ {0}
      /\ \A n \in DOMAIN c \ {1} : n > 1 /\ n - 1 \in DOMAIN Tail(c) /\ Tail(c)[n - 1] = c[n]
  BY <1>1, TailIs
<1>3. \A op : (Has(Tail(c), op) => Has(c, op)) /\ (Has(c, op) => Head(c).op = op \/ Has(Tail(c), op))
  BY <1>2 DEF Has
<1>4. Head(c).op = "enter" => Has(Tail(c), "leave")
  <2>1. ASSUME c[1].op = "enter" PROVE Has(Tail(c), "leave")
    <3>1. PICK m \in DOMAIN c : 1 < m /\ c[m].op = "leave"
      BY <1>1, <1>2, <2>1 DEF Leaves
    <3>2. m # 1
      BY <1>2, <3>1
    <3>. QED
      BY <1>2, <3>1, <3>2 DEF Has
  <2>. QED
    BY <1>2, <2>1
<1>5. /\ Exits(Tail(c)) => Exits(c)
      /\ Head(c) = Exit => Exits(c)
      /\ Calm(c) => /\ Calm(Tail(c)) /\ Head(c).op # "post"
                    /\ Head(c).op \in {"check", "assign"} => Head(c).arg \in {"normal", "maintain"}
  BY <1>2 DEF Exits, Calm
<1>6. ~Setting(Tail(c)) /\ Sound(Tail(c))
  <2>1. CASE Tail(c) = <<>>
    BY <1>1, <2>1 DEF Setting, Sound, Steady
  <2>2. CASE Tail(c) # <<>>
    <3>1. PICK d : d = Tail(c)
      OBVIOUS
    <3>2. /\ d \in Seq(StepSet) /\ d # <<>> /\ Leaves(d)
          /\ \A n \in DOMAIN d : d[n].op \notin {"check", "assign"}
      BY <1>1, <2>2, <3>1 DEF Steady
    <3>3. /\ Head(d) = d[1] /\ 1 \in DOMAIN d /\ Tail(d) \in Seq(StepSet)
          /\ \A n \in DOMAIN Tail(d) : n \in Nat \ {0} /\ n + 1 \in DOMAIN d /\ Tail(d)[n] = d[n + 1]
          /\ \A n \in DOMAIN d : n \in Nat \ {0}
          /\ \A n \in DOMAIN d \ {1} : n > 1 /\ n - 1 \in DOMAIN Tail(d) /\ Tail(d)[n - 1] = d[n]
      BY <3>2, TailIs
    <3>4. ASSUME NEW n \in DOMAIN Tail(d), Tail(d)[n].op = "enter"
          PROVE  \E m \in DOMAIN Tail(d) : n < m /\ Tail(d)[m].op = "leave"
      <4>1. n \in Nat \ {0} /\ n + 1 \in DOMAIN d /\ d[n + 1].op = "enter"
        BY <3>3, <3>4
      <4>2. PICK m \in DOMAIN d : n + 1 < m /\ d[m].op = "leave"
        BY <3>2, <4>1 DEF Leaves
      <4>3. m \in Nat /\ m # 1 /\ n < m - 1
        BY <3>3, <4>1, <4>2
      <4>. QED
        BY <3>3, <4>2, <4>3
    <3>5. Steady(Tail(d))
      BY <3>2, <3>3, <3>4 DEF Steady, Leaves
    <3>. QED
      BY <3>1, <3>2, <3>3, <3>5 DEF Setting, Sound
  <2>. QED
    BY <2>1, <2>2
<1>. QED
  BY <1>1, <1>2, <1>3, <1>4, <1>5, <1>6

LEMMA SteadyIs ==
  ASSUME NEW c, Steady(c)
  PROVE  /\ c \in Seq(StepSet) /\ Sound(c) /\ ~Setting(c)
<1>1. c \in Seq(StepSet) /\ Leaves(c) /\ \A n \in DOMAIN c : c[n].op \notin {"check", "assign"}
  BY DEF Steady
<1>2. CASE c = <<>>
  BY <1>1, <1>2 DEF Sound, Setting
<1>3. CASE c # <<>>
  <2>1. /\ Head(c) = c[1] /\ 1 \in DOMAIN c /\ Tail(c) \in Seq(StepSet)
        /\ \A n \in DOMAIN Tail(c) : n \in Nat \ {0} /\ n + 1 \in DOMAIN c /\ Tail(c)[n] = c[n + 1]
        /\ \A n \in DOMAIN c : n \in Nat \ {0}
        /\ \A n \in DOMAIN c \ {1} : n > 1 /\ n - 1 \in DOMAIN Tail(c) /\ Tail(c)[n - 1] = c[n]
    BY <1>1, <1>3, TailIs
  <2>2. ASSUME NEW n \in DOMAIN Tail(c), Tail(c)[n].op = "enter"
        PROVE  \E m \in DOMAIN Tail(c) : n < m /\ Tail(c)[m].op = "leave"
    <3>1. n \in Nat \ {0} /\ n + 1 \in DOMAIN c /\ c[n + 1].op = "enter"
      BY <2>1, <2>2
    <3>2. PICK m \in DOMAIN c : n + 1 < m /\ c[m].op = "leave"
      BY <1>1, <3>1 DEF Leaves
    <3>3. m \in Nat /\ m # 1 /\ n < m - 1
      BY <2>1, <3>1, <3>2
    <3>. QED
      BY <2>1, <3>2, <3>3
  <2>3. Steady(Tail(c))
    BY <1>1, <2>1, <2>2 DEF Steady, Leaves
  <2>. QED
    BY <1>1, <2>1, <2>3 DEF Sound, Setting
<1>. QED
  BY <1>2, <1>3

(* A step put before a steady rest. *)
LEMMA ConsKeeps ==
  ASSUME NEW s \in StepSet, s.op # "enter", NEW r, Steady(r)
  PROVE  /\ Sound(<<s>> \o r) /\ <<s>> \o r # <<>> /\ Head(<<s>> \o r) = s /\ Tail(<<s>> \o r) = r
         /\ s.op \notin {"check", "assign"} => Steady(<<s>> \o r)
         /\ \A op : Has(r, op) \/ s.op = op => Has(<<s>> \o r, op)
         /\ Exits(<<s>> \o r) => s = Exit \/ Exits(r)
         /\ Calm(r) /\ s.op # "post" /\ (s.op \in {"check", "assign"} => s.arg \in {"normal", "maintain"})
              => Calm(<<s>> \o r)
<1>1. PICK d : d = <<s>> \o r
  OBVIOUS
<1>2. r \in Seq(StepSet) /\ Leaves(r) /\ \A n \in DOMAIN r : r[n].op \notin {"check", "assign"}
  BY DEF Steady
<1>3. d \in Seq(StepSet) /\ d # <<>> /\ Head(d) = s /\ Tail(d) = r
  BY <1>1, <1>2, ConsIs
<1>4. /\ d[1] = s /\ 1 \in DOMAIN d
      /\ \A n \in DOMAIN r : n \in Nat \ {0} /\ n + 1 \in DOMAIN d /\ r[n] = d[n + 1]
      /\ \A n \in DOMAIN d : n \in Nat \ {0}
      /\ \A n \in DOMAIN d \ {1} : n > 1 /\ n - 1 \in DOMAIN r /\ r[n - 1] = d[n]
  BY <1>3, TailIs
<1>5. ASSUME NEW n \in DOMAIN d, d[n].op = "enter"
      PROVE  \E m \in DOMAIN d : n < m /\ d[m].op = "leave"
  <2>1. n # 1
    BY <1>4, <1>5
  <2>2. n - 1 \in DOMAIN r /\ r[n - 1].op = "enter" /\ n \in Nat
    BY <1>4, <1>5, <2>1
  <2>3. PICK m \in DOMAIN r : n - 1 < m /\ r[m].op = "leave"
    BY <1>2, <2>2 DEF Leaves
  <2>4. m \in Nat /\ m + 1 \in DOMAIN d /\ d[m + 1].op = "leave"
    BY <1>4, <2>3
  <2>. QED
    BY <2>2, <2>3, <2>4
<1>6. Sound(d) /\ (s.op \notin {"check", "assign"} => Steady(d))
  <2>1. s.op \notin {"check", "assign"} => \A n \in DOMAIN d : d[n].op \notin {"check", "assign"}
    BY <1>2, <1>4
  <2>. QED
    BY <1>3, <1>5, <2>1 DEF Sound, Steady, Leaves
<1>7. /\ \A op : Has(r, op) \/ s.op = op => Has(d, op)
      /\ Exits(d) => s = Exit \/ Exits(r)
      /\ Calm(r) /\ s.op # "post" /\ (s.op \in {"check", "assign"} => s.arg \in {"normal", "maintain"})
           => Calm(d)
  BY <1>4 DEF Has, Exits, Calm
<1>. QED
  BY <1>1, <1>3, <1>6, <1>7

LEMMA ConcatKeeps ==
  ASSUME NEW c, NEW d, Steady(c), Steady(d)
  PROVE  /\ Steady(c \o d)
         /\ \A op : Has(c, op) \/ Has(d, op) => Has(c \o d, op)
         /\ Exits(c \o d) => Exits(c) \/ Exits(d)
         /\ Calm(c) /\ Calm(d) => Calm(c \o d)
<1>1. PICK e, l : e = c \o d /\ l = Len(c)
  OBVIOUS
<1>2. /\ c \in Seq(StepSet) /\ Leaves(c) /\ \A n \in DOMAIN c : c[n].op \notin {"check", "assign"}
      /\ d \in Seq(StepSet) /\ Leaves(d) /\ \A n \in DOMAIN d : d[n].op \notin {"check", "assign"}
  BY DEF Steady
<1>3. /\ e \in Seq(StepSet) /\ l \in Nat
      /\ \A n \in DOMAIN c : n \in Nat /\ n <= l /\ n \in DOMAIN e /\ e[n] = c[n]
      /\ \A n \in DOMAIN d : n \in Nat \ {0} /\ l + n \in DOMAIN e /\ e[l + n] = d[n]
      /\ \A n \in DOMAIN e : \/ n \in DOMAIN c /\ e[n] = c[n]
                             \/ \E m \in DOMAIN d : n = l + m /\ e[n] = d[m]
  <2>1. c \in Seq(StepSet) /\ d \in Seq(StepSet)
    BY <1>2
  <2>. QED
    BY ONLY <1>1, <2>1, ConcatIs
<1>4. ASSUME NEW n \in DOMAIN e, e[n].op = "enter"
      PROVE  \E m \in DOMAIN e : n < m /\ e[m].op = "leave"
  <2>1. CASE n \in DOMAIN c /\ e[n] = c[n]
    <3>1. PICK m \in DOMAIN c : n < m /\ c[m].op = "leave"
      BY <1>2, <1>4, <2>1 DEF Leaves
    <3>. QED
      BY <1>3, <3>1
  <2>2. ASSUME NEW k \in DOMAIN d, n = l + k, e[n] = d[k] PROVE \E m \in DOMAIN e : n < m /\ e[m].op = "leave"
    <3>1. PICK m \in DOMAIN d : k < m /\ d[m].op = "leave"
      BY <1>2, <1>4, <2>2 DEF Leaves
    <3>2. m \in Nat /\ k \in Nat /\ l + m \in DOMAIN e /\ e[l + m].op = "leave"
      BY <1>3, <3>1
    <3>3. n < l + m
      BY <1>3, <2>2, <3>1, <3>2
    <3>. QED
      BY <3>2, <3>3
  <2>. QED
    BY <1>3, <2>1, <2>2
<1>5. Steady(e)
  BY <1>2, <1>3, <1>4 DEF Steady, Leaves
<1>6. \A n \in DOMAIN e : (\E m \in DOMAIN c : e[n] = c[m]) \/ (\E m \in DOMAIN d : e[n] = d[m])
  BY <1>3
<1>7. /\ \A op : Has(c, op) \/ Has(d, op) => Has(e, op)
      /\ Exits(e) => Exits(c) \/ Exits(d)
      /\ Calm(c) /\ Calm(d) => Calm(e)
  BY <1>3, <1>6 DEF Has, Exits, Calm
<1>. QED
  BY <1>1, <1>5, <1>7
-----------------------------------------------------------------------------
(* The programs.                                                           *)

LEMMA NoSteps ==
  /\ Steady(<<>>) /\ Calm(<<>>) /\ ~Exits(<<>>) /\ \A op : ~Has(<<>>, op)
  /\ \A s : SetState(s) \o <<>> = SetState(s)
<1>1. <<>> \in Seq(StepSet) /\ DOMAIN <<>> = {}
  OBVIOUS
<1>2. \A s : SetState(s) \o <<>> = SetState(s)
  BY DEF SetState
<1>. QED
  BY <1>1, <1>2 DEF Steady, Leaves, Calm, Exits, Has

LEMMA StepIs ==
  /\ \A s \in States : Step("check", s) \in StepSet /\ Step("assign", s) \in StepSet
  /\ \A op \in {"leave", "write", "stop"} : \A a \in {"maintain", "normal", "all"} : Step(op, a) \in StepSet
  /\ \A m \in Stages : Step("arm", m) \in StepSet
  /\ \A k \in Kinds : Step("post", k) \in StepSet
  /\ \A op, a : Step(op, a).op = op /\ Step(op, a).arg = a
  /\ \A op, a : op # "post" \/ a # "exit" => Step(op, a) # Exit
BY DEF Step, StepSet, Exit

LEMMA SaveIs == Steady(Save) /\ Calm(Save) /\ ~Exits(Save) /\ Has(Save, "write") /\ Save # <<>>
<1>1. PICK a, b, c : a = Step("enter", "maintain") /\ b = Step("write", "all")
                     /\ c = Step("leave", "normal")
  OBVIOUS
<1>2. Save = <<a, b, c>>
  BY <1>1 DEF Save
<1>3. /\ a \in StepSet /\ b \in StepSet /\ c \in StepSet
      /\ a.op = "enter" /\ b.op = "write" /\ c.op = "leave"
      /\ a # Exit /\ b # Exit /\ c # Exit
  BY <1>1 DEF Step, StepSet, Exit
<1>4. DOMAIN Save = 1 .. 3 /\ Save[1] = a /\ Save[2] = b /\ Save[3] = c
  BY <1>2
<1>5. Save \in Seq(StepSet) /\ Save # <<>>
  BY <1>2, <1>3
<1>. QED
  BY <1>3, <1>4, <1>5 DEF Steady, Leaves, Calm, Exits, Has

LEMMA CleanMapIs == Steady(CleanMap) /\ Calm(CleanMap) /\ ~Exits(CleanMap) /\ CleanMap # <<>>
<1>1. PICK a, c : a = Step("enter", "maintain") /\ c = Step("leave", "normal")
  OBVIOUS
<1>2. CleanMap = <<a, c>>
  BY <1>1 DEF CleanMap
<1>3. /\ a \in StepSet /\ c \in StepSet /\ a.op = "enter" /\ c.op = "leave" /\ a # Exit /\ c # Exit
  BY <1>1 DEF Step, StepSet, Exit
<1>4. DOMAIN CleanMap = 1 .. 2 /\ CleanMap[1] = a /\ CleanMap[2] = c
  BY <1>2
<1>5. CleanMap \in Seq(StepSet) /\ CleanMap # <<>>
  BY <1>2, <1>3
<1>. QED
  BY <1>3, <1>4, <1>5 DEF Steady, Leaves, Calm, Exits

(* What setGameState does after it has set the state. *)
LEMMA EffectsIs ==
  ASSUME NEW s \in States
  PROVE  /\ Steady(Effects(s))
         /\ s \in {"normal", "maintain"} => Effects(s) = <<>>
         /\ s # "shutdown" => ~Exits(Effects(s))
         /\ s = "shutdown" => Has(Effects(s), "write") /\ Has(Effects(s), "stop")
<1>1. CASE s \notin {"closed", "shutdown"}
  <2>1. Effects(s) = <<>>
    BY <1>1 DEF Effects, States
  <2>. QED
    BY <1>1, <2>1, NoSteps
<1>2. CASE s = "closed"
  <2>1. Effects(s) = Save
    BY <1>2 DEF Effects
  <2>. QED
    BY <1>2, <2>1, SaveIs
<1>3. CASE s = "shutdown"
  <2>1. PICK e, f : e = Exit /\ f = Step("stop", "all")
    OBVIOUS
  <2>2. /\ e \in StepSet /\ e.op = "post" /\ f \in StepSet /\ f.op = "stop"
    BY <2>1, StepIs DEF Exit, Kinds
  <2>3. PICK x : x = <<e, f>>
    OBVIOUS
  <2>4. x \in Seq(StepSet) /\ DOMAIN x = 1 .. 2 /\ x[1] = e /\ x[2] = f
    BY <2>2, <2>3
  <2>5. Steady(<<e, f>>) /\ Has(<<e, f>>, "stop")
    BY <2>2, <2>3, <2>4 DEF Steady, Leaves, Has
  <2>6. Effects(s) = Save \o <<e, f>>
    BY <1>3, <2>1 DEF Effects, Exit
  <2>7. Steady(Effects(s)) /\ Has(Effects(s), "write") /\ Has(Effects(s), "stop")
    BY <2>5, <2>6, SaveIs, ConcatKeeps
  <2>. QED
    BY <1>3, <2>7
<1>. QED
  BY <1>1, <1>2, <1>3

Decided(s, r) == <<Step("assign", s)>> \o Effects(s) \o r

(* setGameState, once it has decided. *)
LEMMA DecidedIs ==
  ASSUME NEW s \in States, NEW r, Steady(r)
  PROVE  /\ Sound(Decided(s, r)) /\ Decided(s, r) # <<>> /\ Head(Decided(s, r)) = Step("assign", s)
         /\ s \in {"normal", "maintain"} => Tail(Decided(s, r)) = r
         /\ \A op : Has(r, op) => Has(Decided(s, r), op)
         /\ s = "shutdown" => Has(Decided(s, r), "write") /\ Has(Decided(s, r), "stop")
         /\ s # "shutdown" /\ Exits(Decided(s, r)) => Exits(r)
         /\ s \in {"normal", "maintain"} /\ Calm(r) => Calm(Decided(s, r))
<1>1. PICK a : a = Step("assign", s)
  OBVIOUS
<1>2. a \in StepSet /\ a.op = "assign" /\ a.arg = s /\ a # Exit
  BY <1>1, StepIs
<1>3. PICK e : e = Effects(s)
  OBVIOUS
<1>4. /\ Steady(e) /\ (s \in {"normal", "maintain"} => e = <<>>) /\ (s # "shutdown" => ~Exits(e))
      /\ s = "shutdown" => Has(e, "write") /\ Has(e, "stop")
  BY <1>3, EffectsIs
<1>5. PICK u : u = e \o r
  OBVIOUS
<1>6. /\ Steady(u) /\ (\A op : Has(e, op) \/ Has(r, op) => Has(u, op))
      /\ Exits(u) => Exits(e) \/ Exits(r)
  BY <1>4, <1>5, ConcatKeeps
<1>7. e = <<>> => u = r
  BY <1>5, SteadyIs
<1>8. Decided(s, r) = <<a>> \o u
  <2>1. e \in Seq(StepSet) /\ r \in Seq(StepSet)
    BY <1>4, SteadyIs
  <2>2. <<a>> \o e \o r = <<a>> \o (e \o r)
    BY <1>2, <2>1
  <2>. QED
    BY <1>1, <1>3, <1>5, <2>2 DEF Decided
<1>9. /\ Sound(<<a>> \o u) /\ <<a>> \o u # <<>> /\ Head(<<a>> \o u) = a /\ Tail(<<a>> \o u) = u
      /\ \A op : Has(u, op) \/ a.op = op => Has(<<a>> \o u, op)
      /\ Exits(<<a>> \o u) => a = Exit \/ Exits(u)
      /\ Calm(u) /\ a.op # "post" /\ (a.op \in {"check", "assign"} => a.arg \in {"normal", "maintain"})
           => Calm(<<a>> \o u)
  BY <1>2, <1>6, ConsKeeps
<1>. QED
  BY <1>1, <1>2, <1>4, <1>6, <1>7, <1>8, <1>9

(* setGameState, before. *)
LEMMA SetStateIs ==
  ASSUME NEW s \in States, NEW r, Steady(r)
  PROVE  /\ Sound(SetState(s) \o r) /\ SetState(s) \o r # <<>> /\ Head(SetState(s) \o r) = Step("check", s)
         /\ Tail(SetState(s) \o r) = r
         /\ \A op : Has(r, op) => Has(SetState(s) \o r, op)
         /\ Exits(SetState(s) \o r) => Exits(r)
         /\ Calm(r) /\ s \in {"normal", "maintain"} => Calm(SetState(s) \o r)
<1>1. PICK a : a = Step("check", s)
  OBVIOUS
<1>2. a \in StepSet /\ a.op = "check" /\ a.arg = s /\ a # Exit
  BY <1>1, StepIs
<1>3. SetState(s) = <<a>>
  BY <1>1 DEF SetState
<1>. QED
  BY <1>1, <1>2, <1>3, ConsKeeps
-----------------------------------------------------------------------------
(* What the steps lead to.                                                 *)
(*                                                                         *)
(* gs is the state of the game, w the one that was ordered last, un        *)
(* whether somebody has played since the last save and acc whether tasks   *)
(* are accepted.                                                           *)

Reached(gs, w) == gs = w \/ (w = "maintain" /\ gs = "normal")

(* A save or a clean took the game to maintain and will take it back. *)
Lifting(gs, w) == gs = "maintain" /\ w \in {"normal", "maintain"}

(* Who is in setGameState, and has to do r after it, was ordered to, *)
(* begins a save or a clean, or ends one.                            *)
ChecksWell(a, r, gs, w) ==
  \/ w = IF gs = "shutdown" THEN "shutdown" ELSE a
  \/ a = "maintain" /\ gs = "normal" /\ w \in {"normal", "maintain"} /\ Has(r, "leave")
  \/ a = "normal" /\ Lifting(gs, w)

AssignsWell(a, r, gs, w) ==
  /\ gs # "shutdown"
  /\ \/ w = a
     \/ a = "maintain" /\ w \in {"normal", "maintain"} /\ Has(r, "leave")
     \/ a = "normal" /\ w \in {"normal", "maintain"}

SetsWell(c, gs, w) ==
  /\ Head(c).op = "check" => ChecksWell(Head(c).arg, Tail(c), gs, w)
  /\ Head(c).op = "assign" => AssignsWell(Head(c).arg, Tail(c), gs, w)

(* A thread that is alone in setGameState, or that leaves it; leaving says *)
(* that a save or a clean is to end, in any thread.                        *)
LeadsThere(c, gs, w, leaving) ==
  IF Setting(c) THEN SetsWell(c, gs, w)
  ELSE Reached(gs, w) \/ (Lifting(gs, w) /\ (Has(c, "leave") \/ leaving))

(* The dispatcher thread shuts down once it has begun to. *)
AssignsShutdown(c) == c # <<>> /\ Head(c) = Step("assign", "shutdown")
ChecksShutdown(c) == c # <<>> /\ Head(c) = Step("check", "shutdown")

Shuts(c, gs, w, un, acc) ==
  /\ AssignsShutdown(c) => Has(c, "write") /\ Has(c, "stop")
  /\ gs = "shutdown" => (un => Has(c, "write")) /\ (acc => Has(c, "stop"))
  /\ w = "shutdown" => ~acc \/ Has(c, "stop") \/ ChecksShutdown(c)

LEMMA CheckLeads ==
  ASSUME NEW c, Sound(c), c # <<>>, Head(c).op = "check", NEW gs, NEW w, NEW leaving, SetsWell(c, gs, w)
  PROVE  /\ gs \notin {"shutdown", Head(c).arg} => LeadsThere(Decided(Head(c).arg, Tail(c)), gs, w, leaving)
         /\ gs \in {"shutdown", Head(c).arg} => LeadsThere(Tail(c), gs, w, leaving)
<1>1. PICK s, r : s = Head(c).arg /\ r = Tail(c)
  OBVIOUS
<1>2. s \in States /\ Steady(r) /\ ~Setting(r)
  BY <1>1, TailKeeps DEF StepSet
<1>3. ChecksWell(s, r, gs, w)
  BY <1>1 DEF SetsWell
<1>4. PICK d : d = Decided(s, r)
  OBVIOUS
<1>5. /\ d # <<>> /\ Head(d).op = "assign" /\ Head(d).arg = s
      /\ s \in {"normal", "maintain"} => Tail(d) = r
  BY <1>2, <1>4, DecidedIs, StepIs
<1>6. ASSUME gs \notin {"shutdown", s} PROVE LeadsThere(d, gs, w, leaving)
  <2>1. AssignsWell(s, Tail(d), gs, w)
    BY <1>3, <1>5, <1>6 DEF ChecksWell, AssignsWell, Lifting
  <2>. QED
    BY <1>5, <2>1 DEF LeadsThere, SetsWell, Setting
<1>7. ASSUME gs \in {"shutdown", s} PROVE LeadsThere(r, gs, w, leaving)
  BY <1>2, <1>3, <1>7 DEF ChecksWell, LeadsThere, Reached, Lifting
<1>. QED
  BY <1>1, <1>4, <1>6, <1>7

LEMMA AssignLeads ==
  ASSUME NEW c, Sound(c), c # <<>>, Head(c).op = "assign", NEW gs, NEW w, NEW leaving, SetsWell(c, gs, w)
  PROVE  gs # "shutdown" /\ LeadsThere(Tail(c), Head(c).arg, w, leaving)
<1>1. AssignsWell(Head(c).arg, Tail(c), gs, w) /\ ~Setting(Tail(c))
  BY TailKeeps DEF SetsWell
<1>. QED
  BY <1>1 DEF AssignsWell, LeadsThere, Reached, Lifting

(* Saves and cleans that begin and end. *)
LEMMA ToggleLeads ==
  ASSUME NEW c, Sound(c), c # <<>>, NEW gs, NEW w, NEW leaving, ~Setting(c), LeadsThere(c, gs, w, leaving)
  PROVE  /\ Head(c).op = "enter" =>
              /\ gs = "normal" => LeadsThere(SetState("maintain") \o Tail(c), gs, w, leaving)
              /\ gs # "normal" => LeadsThere(Tail(c), gs, w, leaving)
         /\ Head(c).op = "leave" =>
              /\ gs = "maintain" => LeadsThere(SetState("normal") \o Tail(c), gs, w, leaving)
              /\ gs # "maintain" => LeadsThere(Tail(c), gs, w, leaving)
         /\ Head(c).op \notin {"enter", "leave"} => LeadsThere(Tail(c), gs, w, leaving)
<1>1. PICK r : r = Tail(c)
  OBVIOUS
<1>2. /\ Steady(r) /\ ~Setting(r) /\ (Head(c).op = "enter" => Has(r, "leave"))
      /\ Has(c, "leave") => Head(c).op = "leave" \/ Has(r, "leave")
  BY <1>1, TailKeeps
<1>3. Reached(gs, w) \/ (Lifting(gs, w) /\ (Has(c, "leave") \/ leaving))
  BY DEF LeadsThere
<1>4. ASSUME NEW s \in {"normal", "maintain"}, ChecksWell(s, r, gs, w)
      PROVE  LeadsThere(SetState(s) \o r, gs, w, leaving)
  <2>1. s \in States
    BY DEF States
  <2>2. PICK d : d = SetState(s) \o r
    OBVIOUS
  <2>3. d # <<>> /\ Head(d).op = "check" /\ Head(d).arg = s /\ Tail(d) = r
    BY <1>2, <2>1, <2>2, SetStateIs, StepIs
  <2>4. LeadsThere(d, gs, w, leaving)
    BY <1>4, <2>3 DEF LeadsThere, SetsWell, Setting
  <2>. QED
    BY <2>2, <2>4
<1>5. ASSUME Head(c).op = "enter", gs = "normal" PROVE LeadsThere(SetState("maintain") \o r, gs, w, leaving)
  <2>1. ChecksWell("maintain", r, gs, w)
    BY <1>2, <1>3, <1>5 DEF Reached, Lifting, ChecksWell
  <2>. QED
    BY <1>4, <2>1
<1>6. ASSUME Head(c).op = "leave", gs = "maintain" PROVE LeadsThere(SetState("normal") \o r, gs, w, leaving)
  <2>1. ChecksWell("normal", r, gs, w)
    BY <1>3, <1>6 DEF Reached, Lifting, ChecksWell
  <2>. QED
    BY <1>4, <2>1
<1>7. ASSUME Head(c).op = "leave" => gs # "maintain" PROVE LeadsThere(r, gs, w, leaving)
  BY <1>2, <1>3, <1>7 DEF LeadsThere, Lifting
<1>. QED
  BY <1>1, <1>5, <1>6, <1>7

LEMMA SetsShut ==
  ASSUME NEW c, Sound(c), c # <<>>, NEW gs, NEW w, NEW un, NEW acc, Shuts(c, gs, w, un, acc)
  PROVE  /\ Head(c).op = "check" =>
              /\ gs \notin {"shutdown", Head(c).arg} => Shuts(Decided(Head(c).arg, Tail(c)), gs, w, un, acc)
              /\ gs \in {"shutdown", Head(c).arg} => Shuts(Tail(c), gs, w, un, acc)
         /\ Head(c).op = "assign" => Shuts(Tail(c), Head(c).arg, w, un, acc)
<1>1. PICK s, r : s = Head(c).arg /\ r = Tail(c)
  OBVIOUS
<1>2. /\ Head(c) \in StepSet /\ Steady(r) /\ ~Setting(r)
      /\ \A op : Has(c, op) => Head(c).op = op \/ Has(r, op)
  BY <1>1, TailKeeps
<1>3. Head(c).op \in {"check", "assign"} => s \in States /\ Head(c) = Step(Head(c).op, s)
  BY <1>1, <1>2 DEF StepSet, Step
<1>4. ~AssignsShutdown(r)
  <2>1. AssignsShutdown(r) => Setting(r)
    BY StepIs DEF AssignsShutdown, Setting
  <2>. QED
    BY <1>2, <2>1
<1>5. ASSUME Head(c).op = "check" PROVE (ChecksShutdown(c) => s = "shutdown") /\ Head(c) # Step("assign", "shutdown")
  BY <1>1, <1>5, StepIs DEF ChecksShutdown
<1>6. ASSUME Head(c).op = "check", gs \notin {"shutdown", s} PROVE Shuts(Decided(s, r), gs, w, un, acc)
  <2>1. PICK d : d = Decided(s, r)
    OBVIOUS
  <2>2. /\ Head(d) = Step("assign", s)
        /\ \A op : Has(r, op) => Has(d, op)
        /\ s = "shutdown" => Has(d, "write") /\ Has(d, "stop")
    BY <1>2, <1>3, <1>6, <2>1, DecidedIs
  <2>3. AssignsShutdown(d) => s = "shutdown"
    BY <2>2, StepIs DEF AssignsShutdown
  <2>4. w = "shutdown" => ~acc \/ Has(r, "stop") \/ s = "shutdown"
    BY <1>2, <1>5, <1>6 DEF Shuts
  <2>5. Shuts(d, gs, w, un, acc)
    BY <1>6, <2>2, <2>3, <2>4 DEF Shuts
  <2>. QED
    BY <2>1, <2>5
<1>7. ASSUME Head(c).op = "check", gs \in {"shutdown", s} PROVE Shuts(r, gs, w, un, acc)
  BY <1>2, <1>4, <1>5, <1>7 DEF Shuts
<1>8. ASSUME Head(c).op = "assign" PROVE Shuts(r, s, w, un, acc)
  <2>1. s = "shutdown" => AssignsShutdown(c)
    BY <1>3, <1>8 DEF AssignsShutdown
  <2>2. ~ChecksShutdown(c)
    BY <1>8, StepIs DEF ChecksShutdown
  <2>. QED
    BY <1>2, <1>4, <1>8, <2>1, <2>2 DEF Shuts
<1>. QED
  BY <1>1, <1>6, <1>7, <1>8

(* d is what follows a step that is not in setGameState. *)
LEMMA OthersShut ==
  ASSUME NEW c, Sound(c), c # <<>>, ~Setting(c), NEW gs, NEW w, NEW un, NEW acc, Shuts(c, gs, w, un, acc),
         NEW d, \A op : Has(Tail(c), op) => Has(d, op), ~AssignsShutdown(d)
  PROVE  Shuts(d, gs, w, IF Head(c).op = "write" THEN FALSE ELSE un,
               IF Head(c).op = "stop" THEN FALSE ELSE acc)
<1>1. \A op : Has(c, op) => Head(c).op = op \/ Has(d, op)
  BY TailKeeps
<1>2. ~ChecksShutdown(c)
  BY StepIs DEF ChecksShutdown, Setting
<1>. QED
  BY <1>1, <1>2 DEF Shuts
-----------------------------------------------------------------------------
(* The inductive invariant.                                                *)

RestTypes ==
  /\ gameState \in States /\ wanted \in States
  /\ taskQueue \in Seq(Kinds)
  /\ saveEvent \in Stages \cup {None}
  /\ accepting \in BOOLEAN /\ unsaved \in BOOLEAN
  /\ orders \in 0 .. MaxOrders
  /\ power \in {"on", "off", "terminated"}

Types ==
  /\ RestTypes /\ exclusive \in BOOLEAN
  /\ DOMAIN code = ThreadNames /\ code = [t \in ThreadNames |-> code[t]]

ThreadsSound == (\A t \in ThreadNames : Sound(code[t])) /\ Calm(code["handler"])

OthersSet(t) == \E u \in ThreadNames \ {t} : Setting(code[u])
OthersLeave(t) == \E u \in ThreadNames \ {t} : Has(code[u], "leave")

(* What the threads do, and have done, to the state of the game. *)
OrdersLead ==
  exclusive => /\ \A t \in ThreadNames : Setting(code[t]) => ~OthersSet(t)
               /\ \A t \in ThreadNames :
                    ~OthersSet(t) => LeadsThere(code[t], gameState, wanted, OthersLeave(t))

Shutting ==
  /\ Shuts(code["dispatcher"], gameState, wanted, unsaved, accepting)
  /\ ~accepting => saveEvent = None

Queued(task) == \E n \in DOMAIN taskQueue : taskQueue[n] = task

(* Who is about to exit has ordered the shutdown. *)
ExitsWell(c, gs) == Queued("exit") \/ Exits(c) => gs = "shutdown" \/ AssignsShutdown(c)
ExitIsLast == exclusive => ExitsWell(code["dispatcher"], gameState)

StateInv == Types /\ ThreadsSound /\ OrdersLead /\ Shutting /\ ExitIsLast /\ NothingLost

LEMMA NoStepsLead ==
  /\ ~Setting(<<>>)
  /\ \A gs, w, leaving : LeadsThere(<<>>, gs, w, leaving) <=> Reached(gs, w) \/ (Lifting(gs, w) /\ leaving)
  /\ ~AssignsShutdown(<<>>) /\ ~ChecksShutdown(<<>>)
<1>1. ~Setting(<<>>)
  BY DEF Setting
<1>. QED
  BY <1>1, NoSteps DEF LeadsThere, AssignsShutdown, ChecksShutdown

LEMMA StateStarts == StateInit => StateInv
<1>. SUFFICES ASSUME StateInit PROVE StateInv
  OBVIOUS
<1>1. \A t \in ThreadNames : code[t] = <<>>
  BY DEF StateInit
<1>2. "handler" \in ThreadNames /\ "dispatcher" \in ThreadNames
  BY DEF ThreadNames
<1>3. Types
  <2>1. /\ gameState \in States /\ wanted \in States /\ saveEvent \in Stages \cup {None}
        /\ accepting \in BOOLEAN /\ unsaved \in BOOLEAN /\ exclusive \in BOOLEAN
        /\ power \in {"on", "off", "terminated"}
    BY DEF StateInit, States, Stages
  <2>2. orders \in 0 .. MaxOrders
    BY GameStateAssumption DEF StateInit
  <2>3. DOMAIN code = ThreadNames /\ code = [t \in ThreadNames |-> code[t]]
    BY DEF StateInit
  <2>4. taskQueue \in Seq(Kinds)
    <3>1. taskQueue = <<>>
      BY DEF StateInit
    <3>. QED
      BY <3>1
  <2>. QED
    BY <2>1, <2>2, <2>3, <2>4 DEF Types, RestTypes
<1>4. ThreadsSound
  BY <1>1, <1>2, NoSteps, SteadyIs DEF ThreadsSound
<1>5. OrdersLead
  <2>1. Reached(gameState, wanted)
    BY DEF StateInit, Reached
  <2>. QED
    BY <1>1, <2>1, NoStepsLead DEF OrdersLead, OthersSet
<1>6. Shutting
  BY <1>1, <1>2, NoStepsLead DEF StateInit, Shutting, Shuts
<1>7. ExitIsLast
  <2>1. ~Queued("exit")
    BY DEF StateInit, Queued
  <2>. QED
    BY <1>1, <1>2, <2>1, NoSteps DEF ExitIsLast, ExitsWell
<1>8. NothingLost
  BY DEF StateInit, NothingLost
<1>. QED
  BY <1>3, <1>4, <1>5, <1>6, <1>7, <1>8 DEF StateInv

(* A thread goes on with c. *)
LEMMA ThreadGoesOn ==
  ASSUME StateInv, NEW t \in ThreadNames, NEW c, GoesOnWith(t, c), Sound(c),
         t = "handler" => Calm(c),
         RestTypes', power = "on", power' = "on",
         ~Setting(code[t]) /\ ~Setting(c) => UNCHANGED <<gameState, wanted>>,
         exclusive /\ ~OthersSet(t) => LeadsThere(c, gameState', wanted', OthersLeave(t)),
         exclusive /\ gameState = "shutdown" => gameState' = "shutdown",
         t = "dispatcher" => Shuts(c, gameState', wanted', unsaved', accepting'),
         t = "handler" => /\ gameState' = "shutdown" => gameState = "shutdown"
                          /\ wanted' = "shutdown" => wanted = "shutdown"
                          /\ (unsaved' => unsaved) /\ (accepting' => accepting),
         ~accepting' => saveEvent' = None,
         t = "dispatcher" /\ exclusive /\ (Queued("exit")' \/ Exits(c)) =>
           gameState' = "shutdown" \/ AssignsShutdown(c),
         t = "handler" => (Queued("exit")' => Queued("exit"))
  PROVE  StateInv'
<1>1. Types /\ ThreadsSound /\ OrdersLead /\ Shutting /\ ExitIsLast
  BY DEF StateInv
<1>2. /\ code' = [code EXCEPT ![t] = c]
      /\ exclusive' = (exclusive /\ ~(Setting(c) /\ OthersSet(t)))
  BY DEF GoesOnWith, OthersSet
<1>3. /\ DOMAIN code' = ThreadNames /\ code' = [u \in ThreadNames |-> code'[u]] /\ code'[t] = c
      /\ \A u \in ThreadNames \ {t} : code'[u] = code[u]
  BY <1>1, <1>2 DEF Types
<1>4. /\ ThreadNames = {"handler", "dispatcher"} /\ (t = "handler" \/ t = "dispatcher")
      /\ "handler" # "dispatcher"
  BY DEF ThreadNames
<1>5. Types'
  <2>1. exclusive' \in BOOLEAN
    BY <1>1, <1>2 DEF Types
  <2>. QED
    BY <1>3, <2>1 DEF Types
<1>6. ThreadsSound'
  BY <1>1, <1>3, <1>4 DEF ThreadsSound
<1>7. (OthersSet(t)' <=> OthersSet(t)) /\ (OthersLeave(t)' <=> OthersLeave(t))
  BY <1>3 DEF OthersSet, OthersLeave
<1>8. OrdersLead'
  <2>. SUFFICES ASSUME exclusive' PROVE /\ \A u \in ThreadNames : Setting(code'[u]) => ~OthersSet(u)'
                                       /\ \A u \in ThreadNames :
                    ~OthersSet(u)' => LeadsThere(code'[u], gameState', wanted', OthersLeave(u)')
    BY DEF OrdersLead
  <2>1. exclusive /\ ~(Setting(c) /\ OthersSet(t))
    BY <1>2
  <2>2. ASSUME NEW u \in ThreadNames, Setting(code'[u]), OthersSet(u)' PROVE FALSE
    <3>1. CASE u = t
      BY <1>3, <1>7, <2>1, <2>2, <3>1
    <3>2. CASE u # t
      <4>1. PICK v \in ThreadNames \ {u} : Setting(code'[v])
        BY <2>2 DEF OthersSet
      <4>2. v = t /\ Setting(c) /\ Setting(code[u])
        BY <1>3, <1>4, <2>2, <3>2, <4>1
      <4>. QED
        BY <2>1, <3>2, <4>2 DEF OthersSet
    <3>. QED
      BY <3>1, <3>2
  <2>3. ASSUME NEW u \in ThreadNames, ~OthersSet(u)'
        PROVE  LeadsThere(code'[u], gameState', wanted', OthersLeave(u)')
    <3>1. CASE u = t
      BY <1>3, <1>7, <2>1, <2>3, <3>1 DEF LeadsThere
    <3>2. CASE u # t /\ Setting(code[u])
      <4>1. ~Setting(c) /\ code'[u] = code[u]
        BY <1>3, <2>3, <3>2 DEF OthersSet
      <4>2. ~OthersSet(u)
        BY <1>1, <2>1, <3>2 DEF OrdersLead
      <4>3. ~Setting(code[t])
        BY <3>2, <4>2 DEF OthersSet
      <4>4. gameState' = gameState /\ wanted' = wanted
        BY <4>1, <4>3
      <4>5. LeadsThere(code[u], gameState, wanted, OthersLeave(u))
        BY <1>1, <2>1, <4>2 DEF OrdersLead
      <4>6. SetsWell(code[u], gameState, wanted)
        BY <3>2, <4>5 DEF LeadsThere
      <4>. QED
        BY <3>2, <4>1, <4>4, <4>6 DEF LeadsThere
    <3>3. CASE u # t /\ ~Setting(code[u])
      <4>1. ~Setting(c) /\ code'[u] = code[u] /\ ThreadNames = {t, u}
        BY <1>3, <1>4, <2>3, <3>3 DEF OthersSet
      <4>2. ~OthersSet(t)
        BY <3>3, <4>1 DEF OthersSet
      <4>3. LeadsThere(c, gameState', wanted', OthersLeave(t))
        BY <2>1, <4>2
      <4>4. Has(c, "leave") \/ OthersLeave(t) => Has(code[u], "leave") \/ OthersLeave(u)'
        BY <1>3, <3>3, <4>1 DEF OthersLeave
      <4>. QED
        BY <3>3, <4>1, <4>3, <4>4 DEF LeadsThere
    <3>. QED
      BY <3>1, <3>2, <3>3
  <2>. QED
    BY <2>2, <2>3
<1>9. Shutting'
  <2>1. CASE t = "dispatcher"
    BY <1>3, <2>1 DEF Shutting
  <2>2. CASE t = "handler"
    <3>1. code'["dispatcher"] = code["dispatcher"]
      BY <1>3, <1>4, <2>2
    <3>. QED
      BY <1>1, <2>2, <3>1 DEF Shutting, Shuts
  <2>. QED
    BY <1>4, <2>1, <2>2
<1>10. ExitIsLast'
  <2>1. SUFFICES ASSUME exclusive', Queued("exit")' \/ Exits(code'["dispatcher"])
                 PROVE  gameState' = "shutdown" \/ AssignsShutdown(code'["dispatcher"])
    BY DEF ExitIsLast, ExitsWell
  <2>2. CASE t = "dispatcher"
    BY <1>2, <1>3, <2>1, <2>2
  <2>3. CASE t = "handler"
    <3>1. code'["dispatcher"] = code["dispatcher"]
      BY <1>3, <1>4, <2>3
    <3>. QED
      BY <1>1, <1>2, <2>1, <2>3, <3>1 DEF ExitIsLast, ExitsWell
  <2>. QED
    BY <1>4, <2>2, <2>3
<1>11. NothingLost'
  BY DEF NothingLost
<1>. QED
  BY <1>5, <1>6, <1>8, <1>9, <1>10, <1>11 DEF StateInv

(* Nothing happens to the steps of the threads. *)
LEMMA CodeKept ==
  ASSUME StateInv, UNCHANGED <<gameState, code, wanted, exclusive>>, RestTypes',
         Queued("exit")' => Queued("exit"),
         unsaved' => unsaved \/ gameState # "shutdown",
         accepting' => accepting, ~accepting' => saveEvent' = None,
         power' = "off" /\ (exclusive \/ gameState = "shutdown") => ~unsaved'
  PROVE  StateInv'
<1>1. Types /\ ThreadsSound /\ OrdersLead /\ Shutting /\ ExitIsLast
  BY DEF StateInv
<1>2. Types' /\ ThreadsSound'
  BY <1>1 DEF Types, ThreadsSound
<1>3. OrdersLead'
  BY <1>1 DEF OrdersLead, OthersSet, OthersLeave
<1>4. Shutting'
  BY <1>1 DEF Shutting, Shuts
<1>5. ExitIsLast'
  BY <1>1 DEF ExitIsLast, ExitsWell
<1>6. NothingLost'
  BY DEF NothingLost
<1>. QED
  BY <1>2, <1>3, <1>4, <1>5, <1>6 DEF StateInv
-----------------------------------------------------------------------------
(* The steps of a thread.                                                  *)

LEMMA DoingIs ==
  ASSUME StateInv, NEW t \in ThreadNames, NEW op, NEW c, Does(t, op, c)
  PROVE  /\ code[t] # <<>> /\ Sound(code[t]) /\ Head(code[t]).op = op /\ Head(code[t]) \in StepSet
         /\ Steady(Rest(t)) /\ Sound(Rest(t)) /\ ~Setting(Rest(t)) /\ ~AssignsShutdown(Rest(t))
         /\ Setting(code[t]) <=> op \in {"check", "assign"}
         /\ op \in {"check", "assign"} => Arg(t) \in States /\ Head(code[t]) = Step(op, Arg(t))
         /\ op = "arm" => Arg(t) \in Stages
         /\ op = "post" => Arg(t) \in Kinds /\ Head(code[t]) = Step("post", Arg(t))
         /\ t = "handler" => /\ Calm(Rest(t)) /\ op # "post"
                             /\ op \in {"check", "assign"} => Arg(t) \in {"normal", "maintain"}
         /\ exclusive /\ ~OthersSet(t) => LeadsThere(code[t], gameState, wanted, OthersLeave(t))
         /\ exclusive /\ op \in {"check", "assign"} => SetsWell(code[t], gameState, wanted)
         /\ t = "dispatcher" => Shuts(code[t], gameState, wanted, unsaved, accepting)
         /\ t = "dispatcher" /\ exclusive => ExitsWell(code[t], gameState)
         /\ power = "on" /\ power' = "on" /\ GoesOnWith(t, c) /\ wanted' = wanted /\ orders' = orders
         /\ RestTypes /\ (~accepting => saveEvent = None)
<1>1. /\ code[t] # <<>> /\ Head(code[t]).op = op
      /\ power = "on" /\ power' = "on" /\ GoesOnWith(t, c) /\ wanted' = wanted /\ orders' = orders
  BY DEF Does, Idle
<1>2. Sound(code[t]) /\ (t = "handler" => Calm(code[t])) /\ RestTypes /\ (~accepting => saveEvent = None)
  BY DEF StateInv, ThreadsSound, Types, Shutting
<1>3. PICK h, a, r : h = Head(code[t]) /\ a = Arg(t) /\ r = Rest(t)
  OBVIOUS
<1>4. /\ h \in StepSet /\ h.op = op /\ h.arg = a /\ Steady(r) /\ Sound(r) /\ ~Setting(r)
      /\ t = "handler" => Calm(r) /\ op # "post" /\ (op \in {"check", "assign"} => a \in {"normal", "maintain"})
  BY <1>1, <1>2, <1>3, TailKeeps DEF Arg, Rest
<1>5. /\ op \in {"check", "assign"} => a \in States /\ h = Step(op, a)
      /\ op = "arm" => a \in Stages
      /\ op = "post" => a \in Kinds /\ h = Step("post", a)
  BY <1>4 DEF StepSet, Step
<1>6. Setting(code[t]) <=> op \in {"check", "assign"}
  BY <1>1 DEF Setting
<1>7. ~AssignsShutdown(r)
  <2>1. AssignsShutdown(r) => Setting(r)
    BY StepIs DEF AssignsShutdown, Setting
  <2>. QED
    BY <1>4, <2>1
<1>8. /\ exclusive /\ ~OthersSet(t) => LeadsThere(code[t], gameState, wanted, OthersLeave(t))
      /\ exclusive /\ op \in {"check", "assign"} => ~OthersSet(t)
  BY <1>6 DEF StateInv, OrdersLead
<1>9. exclusive /\ op \in {"check", "assign"} => SetsWell(code[t], gameState, wanted)
  BY <1>6, <1>8 DEF LeadsThere
<1>10. /\ t = "dispatcher" => Shuts(code[t], gameState, wanted, unsaved, accepting)
       /\ t = "dispatcher" /\ exclusive => ExitsWell(code[t], gameState)
  BY DEF StateInv, Shutting, ExitIsLast
<1>. QED
  BY <1>1, <1>2, <1>3, <1>4, <1>5, <1>6, <1>7, <1>8, <1>9, <1>10

LEMMA CheckKeeps == ASSUME StateInv, NEW t \in ThreadNames, Check(t) PROVE StateInv'
<1>1. PICK s, r, accepted : s = Arg(t) /\ r = Rest(t) /\ accepted = (gameState \notin {"shutdown", s})
  OBVIOUS
<1>2. PICK c : c = IF accepted THEN Decided(s, r) ELSE r
  OBVIOUS
<1>3. Does(t, "check", c) /\ UNCHANGED <<gameState, taskQueue, accepting, saveEvent, unsaved>>
  BY <1>1, <1>2 DEF Check, Accepts, Decided
<1>4. /\ code[t] # <<>> /\ Sound(code[t]) /\ Head(code[t]).op = "check" /\ Head(code[t]) = Step("check", s)
      /\ Steady(r) /\ Sound(r) /\ ~Setting(r) /\ ~AssignsShutdown(r)
      /\ Setting(code[t]) /\ s \in States
      /\ t = "handler" => Calm(r) /\ s \in {"normal", "maintain"}
      /\ exclusive => SetsWell(code[t], gameState, wanted)
      /\ t = "dispatcher" => Shuts(code[t], gameState, wanted, unsaved, accepting)
      /\ t = "dispatcher" /\ exclusive => ExitsWell(code[t], gameState)
      /\ power = "on" /\ power' = "on" /\ GoesOnWith(t, c) /\ wanted' = wanted /\ orders' = orders
      /\ RestTypes /\ (~accepting => saveEvent = None)
  BY <1>1, <1>3, DoingIs
<1>5. /\ Sound(Decided(s, r)) /\ (s \in {"normal", "maintain"} /\ Calm(r) => Calm(Decided(s, r)))
      /\ s # "shutdown" /\ Exits(Decided(s, r)) => Exits(r)
      /\ s = "shutdown" => AssignsShutdown(Decided(s, r))
  BY <1>4, DecidedIs DEF AssignsShutdown
<1>6. Sound(c) /\ (t = "handler" => Calm(c))
  BY <1>2, <1>4, <1>5
<1>7. exclusive => LeadsThere(c, gameState, wanted, OthersLeave(t))
  BY <1>1, <1>2, <1>4, CheckLeads DEF Arg, Rest
<1>8. t = "dispatcher" => Shuts(c, gameState, wanted, unsaved, accepting)
  BY <1>1, <1>2, <1>4, SetsShut DEF Arg, Rest
<1>9. ASSUME t = "dispatcher", exclusive, Queued("exit") \/ Exits(c)
      PROVE  gameState = "shutdown" \/ AssignsShutdown(c)
  <2>1. Exits(r) => Exits(code[t])
    BY <1>1, <1>4, TailKeeps DEF Rest
  <2>2. ~AssignsShutdown(code[t])
    BY <1>4, StepIs DEF AssignsShutdown
  <2>3. Queued("exit") \/ Exits(r) => gameState = "shutdown"
    BY <1>4, <1>9, <2>1, <2>2 DEF ExitsWell
  <2>4. CASE s = "shutdown" /\ accepted
    BY <1>2, <1>5, <2>4
  <2>5. CASE ~(s = "shutdown" /\ accepted)
    BY <1>2, <1>5, <1>9, <2>3, <2>5
  <2>. QED
    BY <2>4, <2>5
<1>10. RestTypes' /\ (Queued("exit")' <=> Queued("exit"))
  BY <1>3, <1>4 DEF RestTypes, Queued
<1>. QED
  BY <1>3, <1>4, <1>6, <1>7, <1>8, <1>9, <1>10, ThreadGoesOn

LEMMA AssignKeeps == ASSUME StateInv, NEW t \in ThreadNames, Assign(t) PROVE StateInv'
<1>1. PICK s, r : s = Arg(t) /\ r = Rest(t)
  OBVIOUS
<1>2. /\ Does(t, "assign", r) /\ gameState' = s
      /\ UNCHANGED <<taskQueue, accepting, saveEvent, unsaved>>
  BY <1>1 DEF Assign
<1>3. /\ code[t] # <<>> /\ Sound(code[t]) /\ Head(code[t]).op = "assign" /\ Head(code[t]) = Step("assign", s)
      /\ Sound(r) /\ Setting(code[t]) /\ s \in States
      /\ t = "handler" => Calm(r) /\ s \in {"normal", "maintain"}
      /\ exclusive => SetsWell(code[t], gameState, wanted)
      /\ t = "dispatcher" => Shuts(code[t], gameState, wanted, unsaved, accepting)
      /\ t = "dispatcher" /\ exclusive => ExitsWell(code[t], gameState)
      /\ power = "on" /\ power' = "on" /\ GoesOnWith(t, r) /\ wanted' = wanted /\ orders' = orders
      /\ RestTypes /\ (~accepting => saveEvent = None)
  BY <1>1, <1>2, DoingIs
<1>4. exclusive => gameState # "shutdown" /\ LeadsThere(r, s, wanted, OthersLeave(t))
  BY <1>1, <1>3, AssignLeads DEF Arg, Rest
<1>5. t = "dispatcher" => Shuts(r, s, wanted, unsaved, accepting)
  BY <1>1, <1>3, SetsShut DEF Arg, Rest
<1>6. ASSUME t = "dispatcher", exclusive, Queued("exit") \/ Exits(r) PROVE s = "shutdown"
  <2>1. Exits(r) => Exits(code[t])
    BY <1>1, <1>3, TailKeeps DEF Rest
  <2>2. AssignsShutdown(code[t])
    BY <1>3, <1>4, <1>6, <2>1 DEF ExitsWell
  <2>. QED
    BY <1>3, <2>2, StepIs DEF AssignsShutdown
<1>7. RestTypes' /\ (Queued("exit")' <=> Queued("exit"))
  BY <1>2, <1>3 DEF RestTypes, Queued
<1>. QED
  BY <1>2, <1>3, <1>4, <1>5, <1>6, <1>7, ThreadGoesOn

(* The steps outside of setGameState; d is what the thread goes on with. *)
LEMMA OthersKeep ==
  ASSUME StateInv, NEW t \in ThreadNames, NEW op, op \notin {"check", "assign"}, NEW d, Does(t, op, d),
         Sound(d), ~AssignsShutdown(d), t = "handler" /\ Calm(Rest(t)) => Calm(d),
         \A o : Has(Rest(t), o) => Has(d, o), Exits(d) => Exits(Rest(t)),
         \A leaving : LeadsThere(code[t], gameState, wanted, leaving) => LeadsThere(d, gameState, wanted, leaving),
         UNCHANGED gameState, RestTypes', 
         unsaved' = IF op = "write" THEN FALSE ELSE unsaved,
         accepting' = IF op = "stop" THEN FALSE ELSE accepting, ~accepting' => saveEvent' = None,
         Queued("exit")' => Queued("exit") \/ Head(code[t]) = Exit
  PROVE  StateInv'
<1>1. /\ code[t] # <<>> /\ Sound(code[t]) /\ Head(code[t]).op = op /\ ~Setting(code[t])
      /\ t = "handler" => Calm(Rest(t)) /\ op # "post"
      /\ exclusive /\ ~OthersSet(t) => LeadsThere(code[t], gameState, wanted, OthersLeave(t))
      /\ t = "dispatcher" => Shuts(code[t], gameState, wanted, unsaved, accepting)
      /\ t = "dispatcher" /\ exclusive => ExitsWell(code[t], gameState)
      /\ power = "on" /\ power' = "on" /\ GoesOnWith(t, d) /\ wanted' = wanted
      /\ RestTypes
  BY DoingIs
<1>2. exclusive /\ ~OthersSet(t) => LeadsThere(d, gameState, wanted, OthersLeave(t))
  BY <1>1
<1>3. t = "dispatcher" => Shuts(d, gameState, wanted, unsaved', accepting')
  BY <1>1, OthersShut DEF Rest
<1>4. /\ Exits(Rest(t)) => Exits(code[t])
      /\ Head(code[t]) = Exit => Exits(code[t])
  BY <1>1, TailKeeps DEF Rest
<1>5. ~AssignsShutdown(code[t]) /\ (t = "handler" => Head(code[t]) # Exit)
  BY <1>1, StepIs DEF AssignsShutdown, Exit
<1>6. t = "dispatcher" /\ exclusive /\ (Queued("exit")' \/ Exits(d)) => gameState = "shutdown"
  BY <1>1, <1>4, <1>5 DEF ExitsWell
<1>7. /\ unsaved' => unsaved
      /\ accepting' => accepting
  BY <1>1
<1>. QED
  BY <1>1, <1>2, <1>3, <1>5, <1>6, <1>7, ThreadGoesOn

LEMMA ToggleKeeps ==
  ASSUME StateInv, NEW t \in ThreadNames, Enter(t) \/ LeaveState(t)
  PROVE  StateInv'
<1>1. PICK op \in {"enter", "leave"}, s \in {"normal", "maintain"} :
        /\ op = "enter" => s = "maintain"
        /\ op = "leave" => s = "normal"
        /\ Does(t, op, IF gameState = (IF op = "enter" THEN "normal" ELSE "maintain")
                       THEN SetState(s) \o Rest(t) ELSE Rest(t))
        /\ UNCHANGED <<gameState, taskQueue, accepting, saveEvent, unsaved>>
  <2>1. CASE Enter(t)
    BY <2>1 DEF Enter
  <2>2. CASE LeaveState(t)
    BY <2>2 DEF LeaveState
  <2>. QED
    BY <2>1, <2>2
<1>2. PICK r, d : /\ r = Rest(t)
                  /\ d = IF gameState = (IF op = "enter" THEN "normal" ELSE "maintain")
                         THEN SetState(s) \o r ELSE r
  OBVIOUS
<1>3. /\ code[t] # <<>> /\ Sound(code[t]) /\ Head(code[t]).op = op /\ ~Setting(code[t])
      /\ Steady(r) /\ Sound(r) /\ ~AssignsShutdown(r)
      /\ wanted' = wanted /\ orders' = orders /\ power' = "on"
      /\ RestTypes /\ (~accepting => saveEvent = None)
  BY <1>1, <1>2, DoingIs
<1>4. s \in States
  BY DEF States
<1>5. /\ Sound(SetState(s) \o r) /\ Head(SetState(s) \o r) = Step("check", s)
      /\ \A o : Has(r, o) => Has(SetState(s) \o r, o)
      /\ Exits(SetState(s) \o r) => Exits(r)
      /\ Calm(r) /\ s \in {"normal", "maintain"} => Calm(SetState(s) \o r)
  BY <1>3, <1>4, SetStateIs
<1>6. ~AssignsShutdown(SetState(s) \o r)
  BY <1>5, StepIs DEF AssignsShutdown
<1>7. /\ Sound(d) /\ ~AssignsShutdown(d) /\ (Calm(r) => Calm(d))
      /\ (\A o : Has(r, o) => Has(d, o)) /\ (Exits(d) => Exits(r))
  BY <1>2, <1>3, <1>5, <1>6
<1>8. ASSUME NEW leaving, LeadsThere(code[t], gameState, wanted, leaving)
      PROVE  LeadsThere(d, gameState, wanted, leaving)
  <2>1. CASE op = "enter"
    BY <1>1, <1>2, <1>3, <1>8, <2>1, ToggleLeads DEF Rest
  <2>2. CASE op = "leave"
    BY <1>1, <1>2, <1>3, <1>8, <2>2, ToggleLeads DEF Rest
  <2>. QED
    BY <2>1, <2>2
<1>9. RestTypes' /\ (Queued("exit")' <=> Queued("exit"))
  BY <1>1, <1>3 DEF RestTypes, Queued
<1>10. Does(t, op, d) /\ op \notin {"check", "assign", "write", "stop"}
  BY <1>1, <1>2
<1>. QED
  BY <1>1, <1>2, <1>3, <1>7, <1>8, <1>9, <1>10, OthersKeep

(* The steps that leave the state of the game alone. *)
LEMMA QuietKeeps ==
  ASSUME StateInv, NEW t \in ThreadNames, NEW op \in {"write", "arm", "post", "stop"}, Does(t, op, Rest(t)),
         UNCHANGED gameState, RestTypes',
         unsaved' = IF op = "write" THEN FALSE ELSE unsaved,
         accepting' = IF op = "stop" THEN FALSE ELSE accepting, ~accepting' => saveEvent' = None,
         Queued("exit")' => Queued("exit") \/ Head(code[t]) = Exit
  PROVE  StateInv'
<1>1. /\ code[t] # <<>> /\ Sound(code[t]) /\ Head(code[t]).op = op /\ ~Setting(code[t])
      /\ Sound(Rest(t)) /\ ~AssignsShutdown(Rest(t))
  BY DoingIs
<1>2. \A leaving : LeadsThere(code[t], gameState, wanted, leaving) => LeadsThere(Rest(t), gameState, wanted, leaving)
  BY <1>1, ToggleLeads DEF Rest
<1>. QED
  BY <1>1, <1>2, OthersKeep

LEMMA WriteKeeps ==
  ASSUME StateInv, NEW t \in ThreadNames, WriteAll(t) \/ ArmSave(t) \/ StopThreads(t)
  PROVE  StateInv'
<1>1. CASE WriteAll(t)
  <2>1. Does(t, "write", Rest(t)) /\ unsaved' = FALSE
        /\ UNCHANGED <<gameState, taskQueue, accepting, saveEvent>>
    BY <1>1 DEF WriteAll
  <2>2. RestTypes /\ (~accepting => saveEvent = None) /\ wanted' = wanted /\ orders' = orders /\ power' = "on"
    BY <2>1, DoingIs
  <2>3. RestTypes' /\ (Queued("exit")' <=> Queued("exit"))
    BY <2>1, <2>2 DEF RestTypes, Queued
  <2>. QED
    BY <2>1, <2>2, <2>3, QuietKeeps
<1>2. CASE ArmSave(t)
  <2>1. Does(t, "arm", Rest(t)) /\ saveEvent' = (IF accepting THEN Arg(t) ELSE saveEvent)
        /\ UNCHANGED <<gameState, taskQueue, accepting, unsaved>>
    BY <1>2 DEF ArmSave
  <2>2. /\ RestTypes /\ (~accepting => saveEvent = None) /\ Arg(t) \in Stages
        /\ wanted' = wanted /\ orders' = orders /\ power' = "on"
    BY <2>1, DoingIs
  <2>3. RestTypes' /\ (Queued("exit")' <=> Queued("exit"))
    BY <2>1, <2>2 DEF RestTypes, Queued
  <2>. QED
    BY <2>1, <2>2, <2>3, QuietKeeps
<1>3. CASE StopThreads(t)
  <2>1. Does(t, "stop", Rest(t)) /\ accepting' = FALSE /\ saveEvent' = None
        /\ UNCHANGED <<gameState, taskQueue, unsaved>>
    BY <1>3 DEF StopThreads
  <2>2. RestTypes /\ wanted' = wanted /\ orders' = orders /\ power' = "on"
    BY <2>1, DoingIs
  <2>3. RestTypes' /\ (Queued("exit")' <=> Queued("exit"))
    BY <2>1, <2>2 DEF RestTypes, Queued
  <2>. QED
    BY <2>1, <2>2, <2>3, QuietKeeps
<1>. QED
  BY <1>1, <1>2, <1>3

LEMMA PostsIs ==
  ASSUME taskQueue \in Seq(Kinds), NEW task \in Kinds, Posts(task)
  PROVE  /\ taskQueue' \in Seq(Kinds)
         /\ \A n \in DOMAIN taskQueue' : 
              taskQueue'[n] = task \/ (n \in DOMAIN taskQueue /\ taskQueue'[n] = taskQueue[n])
<1>1. PICK q \in Seq(Kinds) : q = taskQueue
  OBVIOUS
<1>2. CASE taskQueue' = Append(q, task)
  <2>1. Append(q, task) \in Seq(Kinds)
    OBVIOUS
  <2>2. ASSUME NEW n \in DOMAIN Append(q, task)
        PROVE  Append(q, task)[n] = task \/ (n \in DOMAIN q /\ Append(q, task)[n] = q[n])
    <3>1. n \in 1 .. Len(q) + 1 /\ DOMAIN q = 1 .. Len(q)
      OBVIOUS
    <3>2. CASE n = Len(q) + 1
      <4>1. Append(q, task)[Len(q) + 1] = task
        OBVIOUS
      <4>. QED
        BY <3>2, <4>1
    <3>3. CASE n \in 1 .. Len(q)
      BY <3>1, <3>3
    <3>. QED
      BY <3>1, <3>2, <3>3
  <2>. QED
    BY <1>1, <1>2, <2>1, <2>2
<1>3. CASE taskQueue' = q
  BY <1>1, <1>3
<1>. QED
  BY <1>1, <1>2, <1>3 DEF Posts

LEMMA PostKeeps == ASSUME StateInv, NEW t \in ThreadNames, PostTask(t) PROVE StateInv'
<1>1. /\ Does(t, "post", Rest(t))
      /\ Posts(Arg(t)) \/ (Arg(t) = "exit" /\ UNCHANGED taskQueue)
      /\ UNCHANGED <<gameState, accepting, saveEvent, unsaved>>
  BY DEF PostTask
<1>2. /\ RestTypes /\ Arg(t) \in Kinds /\ Head(code[t]) = Step("post", Arg(t))
      /\ (~accepting => saveEvent = None) /\ wanted' = wanted /\ orders' = orders /\ power' = "on"
  BY <1>1, DoingIs
<1>3. taskQueue' \in Seq(Kinds)
      /\ \A n \in DOMAIN taskQueue' : 
           taskQueue'[n] = Arg(t) \/ (n \in DOMAIN taskQueue /\ taskQueue'[n] = taskQueue[n])
  BY <1>1, <1>2, PostsIs DEF RestTypes
<1>4. Queued("exit")' => Queued("exit") \/ Head(code[t]) = Exit
  BY <1>2, <1>3 DEF Queued, Exit
<1>5. RestTypes'
  BY <1>1, <1>2, <1>3 DEF RestTypes
<1>. QED
  BY <1>1, <1>2, <1>4, <1>5, QuietKeeps
-----------------------------------------------------------------------------
(* What tasks and signals begin with.                                      *)

(* Nothing in it is the exit, and it does not begin with setting a state; *)
(* w1 is the state that was ordered last then.                            *)
Program(c, gs, w, w1) ==
  /\ Sound(c) /\ ~Exits(c) /\ ~AssignsShutdown(c)
  /\ ~Setting(c) => w1 = w
  /\ Setting(c) /\ (Reached(gs, w) \/ Lifting(gs, w)) => SetsWell(c, gs, w1)
  /\ w1 = "shutdown" => w = "shutdown" \/ ChecksShutdown(c)

LEMMA SteadyProgram ==
  ASSUME NEW c, Steady(c), ~Exits(c)
  PROVE  \A gs, w : Program(c, gs, w, w)
<1>1. Sound(c) /\ ~Setting(c)
  BY SteadyIs
<1>2. AssignsShutdown(c) => Setting(c)
  BY StepIs DEF AssignsShutdown, Setting
<1>. QED
  BY <1>1, <1>2 DEF Program

LEMMA OrderProgram ==
  ASSUME NEW s \in States, NEW r, Steady(r), ~Exits(r)
  PROVE  /\ \A gs, w : Program(SetState(s) \o r, gs, w, IF w = "shutdown" THEN w ELSE s)
         /\ s = "normal" /\ Calm(r) => Calm(SetState(s) \o r)
<1>1. PICK c : c = SetState(s) \o r
  OBVIOUS
<1>2. /\ Sound(c) /\ c # <<>> /\ Head(c) = Step("check", s) /\ Tail(c) = r
      /\ ~Exits(c) /\ (s = "normal" /\ Calm(r) => Calm(c))
  BY <1>1, SetStateIs
<1>3. /\ ~AssignsShutdown(c) /\ Setting(c) /\ Head(c).op = "check" /\ Head(c).arg = s
      /\ s = "shutdown" => ChecksShutdown(c)
  BY <1>2, StepIs DEF AssignsShutdown, Setting, ChecksShutdown
<1>4. ASSUME NEW gs, NEW w, Reached(gs, w) \/ Lifting(gs, w)
      PROVE  SetsWell(c, gs, IF w = "shutdown" THEN w ELSE s)
  <2>1. ChecksWell(s, r, gs, IF w = "shutdown" THEN w ELSE s)
    BY <1>4 DEF Reached, Lifting, ChecksWell
  <2>. QED
    BY <1>2, <1>3, <2>1 DEF SetsWell
<1>5. \A gs, w : Program(c, gs, w, IF w = "shutdown" THEN w ELSE s)
  BY <1>2, <1>3, <1>4 DEF Program
<1>. QED
  BY <1>1, <1>2, <1>5

LEMMA StateProgram ==
  ASSUME NEW s \in States
  PROVE  /\ \A gs, w : Program(SetState(s), gs, w, IF w = "shutdown" THEN w ELSE s)
         /\ s = "normal" => Calm(SetState(s))
BY NoSteps, OrderProgram

LEMMA PrepareProgram ==
  ASSUME NEW m \in DOMAIN Following
  PROVE  \A gs, w : Program(Prepare(m), gs, w,
                            IF m = "in5" THEN IF w = "shutdown" THEN w ELSE "closing" ELSE w)
<1>1. PICK a : a = Step("arm", Following[m])
  OBVIOUS
<1>2. a \in StepSet /\ a.op = "arm" /\ a # Exit
  <2>1. Following[m] \in Stages
    BY DEF Following, Stages
  <2>. QED
    BY <1>1, <2>1, StepIs
<1>3. PICK r : r = <<a>>
  OBVIOUS
<1>4. r \in Seq(StepSet) /\ DOMAIN r = {1} /\ r[1] = a
  BY <1>2, <1>3
<1>5. Steady(r) /\ ~Exits(r)
  BY <1>2, <1>4 DEF Steady, Leaves, Exits
<1>6. CASE m = "in5"
  <2>1. Prepare(m) = SetState("closing") \o r
    BY <1>1, <1>3, <1>6 DEF Prepare, SetState
  <2>2. "closing" \in States
    BY DEF States
  <2>. QED
    BY <1>5, <1>6, <2>1, <2>2, OrderProgram
<1>7. CASE m # "in5"
  <2>1. Prepare(m) = r
    BY <1>1, <1>3, <1>4, <1>7 DEF Prepare
  <2>. QED
    BY <1>5, <1>7, <2>1, SteadyProgram
<1>. QED
  BY <1>6, <1>7

LEMMA GlobalSaveProgram ==
  ASSUME NEW down \in BOOLEAN, NEW clean \in BOOLEAN
  PROVE  \A gs, w : Program(GlobalSave(down, clean), gs, w, w)
<1>. DEFINE g == GlobalSave(down, clean)
<1>1. PICK x, y, z, v : x = Step("post", "shutdown") /\ y = Step("post", "closed")
                        /\ z = Step("arm", "in5") /\ v = Step("post", "normal")
  OBVIOUS
<1>2. \A s \in {x, y, z, v} : s \in StepSet /\ s.op \in {"post", "arm"} /\ s # Exit
  BY <1>1, StepIs DEF Stages, Kinds, States
<1>3. ASSUME NEW c \in Seq(StepSet), \A n \in DOMAIN c : c[n] \in {x, y, z, v}
      PROVE  Steady(c) /\ ~Exits(c)
  BY <1>2, <1>3 DEF Steady, Leaves, Exits
<1>4. CASE down
  <2>1. g = <<x>>
    BY <1>1, <1>4 DEF GlobalSave
  <2>2. <<x>> \in Seq(StepSet) /\ \A n \in DOMAIN <<x>> : <<x>>[n] = x
    BY <1>2
  <2>. QED
    BY <1>3, <2>1, <2>2, SteadyProgram
<1>5. CASE ~down
  <2>1. PICK p, m, r : p = <<y>> /\ m = (IF clean THEN CleanMap ELSE <<>>) /\ r = <<z, v>>
    OBVIOUS
  <2>2. g = p \o m \o r
    BY <1>1, <1>5, <2>1 DEF GlobalSave
  <2>3. /\ p \in Seq(StepSet) /\ \A n \in DOMAIN p : p[n] \in {x, y, z, v}
        /\ r \in Seq(StepSet) /\ \A n \in DOMAIN r : r[n] \in {x, y, z, v}
    BY <1>2, <2>1
  <2>4. Steady(p) /\ ~Exits(p) /\ Steady(r) /\ ~Exits(r)
    BY <1>3, <2>3
  <2>5. Steady(m) /\ ~Exits(m)
    BY <2>1, CleanMapIs, NoSteps
  <2>6. Steady(p \o m) /\ ~Exits(p \o m)
    BY <2>4, <2>5, ConcatKeeps
  <2>7. Steady(g) /\ ~Exits(g)
    BY <2>2, <2>4, <2>6, ConcatKeeps
  <2>. QED
    BY <2>7, SteadyProgram
<1>. QED
  BY <1>4, <1>5

(* A task or the handler begins. *)
LEMMA ProgramKeeps ==
  ASSUME StateInv, NEW t \in ThreadNames, NEW c, code[t] = <<>>, GoesOnWith(t, c),
         Program(c, gameState, wanted, wanted'), t = "handler" => Calm(c),
         RestTypes', power = "on", power' = "on",
         UNCHANGED <<gameState, accepting, saveEvent, unsaved>>,
         Queued("exit")' => Queued("exit")
  PROVE  StateInv'
<1>1. /\ Sound(c) /\ ~Exits(c) /\ ~AssignsShutdown(c)
      /\ ~Setting(c) => wanted' = wanted
      /\ Setting(c) /\ (Reached(gameState, wanted) \/ Lifting(gameState, wanted)) =>
           SetsWell(c, gameState, wanted')
      /\ wanted' = "shutdown" => wanted = "shutdown" \/ ChecksShutdown(c)
  BY DEF Program
<1>2. /\ OrdersLead /\ Shutting /\ ExitIsLast
  BY DEF StateInv
<1>3. ASSUME exclusive, ~OthersSet(t) PROVE LeadsThere(c, gameState', wanted', OthersLeave(t))
  <2>1. Reached(gameState, wanted) \/ (Lifting(gameState, wanted) /\ OthersLeave(t))
    BY <1>2, <1>3, NoStepsLead DEF OrdersLead
  <2>. QED
    BY <1>1, <2>1 DEF LeadsThere
<1>4. ASSUME t = "dispatcher" PROVE Shuts(c, gameState', wanted', unsaved', accepting')
  <2>1. Shuts(<<>>, gameState, wanted, unsaved, accepting)
    BY <1>2, <1>4 DEF Shutting
  <2>. QED
    BY <1>1, <2>1, NoSteps, NoStepsLead DEF Shuts
<1>5. ASSUME t = "handler" PROVE ~ChecksShutdown(c)
  <2>1. SUFFICES ASSUME c # <<>>, Head(c) = Step("check", "shutdown") PROVE FALSE
    BY DEF ChecksShutdown
  <2>2. Head(c).op = "check" /\ Head(c).arg = "shutdown"
    BY <2>1, StepIs
  <2>. QED
    BY <1>1, <1>5, <2>1, <2>2, TailKeeps
<1>6. t = "dispatcher" /\ exclusive /\ (Queued("exit")' \/ Exits(c)) => gameState' = "shutdown"
  BY <1>1, <1>2, NoStepsLead DEF ExitIsLast, ExitsWell
<1>7. ~accepting' => saveEvent' = None
  BY <1>2 DEF Shutting
<1>. QED
  BY <1>1, <1>3, <1>4, <1>5, <1>6, <1>7, ThreadGoesOn

LEMMA BeginKeeps ==
  ASSUME StateInv, NEW Which, NEW c, Begin(Which, c), Program(c, gameState, wanted, wanted'),
         wanted' \in States, UNCHANGED power
  PROVE  StateInv'
<1>1. /\ power = "on" /\ code["dispatcher"] = <<>> /\ taskQueue # <<>> /\ taskQueue' = Tail(taskQueue)
      /\ GoesOnWith("dispatcher", c)
      /\ UNCHANGED <<gameState, accepting, saveEvent, unsaved, orders>>
  BY DEF Begin, Idle
<1>2. RestTypes
  BY DEF StateInv, Types
<1>3. /\ taskQueue' \in Seq(Kinds)
      /\ \A n \in DOMAIN taskQueue' : n + 1 \in DOMAIN taskQueue /\ taskQueue'[n] = taskQueue[n + 1]
  BY <1>1, <1>2 DEF RestTypes
<1>4. RestTypes' /\ (Queued("exit")' => Queued("exit"))
  BY <1>1, <1>2, <1>3 DEF RestTypes, Queued
<1>5. "dispatcher" \in ThreadNames
  BY DEF ThreadNames
<1>. QED
  BY <1>1, <1>4, <1>5, ProgramKeeps

LEMMA SignalKeeps ==
  ASSUME StateInv, NEW c, NEW s \in States, Signal(c, s), Program(c, gameState, wanted, s), Calm(c)
  PROVE  StateInv'
<1>1. /\ power = "on" /\ power' = "on" /\ code["handler"] = <<>>
      /\ orders < MaxOrders /\ orders' = orders + 1
      /\ GoesOnWith("handler", c) /\ wanted' = s
      /\ UNCHANGED <<gameState, taskQueue, accepting, saveEvent, unsaved>>
  BY DEF Signal, Ordered, Idle
<1>2. RestTypes
  BY DEF StateInv, Types
<1>3. orders' \in 0 .. MaxOrders
  BY <1>1, <1>2, GameStateAssumption DEF RestTypes
<1>4. RestTypes' /\ (Queued("exit")' => Queued("exit"))
  BY <1>1, <1>2, <1>3 DEF RestTypes, Queued
<1>5. "handler" \in ThreadNames /\ Program(c, gameState, wanted, wanted')
  BY <1>1 DEF ThreadNames
<1>. QED
  BY <1>1, <1>4, <1>5, ProgramKeeps

LEMMA ExitKeeps == ASSUME StateInv, ExitTask PROVE StateInv'
<1>1. /\ power = "on" /\ code["dispatcher"] = <<>> /\ taskQueue # <<>> /\ taskQueue' = Tail(taskQueue)
      /\ code' = [code EXCEPT !["dispatcher"] = <<>>] /\ exclusive' = (exclusive /\ ~(Setting(<<>>) /\ OthersSet("dispatcher")))
      /\ Head(taskQueue) \in {"exit", "term"}
      /\ UNCHANGED <<gameState, accepting, saveEvent, unsaved, orders, wanted>>
      /\ power' = IF Head(taskQueue) = "term" THEN "terminated" ELSE "off"
  BY DEF ExitTask, Begin, Idle, GoesOnWith, OthersSet
<1>2. Types /\ ExitIsLast /\ Shutting
  BY DEF StateInv
<1>3. code' = code /\ exclusive' = exclusive
  BY <1>1, <1>2, NoStepsLead DEF Types
<1>4. /\ taskQueue' \in Seq(Kinds)
      /\ \A n \in DOMAIN taskQueue' : n + 1 \in DOMAIN taskQueue /\ taskQueue'[n] = taskQueue[n + 1]
      /\ 1 \in DOMAIN taskQueue /\ Head(taskQueue) = taskQueue[1]
  BY <1>1, <1>2 DEF Types, RestTypes
<1>5. RestTypes' /\ (Queued("exit")' => Queued("exit"))
  BY <1>1, <1>2, <1>4 DEF Types, RestTypes, Queued
<1>6. ASSUME power' = "off", exclusive \/ gameState = "shutdown" PROVE ~unsaved'
  <2>1. Queued("exit")
    BY <1>1, <1>4, <1>6 DEF Queued
  <2>2. gameState = "shutdown"
    BY <1>1, <1>2, <1>6, <2>1, NoStepsLead DEF ExitIsLast, ExitsWell
  <2>3. Shuts(<<>>, gameState, wanted, unsaved, accepting)
    BY <1>1, <1>2 DEF Shutting
  <2>. QED
    BY <1>1, <2>2, <2>3, NoSteps DEF Shuts
<1>7. ~accepting' => saveEvent' = None
  BY <1>1, <1>2 DEF Shutting
<1>. QED
  BY <1>1, <1>3, <1>5, <1>6, <1>7, CodeKept
-----------------------------------------------------------------------------
(* All steps, and the theorem.                                             *)

LEMMA StateStep == StateInv /\ [StateNext]_stateVars => StateInv'
<1>. SUFFICES ASSUME StateInv, [StateNext]_stateVars PROVE StateInv'
  OBVIOUS
<1>0. RestTypes /\ (~accepting => saveEvent = None) /\ NothingLost /\ Stages \subseteq Kinds \ {"exit"}
  BY DEF StateInv, Types, Shutting, Kinds, Stages
<1>1. ASSUME NEW t \in ThreadNames, ThreadStep(t) PROVE StateInv'
  BY <1>1, CheckKeeps, AssignKeeps, ToggleKeeps, WriteKeeps, PostKeeps DEF ThreadStep
<1>2. CASE StateTask
  <2>1. Begin(States, SetState(Head(taskQueue))) /\ wanted' = Order(Head(taskQueue))
        /\ UNCHANGED power
    BY <1>2 DEF StateTask
  <2>2. PICK s \in States : s = Head(taskQueue)
    BY <2>1 DEF Begin
  <2>3. wanted' = IF wanted = "shutdown" THEN wanted ELSE s
    BY <2>1, <2>2 DEF Order
  <2>4. Program(SetState(s), gameState, wanted, wanted')
    BY <2>3, StateProgram
  <2>. QED
    BY <1>0, <2>1, <2>2, <2>3, <2>4, BeginKeeps DEF RestTypes
<1>3. CASE SaveTask \/ CleanTask
  <2>1. /\ Begin({"save"}, Save) \/ Begin({"clean"}, CleanMap)
        /\ UNCHANGED <<wanted, power>>
    BY <1>3 DEF SaveTask, CleanTask
  <2>2. Program(Save, gameState, wanted, wanted') /\ Program(CleanMap, gameState, wanted, wanted')
    BY <2>1, SaveIs, CleanMapIs, SteadyProgram
  <2>. QED
    BY <1>0, <2>1, <2>2, BeginKeeps DEF RestTypes
<1>4. CASE PrepareTask
  <2>1. /\ wanted' = IF Head(taskQueue) = "in5" THEN Order("closing") ELSE wanted
        /\ UNCHANGED power
    BY <1>4 DEF PrepareTask
  <2>2. "closing" \in States /\ wanted' \in States
    BY <1>0, <2>1 DEF Order, RestTypes, States
  <2>3. CASE Begin(DOMAIN Following, Prepare(Head(taskQueue)))
    <3>1. PICK m \in DOMAIN Following : m = Head(taskQueue)
      BY <2>3 DEF Begin
    <3>2. wanted' = IF m = "in5" THEN IF wanted = "shutdown" THEN wanted ELSE "closing" ELSE wanted
      BY <2>1, <3>1 DEF Order
    <3>3. Program(Prepare(m), gameState, wanted, wanted')
      BY <3>2, PrepareProgram
    <3>. QED
      BY <2>1, <2>2, <2>3, <3>1, <3>3, BeginKeeps
  <2>4. CASE \E down, clean \in BOOLEAN : Begin({"in0"}, GlobalSave(down, clean))
    <3>1. PICK down \in BOOLEAN, clean \in BOOLEAN : Begin({"in0"}, GlobalSave(down, clean))
      BY <2>4
    <3>2. wanted' = wanted
      BY <2>1, <3>1 DEF Begin
    <3>3. Program(GlobalSave(down, clean), gameState, wanted, wanted')
      BY <3>2, GlobalSaveProgram
    <3>. QED
      BY <2>1, <2>2, <3>1, <3>3, BeginKeeps
  <2>. QED
    BY <1>4, <2>3, <2>4 DEF PrepareTask
<1>5. CASE ExitTask
  BY <1>5, ExitKeeps
<1>6. ASSUME NEW task \in Kinds \ {"exit"}, Posts(task)
      PROVE  taskQueue' \in Seq(Kinds) /\ (Queued("exit")' => Queued("exit"))
  <2>1. taskQueue' \in Seq(Kinds)
        /\ \A n \in DOMAIN taskQueue' :
             taskQueue'[n] = task \/ (n \in DOMAIN taskQueue /\ taskQueue'[n] = taskQueue[n])
    BY <1>0, <1>6, PostsIs DEF RestTypes
  <2>. QED
    BY <2>1 DEF Queued
<1>7. CASE SaveDue
  <2>1. /\ saveEvent \in Stages /\ Posts(saveEvent) /\ saveEvent' = None
        /\ UNCHANGED <<gameState, code, accepting, unsaved, orders, wanted, exclusive, power>>
    BY <1>0, <1>7 DEF SaveDue, RestTypes
  <2>2. taskQueue' \in Seq(Kinds) /\ (Queued("exit")' => Queued("exit"))
    BY <1>0, <1>6, <2>1
  <2>3. RestTypes'
    BY <1>0, <2>1, <2>2 DEF RestTypes
  <2>. QED
    BY <1>0, <2>1, <2>2, <2>3, CodeKept DEF NothingLost
<1>8. ASSUME NEW task \in States \cup {"save", "clean", "term"}, PostOrder(task) PROVE StateInv'
  <2>1. /\ Posts(task) /\ orders < MaxOrders /\ orders' = orders + 1
        /\ UNCHANGED <<gameState, code, accepting, saveEvent, unsaved, wanted, exclusive, power>>
    BY <1>8 DEF PostOrder, Ordered
  <2>2. taskQueue' \in Seq(Kinds) /\ (Queued("exit")' => Queued("exit"))
    <3>1. task \in Kinds \ {"exit"}
      BY DEF Kinds, States
    <3>. QED
      BY <1>6, <2>1, <3>1
  <2>3. orders' \in 0 .. MaxOrders
    BY <1>0, <2>1, GameStateAssumption DEF RestTypes
  <2>4. RestTypes'
    BY <1>0, <2>1, <2>2, <2>3 DEF RestTypes
  <2>. QED
    BY <1>0, <2>1, <2>2, <2>4, CodeKept DEF NothingLost
<1>9. CASE Signal(SetState("normal"), Order("normal"))
  <2>1. "normal" \in States /\ Order("normal") = IF wanted = "shutdown" THEN wanted ELSE "normal"
    BY DEF States, Order
  <2>2. Order("normal") \in States
    BY <1>0, <2>1 DEF RestTypes
  <2>3. Program(SetState("normal"), gameState, wanted, Order("normal")) /\ Calm(SetState("normal"))
    BY <2>1, StateProgram
  <2>. QED
    BY <1>9, <2>2, <2>3, SignalKeeps
<1>10. CASE Signal(CleanMap, wanted)
  <2>1. Program(CleanMap, gameState, wanted, wanted) /\ Calm(CleanMap)
    BY CleanMapIs, SteadyProgram
  <2>. QED
    BY <1>0, <1>10, <2>1, SignalKeeps DEF RestTypes
<1>11. CASE Play
  <2>1. /\ power = "on" /\ gameState # "shutdown" /\ unsaved' = TRUE
        /\ UNCHANGED <<gameState, code, taskQueue, accepting, saveEvent, orders, wanted,
                       exclusive, power>>
    BY <1>11 DEF Play
  <2>2. RestTypes' /\ (Queued("exit")' => Queued("exit"))
    BY <1>0, <2>1 DEF RestTypes, Queued
  <2>. QED
    BY <1>0, <2>1, <2>2, CodeKept
<1>12. CASE UNCHANGED stateVars
  <2>1. UNCHANGED <<gameState, code, taskQueue, accepting, saveEvent, unsaved, orders, wanted,
                    exclusive, power>>
    BY <1>12 DEF stateVars
  <2>2. RestTypes' /\ (Queued("exit")' => Queued("exit"))
    BY <1>0, <2>1 DEF RestTypes, Queued
  <2>. QED
    BY <1>0, <2>1, <2>2, CodeKept DEF NothingLost
<1>. QED
  BY <1>1, <1>2, <1>3, <1>4, <1>5, <1>7, <1>8, <1>9, <1>10, <1>11, <1>12 DEF StateNext, TaskBegins

StateKeptNow == StateTypeOK /\ OrdersKept /\ NothingLost /\ ShutdownGoesThrough

LEMMA StateInvGives == StateInv => StateKeptNow
<1>. SUFFICES ASSUME StateInv PROVE StateKeptNow
  OBVIOUS
<1>1. Types /\ ThreadsSound /\ OrdersLead /\ Shutting /\ NothingLost
  BY DEF StateInv
<1>2. StateTypeOK
  <2>1. ASSUME NEW t \in ThreadNames, NEW n \in DOMAIN code[t]
        PROVE  DOMAIN code[t][n] = {"op", "arg"}
    <3>1. code[t][n] \in StepSet
      BY <1>1 DEF ThreadsSound, Sound
    <3>. QED
      BY <3>1 DEF StepSet
  <2>. QED
    BY <1>1, <2>1 DEF StateTypeOK, Types, RestTypes
<1>3. OrdersKept
  <2>1. SUFFICES ASSUME exclusive, \A t \in ThreadNames : code[t] = <<>> PROVE Reached(gameState, wanted)
    BY DEF OrdersKept, Reached, Idle
  <2>2. "handler" \in ThreadNames
    BY DEF ThreadNames
  <2>3. ~OthersSet("handler") /\ ~OthersLeave("handler")
    BY <2>1, NoSteps, NoStepsLead DEF OthersSet, OthersLeave
  <2>4. LeadsThere(<<>>, gameState, wanted, OthersLeave("handler"))
    BY <1>1, <2>1, <2>2, <2>3 DEF OrdersLead
  <2>. QED
    BY <2>3, <2>4, NoStepsLead
<1>4. ShutdownGoesThrough
  <2>1. SUFFICES ASSUME wanted = "shutdown", code["dispatcher"] = <<>> PROVE ~accepting
    BY <1>1 DEF ShutdownGoesThrough, Idle, Shutting
  <2>. QED
    BY <1>1, <2>1, NoSteps, NoStepsLead DEF Shutting, Shuts
<1>. QED
  BY <1>1, <1>2, <1>3, <1>4 DEF StateKeptNow

LEMMA ShutdownStep ==
  ASSUME StateInv, [StateNext]_stateVars, exclusive, gameState = "shutdown"
  PROVE  gameState' = "shutdown"
<1>1. SUFFICES ASSUME gameState' # "shutdown" PROVE FALSE
  OBVIOUS
<1>2. PICK t \in ThreadNames : Assign(t)
  BY <1>1 DEF StateNext, stateVars, ThreadStep, Check, Enter, LeaveState, WriteAll, ArmSave, PostTask,
    StopThreads, TaskBegins, StateTask, SaveTask, CleanTask, PrepareTask, ExitTask, Begin,
    SaveDue, PostOrder, Signal, Play
<1>3. Does(t, "assign", Rest(t))
  BY <1>2 DEF Assign
<1>4. code[t] # <<>> /\ Sound(code[t]) /\ Head(code[t]).op = "assign" /\ SetsWell(code[t], gameState, wanted)
  BY <1>3, DoingIs
<1>. QED
  BY <1>4 DEF SetsWell, AssignsWell

(* However often the state of the game is ordered by tasks, by the stages  *)
(* of the global save and by the handler of signals, at whatever points of *)
(* each other they come: as long as the two threads were not in            *)
(* setGameState at once, the server is left in the state that was ordered  *)
(* last and a shutdown stays; in any case a shutdown is gone through with, *)
(* and a server that exits in it, or that was never disturbed so, has      *)
(* saved what was played (setGameState, saveGameState, cleanMapEx,         *)
(* globalSave and shutdown of Game, and the handler).                      *)
THEOREM StateAlwaysKept == StateSpec => StateKept
<1>1. StateInv /\ [StateNext]_stateVars =>
        [exclusive /\ gameState = "shutdown" => gameState' = "shutdown"]_stateVars
  BY ShutdownStep
<1>2. StateInv => StateTypeOK /\ OrdersKept /\ NothingLost /\ ShutdownGoesThrough
  BY StateInvGives DEF StateKeptNow
<1>. QED
  BY <1>1, <1>2, StateStarts, StateStep, PTL DEF StateSpec, StateKept, ShutdownIsFinal
-----------------------------------------------------------------------------
(***************************************************************************)
(* Walking: the events a player waits for.                                 *)
(***************************************************************************)

(* The inductive invariant, of what the functions work on.                 *)
Reasons == {"", "leap", "speed", "ground"}
Ids == EventIds \cup {0}
Waits == [id : EventIds, what : {"walk", "task", "action"}]
Tasks == [id : Ids, what : {"walk", "task", "action", "autoWalk"}]
WalkStates ==
  [walker : [list : 0 .. MaxSteps, eventWalk : Ids, cancelNextWalk : BOOLEAN, fast : BOOLEAN,
             walkTask : BOOLEAN, walkTaskEvent : Ids, actionTaskEvent : Ids,
             stopped : BOOLEAN, stepsSince : Nat, strandedBy : Reasons],
   scheduled : SUBSET Waits, queue : Seq(Tasks)]

(* An id the player knows is that of an event of its kind, if of any: what *)
(* he stops is never another event, although ids are used again.           *)
Apart(e, w) ==
  /\ e.id = w.walker.eventWalk => e.what = "walk"
  /\ e.id = w.walker.walkTaskEvent => e.what = "task"
  /\ e.id = w.walker.actionTaskEvent => e.what = "action"
EventsApart(w) ==
  /\ \A e \in w.scheduled : Apart(e, w)
  /\ \A n \in DOMAIN w.queue : w.queue[n].id # 0 => Apart(w.queue[n], w)

(* The scheduler has none of the tasks that were replaced, and none while  *)
(* the next one waits for the end of the walk.                             *)
Latest(w) == \A e \in w.scheduled :
  /\ e.what = "action" => e.id = w.walker.actionTaskEvent
  /\ e.what = "task" => e.id = w.walker.walkTaskEvent /\ ~w.walker.walkTask

Sane(w) == w \in WalkStates /\ EventsApart(w) /\ Latest(w)

WalkComes(w) ==
  w.walker.eventWalk # 0 =>
    \/ \E e \in w.scheduled : e.what = "walk" /\ e.id = w.walker.eventWalk
    \/ \E n \in DOMAIN w.queue : w.queue[n].what = "walk" /\ w.queue[n].id = w.walker.eventWalk

(* Who has steps to go expects an event, or something left him without. *)
Expects(w) ==
  /\ w.walker.list > 0 => w.walker.eventWalk # 0 \/ w.walker.strandedBy # ""
  /\ w.walker.list > 0 /\ w.walker.strandedBy = "speed" => ~w.walker.fast
  /\ w.walker.strandedBy # "" => w.walker.eventWalk = 0

(* Who was told to stop and has steps to go has made none since, and will  *)
(* abort.                                                                  *)
Stopping(w) ==
  w.walker.stopped =>
    /\ w.walker.stepsSince <= 1
    /\ w.walker.list > 0 => w.walker.cancelNextWalk /\ w.walker.stepsSince = 0

Ready(w) == Sane(w) /\ WalkComes(w) /\ Expects(w) /\ Stopping(w)

Walks == Ready(Now)

LEMMA WalksInit == WalkInit => Walks
<1>. SUFFICES ASSUME WalkInit PROVE Walks
  OBVIOUS
<1>1. /\ ~(walker.list > 0) /\ walker.eventWalk = 0 /\ ~walker.stopped
      /\ walker.strandedBy = ""
  <2>1. walker.list = 0 /\ walker.eventWalk = 0
    BY DEF WalkInit
  <2>2. walker.strandedBy = ""
    BY DEF WalkInit
  <2>3. walker.stopped = FALSE
    BY DEF WalkInit
  <2>4. ~(walker.list > 0)
    BY <2>1
  <2>. QED
    BY <2>1, <2>2, <2>3, <2>4
<1>6. scheduled = {} /\ queue = << >>
  BY DEF WalkInit
<1>7. Now.walker = walker /\ Now.scheduled = scheduled /\ Now.queue = queue
  BY DEF Now
<1>2. Now \in WalkStates
  <2>1. walker \in [list : 0 .. MaxSteps, eventWalk : Ids, cancelNextWalk : BOOLEAN,
                    fast : BOOLEAN, walkTask : BOOLEAN, walkTaskEvent : Ids,
                    actionTaskEvent : Ids, stopped : BOOLEAN, stepsSince : Nat,
                    strandedBy : Reasons]
    <3>1. 0 \in 0 .. MaxSteps /\ 0 \in Ids /\ "" \in Reasons
      BY WalkingAssumption DEF Ids, Reasons
    <3>. QED
      BY <3>1 DEF WalkInit
  <2>2. scheduled \in SUBSET Waits
    BY <1>6
  <2>3. queue \in Seq(Tasks)
    BY <1>6
  <2>. QED
    BY <2>1, <2>2, <2>3 DEF Now, WalkStates
<1>3. EventsApart(Now) /\ Latest(Now) /\ WalkComes(Now)
  <2>1. DOMAIN queue = {}
    BY <1>6
  <2>. QED
    BY <1>1, <1>6, <1>7, <2>1 DEF EventsApart, Latest, WalkComes
<1>4. Expects(Now)
  BY <1>1, <1>7 DEF Expects
<1>5. Stopping(Now)
  BY <1>1, <1>7 DEF Stopping
<1>. QED
  BY <1>2, <1>3, <1>4, <1>5 DEF Walks, Ready, Sane
-----------------------------------------------------------------------------
(* The scheduler.                                                          *)

Free(w) == EventIds \ Known(w)

(* The ids that can be had, and that one was taken. *)
One(w) == Free(w) # {}
Two(w) == \E i, j \in Free(w) : i # j
Three(w) == \E i, j, k \in Free(w) : i # j /\ i # k /\ j # k
TakesOne(w, v) == \E id \in Free(w) : Free(w) \ {id} \subseteq Free(v)

LEMMA SpareIs ==
  ASSUME NEW w, NEW v
  PROVE  /\ Three(w) => Two(w)
         /\ Two(w) => One(w)
         /\ TakesOne(w, v) => (Two(w) => One(v)) /\ (Three(w) => Two(v))
         /\ Free(w) \subseteq Free(v) =>
              (One(w) => One(v)) /\ (Two(w) => Two(v)) /\ (Three(w) => Three(v))
<1>1. ASSUME TakesOne(w, v), Two(w) PROVE One(v)
  BY <1>1 DEF One, Two, TakesOne
<1>2. ASSUME TakesOne(w, v), Three(w) PROVE Two(v)
  <2>1. PICK id \in Free(w) : Free(w) \ {id} \subseteq Free(v)
    BY <1>2 DEF TakesOne
  <2>2. PICK i \in Free(w), j \in Free(w), k \in Free(w) : i # j /\ i # k /\ j # k
    BY <1>2 DEF Three
  <2>. QED
    BY <2>1, <2>2 DEF Two
<1>. QED
  BY <1>1, <1>2 DEF One, Two, Three

(* What the player does to himself leaves his events alone. *)
LEMMA PlayerSane ==
  ASSUME NEW w, Sane(w), NEW v, v \in WalkStates,
         v.scheduled = w.scheduled, v.queue = w.queue,
         v.walker.eventWalk = w.walker.eventWalk,
         v.walker.walkTaskEvent = w.walker.walkTaskEvent,
         v.walker.actionTaskEvent = w.walker.actionTaskEvent,
         v.walker.walkTask => w.walker.walkTask
  PROVE  Sane(v) /\ (WalkComes(w) => WalkComes(v)) /\ Free(v) = Free(w)
BY DEF Sane, EventsApart, Apart, Latest, WalkComes, Free, Known

(* Where an event is stopped the player forgets its id. *)
Forgets(w, v, field) ==
  /\ v.walker = [w.walker EXCEPT ![field] = 0]
  /\ v.queue = w.queue
  /\ v.scheduled = {e \in w.scheduled : e.id # w.walker[field]}

LEMMA ZeroIs == 0 \notin EventIds /\ 0 \in Ids /\ EventIds \subseteq Ids
BY WalkingAssumption DEF EventIds, Ids

LEMMA StopIs ==
  ASSUME NEW w, w \in WalkStates,
         NEW field \in {"eventWalk", "walkTaskEvent", "actionTaskEvent"}
  PROVE  LET v == EventStopped(w, field) IN
         /\ v \in WalkStates
         /\ Forgets(w, v, field)
         /\ Free(w) \subseteq Free(v)
<1>. DEFINE v == EventStopped(w, field)
<1>1. /\ v.walker = [w.walker EXCEPT ![field] = 0] /\ v.queue = w.queue
      /\ v.scheduled = {e \in w.scheduled : e.id # w.walker[field]}
  BY DEF EventStopped, WalkStates
<1>2. v \in WalkStates
  BY ZeroIs DEF EventStopped, WalkStates
<1>3. Free(w) \subseteq Free(v)
  BY <1>1, <1>2, ZeroIs DEF Free, Known, WalkStates
<1>. QED
  BY <1>1, <1>2, <1>3 DEF Forgets

LEMMA StopSane ==
  ASSUME NEW w, Sane(w),
         NEW field \in {"eventWalk", "walkTaskEvent", "actionTaskEvent"}
  PROVE  LET v == EventStopped(w, field) IN
         /\ Sane(v)
         /\ WalkComes(w) => WalkComes(v)
         /\ field = "actionTaskEvent" => \A e \in v.scheduled : e.what # "action"
         /\ field = "walkTaskEvent" => \A e \in v.scheduled : e.what # "task"
<1>. DEFINE v == EventStopped(w, field)
<1>1. v \in WalkStates /\ Forgets(w, v, field)
  BY StopIs DEF Sane
<1>. HIDE DEF v
<1>2. \A e \in w.scheduled : e.id # 0 /\ e \in Waits
  BY ZeroIs DEF Sane, WalkStates, Waits
<1>3. CASE field = "eventWalk"
  <2>1. /\ v.walker.eventWalk = 0 /\ v.walker.walkTaskEvent = w.walker.walkTaskEvent
        /\ v.walker.actionTaskEvent = w.walker.actionTaskEvent /\ v.walker.walkTask = w.walker.walkTask
        /\ v.queue = w.queue /\ v.scheduled \subseteq w.scheduled
    BY <1>1, <1>3 DEF Forgets, WalkStates, Sane
  <2>. QED
    BY <1>1, <1>2, <1>3, <2>1 DEF Sane, EventsApart, Apart, Latest, WalkComes, v
<1>4. CASE field = "walkTaskEvent"
  <2>1. /\ v.walker.eventWalk = w.walker.eventWalk /\ v.walker.walkTaskEvent = 0
        /\ v.walker.actionTaskEvent = w.walker.actionTaskEvent /\ v.walker.walkTask = w.walker.walkTask
        /\ v.queue = w.queue /\ v.scheduled = {e \in w.scheduled : e.id # w.walker.walkTaskEvent}
    BY <1>1, <1>4 DEF Forgets, WalkStates, Sane
  <2>2. \A e \in v.scheduled : e.what # "task"
    BY <2>1 DEF Sane, Latest
  <2>3. Sane(v)
    BY <1>1, <1>2, <2>1, <2>2 DEF Sane, EventsApart, Apart, Latest
  <2>4. WalkComes(w) => WalkComes(v)
    BY <2>1 DEF Sane, EventsApart, Apart, WalkComes
  <2>. QED
    BY <1>4, <2>2, <2>3, <2>4 DEF v
<1>5. CASE field = "actionTaskEvent"
  <2>1. /\ v.walker.eventWalk = w.walker.eventWalk /\ v.walker.actionTaskEvent = 0
        /\ v.walker.walkTaskEvent = w.walker.walkTaskEvent /\ v.walker.walkTask = w.walker.walkTask
        /\ v.queue = w.queue /\ v.scheduled = {e \in w.scheduled : e.id # w.walker.actionTaskEvent}
    BY <1>1, <1>5 DEF Forgets, WalkStates, Sane
  <2>2. \A e \in v.scheduled : e.what # "action"
    BY <2>1 DEF Sane, Latest
  <2>3. Sane(v)
    BY <1>1, <1>2, <2>1, <2>2 DEF Sane, EventsApart, Apart, Latest
  <2>4. WalkComes(w) => WalkComes(v)
    BY <2>1 DEF Sane, EventsApart, Apart, WalkComes
  <2>. QED
    BY <1>5, <2>2, <2>3, <2>4 DEF v
<1>. QED
  BY <1>3, <1>4, <1>5

(* A new event has an id that is not in use. *)
Adds(w, v, field, what) == \E id \in Free(w) :
  /\ v.walker = [w.walker EXCEPT ![field] = id]
  /\ v.queue = w.queue
  /\ v.scheduled = w.scheduled \cup {Event(id, what)}
  /\ Free(w) \ {id} \subseteq Free(v)

LEMMA AddIs ==
  ASSUME NEW w, w \in WalkStates, Free(w) # {},
         NEW field \in {"eventWalk", "walkTaskEvent", "actionTaskEvent"},
         NEW what \in {"walk", "task", "action"}
  PROVE  LET v == EventAdded(w, field, what) IN v \in WalkStates /\ Adds(w, v, field, what)
<1>. DEFINE id == CHOOSE i \in EventIds : i \notin Known(w)
<1>. DEFINE v == EventAdded(w, field, what)
<1>1. id \in Free(w) /\ id \in EventIds
  BY DEF Free
<1>2. v = [w EXCEPT !.scheduled = @ \cup {Event(id, what)}, !.walker[field] = id]
  BY DEF EventAdded
<1>. HIDE DEF id, v
<1>3. /\ v.walker = [w.walker EXCEPT ![field] = id]
      /\ v.queue = w.queue
      /\ v.scheduled = w.scheduled \cup {Event(id, what)}
  BY <1>2 DEF WalkStates
<1>4. v \in WalkStates
  <2>1. Event(id, what) \in Waits
    BY <1>1 DEF Event, Waits
  <2>2. [w.walker EXCEPT ![field] = id] \in
          [list : 0 .. MaxSteps, eventWalk : Ids, cancelNextWalk : BOOLEAN, fast : BOOLEAN,
           walkTask : BOOLEAN, walkTaskEvent : Ids, actionTaskEvent : Ids,
           stopped : BOOLEAN, stepsSince : Nat, strandedBy : Reasons]
    BY <1>1, ZeroIs DEF WalkStates
  <2>. QED
    BY <1>2, <1>3, <2>1, <2>2 DEF WalkStates
<1>5. Free(w) \ {id} \subseteq Free(v)
  BY <1>3, <1>4 DEF Free, Known, Event, WalkStates
<1>. QED
  BY <1>1, <1>3, <1>4, <1>5 DEF Adds, v

(* Facts about w that an event of its own kind finds. *)
LEMMA AddSane ==
  ASSUME NEW w, Sane(w), Free(w) # {},
         NEW field, NEW what,
         \/ field = "eventWalk" /\ what = "walk"
         \/ /\ field = "walkTaskEvent" /\ what = "task" /\ ~w.walker.walkTask
            /\ \A e \in w.scheduled : e.what # "task"
         \/ /\ field = "actionTaskEvent" /\ what = "action"
            /\ \A e \in w.scheduled : e.what # "action"
  PROVE  LET v == EventAdded(w, field, what) IN
         /\ Sane(v)
         /\ WalkComes(w) \/ field = "eventWalk" => WalkComes(v)
         /\ field = "eventWalk" => v.walker.eventWalk # 0
<1>. DEFINE v == EventAdded(w, field, what)
<1>1. v \in WalkStates /\ Adds(w, v, field, what)
  BY AddIs DEF Sane
<1>. HIDE DEF v
<1>2. PICK id \in Free(w) :
        /\ v.walker = [w.walker EXCEPT ![field] = id]
        /\ v.queue = w.queue
        /\ v.scheduled = w.scheduled \cup {Event(id, what)}
  BY <1>1 DEF Adds
<1>3. /\ id # 0 /\ Event(id, what).id = id /\ Event(id, what).what = what
      /\ \A e \in w.scheduled : e.id # id
      /\ \A n \in DOMAIN w.queue : w.queue[n].id # id
      /\ id # w.walker.eventWalk /\ id # w.walker.walkTaskEvent /\ id # w.walker.actionTaskEvent
  BY ZeroIs DEF Free, Known, Event, ToSet
<1>4. CASE field = "eventWalk"
  <2>1. /\ v.walker.eventWalk = id /\ v.walker.walkTaskEvent = w.walker.walkTaskEvent
        /\ v.walker.actionTaskEvent = w.walker.actionTaskEvent /\ v.walker.walkTask = w.walker.walkTask
    BY <1>2, <1>4 DEF WalkStates, Sane
  <2>. QED
    BY <1>1, <1>2, <1>3, <1>4, <2>1 DEF Sane, EventsApart, Apart, Latest, WalkComes, v
<1>5. CASE field = "walkTaskEvent"
  <2>1. /\ v.walker.eventWalk = w.walker.eventWalk /\ v.walker.walkTaskEvent = id
        /\ v.walker.actionTaskEvent = w.walker.actionTaskEvent /\ v.walker.walkTask = w.walker.walkTask
    BY <1>2, <1>5 DEF WalkStates, Sane
  <2>. QED
    BY <1>1, <1>2, <1>3, <1>5, <2>1 DEF Sane, EventsApart, Apart, Latest, WalkComes, v
<1>6. CASE field = "actionTaskEvent"
  <2>1. /\ v.walker.eventWalk = w.walker.eventWalk /\ v.walker.walkTaskEvent = w.walker.walkTaskEvent
        /\ v.walker.actionTaskEvent = id /\ v.walker.walkTask = w.walker.walkTask
    BY <1>2, <1>6 DEF WalkStates, Sane
  <2>. QED
    BY <1>1, <1>2, <1>3, <1>6, <2>1 DEF Sane, EventsApart, Apart, Latest, WalkComes, v
<1>. QED
  BY <1>4, <1>5, <1>6
-----------------------------------------------------------------------------
(* Creature and Player.                                                    *)

(* Where he goes and whether he has to stop is not touched. *)
SameCourse(w, v) ==
  /\ v.walker.list = w.walker.list /\ v.walker.fast = w.walker.fast
  /\ v.walker.stopped = w.walker.stopped /\ v.walker.stepsSince = w.walker.stepsSince
  /\ v.walker.cancelNextWalk = w.walker.cancelNextWalk
  /\ v.walker.eventWalk = w.walker.eventWalk
  /\ v.walker.strandedBy = w.walker.strandedBy

Aside(w, v) == Sane(v) /\ SameCourse(w, v) /\ (WalkComes(w) => WalkComes(v))

LEMMA StopAside ==
  ASSUME NEW w, Sane(w), NEW field \in {"walkTaskEvent", "actionTaskEvent"}
  PROVE  LET v == EventStopped(w, field) IN
         Aside(w, v) /\ v.walker.walkTask = w.walker.walkTask
<1>. DEFINE v == EventStopped(w, field)
<1>1. v \in WalkStates /\ Forgets(w, v, field)
  BY StopIs DEF Sane
<1>2. Sane(v) /\ (WalkComes(w) => WalkComes(v))
  BY StopSane
<1>. HIDE DEF v
<1>3. SameCourse(w, v) /\ v.walker.walkTask = w.walker.walkTask
  BY <1>1 DEF Forgets, SameCourse, Sane, WalkStates
<1>. QED
  BY <1>2, <1>3 DEF Aside, v

LEMMA AddAside ==
  ASSUME NEW w, Sane(w), Free(w) # {},
         NEW field, NEW what,
         \/ /\ field = "walkTaskEvent" /\ what = "task" /\ ~w.walker.walkTask
            /\ \A e \in w.scheduled : e.what # "task"
         \/ /\ field = "actionTaskEvent" /\ what = "action"
            /\ \A e \in w.scheduled : e.what # "action"
  PROVE  Aside(w, EventAdded(w, field, what)) /\ TakesOne(w, EventAdded(w, field, what))
<1>. DEFINE v == EventAdded(w, field, what)
<1>1. v \in WalkStates /\ Adds(w, v, field, what)
  BY AddIs DEF Sane
<1>2. Sane(v) /\ (WalkComes(w) => WalkComes(v))
  BY AddSane
<1>. HIDE DEF v
<1>3. SameCourse(w, v)
  BY <1>1 DEF Adds, SameCourse, Sane, WalkStates
<1>4. TakesOne(w, v)
  BY <1>1 DEF Adds, TakesOne
<1>. QED
  BY <1>2, <1>3, <1>4 DEF Aside, v

LEMMA AsideOn ==
  ASSUME NEW w, NEW u, NEW v, Aside(w, u), Aside(u, v)
  PROVE  Aside(w, v)
BY DEF Aside, SameCourse

LEMMA ActionTaskIs ==
  ASSUME NEW w, Sane(w), NEW task \in BOOLEAN, task => Free(w) # {}
  PROVE  /\ Aside(w, SetNextActionTask(w, task))
         /\ ~task => Free(w) \subseteq Free(SetNextActionTask(w, task))
<1>. DEFINE u == EventStopped(w, "actionTaskEvent")
<1>1. Aside(w, u) /\ Free(w) \subseteq Free(u) /\ \A e \in u.scheduled : e.what # "action"
  BY StopAside, StopSane, StopIs DEF Sane
<1>2. SetNextActionTask(w, task) = IF task THEN EventAdded(u, "actionTaskEvent", "action") ELSE u
  BY DEF SetNextActionTask
<1>. HIDE DEF u
<1>3. CASE task
  <2>1. Aside(u, EventAdded(u, "actionTaskEvent", "action"))
    BY <1>1, <1>3, AddAside DEF Aside
  <2>. QED
    BY <1>1, <1>2, <1>3, <2>1, AsideOn
<1>. QED
  BY <1>1, <1>2, <1>3

LEMMA WalkTaskIs ==
  ASSUME NEW w, Sane(w), NEW task \in BOOLEAN
  PROVE  /\ Aside(w, SetNextWalkActionTask(w, task))
         /\ Free(w) \subseteq Free(SetNextWalkActionTask(w, task))
<1>. DEFINE u == EventStopped(w, "walkTaskEvent")
<1>. DEFINE v == [u EXCEPT !.walker.walkTask = task]
<1>1. Aside(w, u) /\ Free(w) \subseteq Free(u) /\ \A e \in u.scheduled : e.what # "task"
  BY StopAside, StopSane, StopIs DEF Sane
<1>2. SetNextWalkActionTask(w, task) = v
  BY DEF SetNextWalkActionTask
<1>. HIDE DEF u
<1>3. /\ v \in WalkStates /\ v.queue = u.queue /\ v.scheduled = u.scheduled
      /\ v.walker = [u.walker EXCEPT !.walkTask = task]
  BY <1>1 DEF Aside, Sane, WalkStates
<1>. HIDE DEF v
<1>4. /\ SameCourse(u, v) /\ v.walker.walkTaskEvent = u.walker.walkTaskEvent
      /\ v.walker.actionTaskEvent = u.walker.actionTaskEvent
  BY <1>1, <1>3 DEF SameCourse, Aside, Sane, WalkStates
<1>5. Sane(v) /\ (WalkComes(u) => WalkComes(v)) /\ Free(v) = Free(u)
  BY <1>1, <1>3, <1>4 DEF Aside, SameCourse, Sane, EventsApart, Apart, Latest, WalkComes, Free, Known
<1>6. Aside(u, v)
  BY <1>4, <1>5 DEF Aside
<1>. QED
  BY <1>1, <1>2, <1>5, <1>6, AsideOn

LEMMA OnWalkCompleteIs ==
  ASSUME NEW w, Sane(w), Free(w) # {}
  PROVE  /\ Aside(w, OnWalkComplete(w))
         /\ TakesOne(w, OnWalkComplete(w))
<1>. DEFINE u == [w EXCEPT !.walker.walkTask = FALSE]
<1>1. CASE ~w.walker.walkTask
  BY <1>1 DEF OnWalkComplete, Aside, SameCourse, TakesOne
<1>2. CASE w.walker.walkTask
  <2>1. OnWalkComplete(w) = EventAdded(u, "walkTaskEvent", "task")
    BY <1>2 DEF OnWalkComplete
  <2>2. /\ u \in WalkStates /\ u.queue = w.queue /\ u.scheduled = w.scheduled
        /\ u.walker = [w.walker EXCEPT !.walkTask = FALSE]
    BY DEF Sane, WalkStates
  <2>. HIDE DEF u
  <2>3. /\ SameCourse(w, u) /\ u.walker.walkTaskEvent = w.walker.walkTaskEvent
        /\ u.walker.actionTaskEvent = w.walker.actionTaskEvent /\ u.walker.walkTask = FALSE
    BY <2>2 DEF SameCourse, Sane, WalkStates
  <2>4. Sane(u) /\ (WalkComes(w) => WalkComes(u)) /\ Free(u) = Free(w)
    BY <2>2, <2>3, PlayerSane DEF SameCourse
  <2>5. \A e \in u.scheduled : e.what # "task"
    BY <1>2, <2>2 DEF Sane, Latest
  <2>6. /\ Aside(u, EventAdded(u, "walkTaskEvent", "task"))
        /\ TakesOne(u, EventAdded(u, "walkTaskEvent", "task"))
    BY <2>3, <2>4, <2>5, AddAside
  <2>7. TakesOne(w, EventAdded(u, "walkTaskEvent", "task"))
    BY <2>4, <2>6 DEF TakesOne
  <2>. QED
    BY <2>1, <2>3, <2>4, <2>6, <2>7, AsideOn DEF Aside
<1>. QED
  BY <1>1, <1>2 DEF Sane, WalkStates


LEMMA StopEventWalkIs ==
  ASSUME NEW w, Sane(w), NEW why \in {"", "leap", "speed"}
  PROVE  LET v == StopEventWalk(w, why) IN
         /\ Sane(v) /\ v.walker.eventWalk = 0
         /\ v.walker.list = w.walker.list /\ v.walker.fast = w.walker.fast
         /\ v.walker.stopped = w.walker.stopped /\ v.walker.stepsSince = w.walker.stepsSince
         /\ v.walker.cancelNextWalk = w.walker.cancelNextWalk
         /\ v.walker.strandedBy = IF w.walker.eventWalk = 0 THEN w.walker.strandedBy ELSE why
         /\ Free(w) \subseteq Free(v)
<1>1. CASE w.walker.eventWalk = 0
  BY <1>1 DEF StopEventWalk
<1>2. CASE w.walker.eventWalk # 0
  <2>. DEFINE u == EventStopped(w, "eventWalk")
  <2>. DEFINE v == [u EXCEPT !.walker.strandedBy = why]
  <2>1. u \in WalkStates /\ Forgets(w, u, "eventWalk") /\ Free(w) \subseteq Free(u) /\ Sane(u)
    BY StopIs, StopSane DEF Sane
  <2>2. StopEventWalk(w, why) = v
    BY <1>2 DEF StopEventWalk
  <2>. HIDE DEF u
  <2>3. /\ v \in WalkStates /\ v.queue = u.queue /\ v.scheduled = u.scheduled
        /\ v.walker = [u.walker EXCEPT !.strandedBy = why]
    BY <2>1 DEF WalkStates, Reasons
  <2>. HIDE DEF v
  <2>4. /\ u.walker.list = w.walker.list /\ u.walker.fast = w.walker.fast
        /\ u.walker.stopped = w.walker.stopped /\ u.walker.stepsSince = w.walker.stepsSince
        /\ u.walker.cancelNextWalk = w.walker.cancelNextWalk /\ u.walker.eventWalk = 0
    BY <2>1 DEF Forgets, Sane, WalkStates
  <2>5. /\ v.walker.list = u.walker.list /\ v.walker.fast = u.walker.fast
        /\ v.walker.stopped = u.walker.stopped /\ v.walker.stepsSince = u.walker.stepsSince
        /\ v.walker.cancelNextWalk = u.walker.cancelNextWalk
        /\ v.walker.eventWalk = u.walker.eventWalk /\ v.walker.strandedBy = why
        /\ v.walker.walkTask = u.walker.walkTask
        /\ v.walker.walkTaskEvent = u.walker.walkTaskEvent
        /\ v.walker.actionTaskEvent = u.walker.actionTaskEvent
    BY <2>1, <2>3 DEF WalkStates
  <2>6. Sane(v) /\ Free(v) = Free(u)
    BY <2>1, <2>3, <2>5, PlayerSane
  <2>. QED
    BY <1>2, <2>1, <2>2, <2>4, <2>5, <2>6
<1>. QED
  BY <1>1, <1>2

(* Who leaps has what left him without an event written down. *)
LEMMA LeapIs ==
  ASSUME NEW w, Sane(w), Expects(w)
  PROVE  Expects(StopEventWalk(w, "leap"))
<1>. DEFINE v == StopEventWalk(w, "leap")
<1>1. /\ v.walker.eventWalk = 0 /\ v.walker.list = w.walker.list /\ v.walker.fast = w.walker.fast
      /\ v.walker.strandedBy = IF w.walker.eventWalk = 0 THEN w.walker.strandedBy ELSE "leap"
  BY StopEventWalkIs
<1>. HIDE DEF v
<1>2. CASE w.walker.eventWalk = 0
  <2>1. v.walker.strandedBy = w.walker.strandedBy
    BY <1>1, <1>2
  <2>. QED
    BY <1>1, <1>2, <2>1 DEF Expects, v
<1>3. CASE w.walker.eventWalk # 0
  <2>1. v.walker.strandedBy = "leap"
    BY <1>1, <1>3
  <2>. QED
    BY <1>1, <2>1 DEF Expects, v
<1>. QED
  BY <1>2, <1>3

(* The player stands still, and has to abort. *)
Halted(w, v) ==
  /\ Sane(v) /\ v.walker.eventWalk = 0
  /\ ~v.walker.fast /\ v.walker.cancelNextWalk
  /\ v.walker.list = w.walker.list
  /\ v.walker.stopped = w.walker.stopped /\ v.walker.stepsSince = w.walker.stepsSince
  /\ Expects(w) => Expects(v)
  /\ Free(w) \subseteq Free(v)

LEMMA HaltIs ==
  ASSUME NEW w, Sane(w)
  PROVE  Halted(w, Halt(w))
<1>. DEFINE u == StopEventWalk(w, "speed")
<1>. DEFINE v == [u EXCEPT !.walker.fast = FALSE, !.walker.cancelNextWalk = TRUE]
<1>1. /\ Sane(u) /\ u.walker.eventWalk = 0
      /\ u.walker.list = w.walker.list /\ u.walker.stopped = w.walker.stopped
      /\ u.walker.stepsSince = w.walker.stepsSince /\ Free(w) \subseteq Free(u)
      /\ u.walker.strandedBy = IF w.walker.eventWalk = 0 THEN w.walker.strandedBy ELSE "speed"
  BY StopEventWalkIs
<1>2. Halt(w) = v
  BY DEF Halt
<1>. HIDE DEF u
<1>3. /\ v \in WalkStates /\ v.queue = u.queue /\ v.scheduled = u.scheduled
      /\ v.walker = [u.walker EXCEPT !.fast = FALSE, !.cancelNextWalk = TRUE]
  BY <1>1 DEF Sane, WalkStates
<1>. HIDE DEF v
<1>4. /\ v.walker.eventWalk = u.walker.eventWalk /\ v.walker.walkTask = u.walker.walkTask
      /\ v.walker.walkTaskEvent = u.walker.walkTaskEvent
      /\ v.walker.actionTaskEvent = u.walker.actionTaskEvent
      /\ v.walker.list = u.walker.list /\ v.walker.stopped = u.walker.stopped
      /\ v.walker.stepsSince = u.walker.stepsSince
      /\ v.walker.strandedBy = u.walker.strandedBy
      /\ v.walker.fast = FALSE /\ v.walker.cancelNextWalk = TRUE
  BY <1>1, <1>3 DEF Sane, WalkStates
<1>5. Sane(v) /\ Free(v) = Free(u)
  <2>1. v.walker.walkTask => u.walker.walkTask
    BY <1>4
  <2>2. /\ Sane(u) /\ v \in WalkStates /\ v.scheduled = u.scheduled /\ v.queue = u.queue
        /\ v.walker.eventWalk = u.walker.eventWalk
        /\ v.walker.walkTaskEvent = u.walker.walkTaskEvent
        /\ v.walker.actionTaskEvent = u.walker.actionTaskEvent
    BY <1>1, <1>3, <1>4
  <2>. QED
    BY <2>1, <2>2, PlayerSane
<1>7. ASSUME Expects(w) PROVE Expects(v)
  <2>1. v.walker.eventWalk = 0 /\ v.walker.list = w.walker.list /\ ~v.walker.fast
    BY <1>1, <1>4
  <2>2. CASE w.walker.eventWalk = 0
    <3>1. v.walker.strandedBy = w.walker.strandedBy
      BY <1>1, <1>4, <2>2
    <3>. QED
      BY <1>7, <2>1, <2>2, <3>1 DEF Expects
  <2>3. CASE w.walker.eventWalk # 0
    <3>1. v.walker.strandedBy = "speed"
      BY <1>1, <1>4, <2>3
    <3>. QED
      BY <2>1, <3>1 DEF Expects
  <2>. QED
    BY <2>2, <2>3
<1>. QED
  BY <1>1, <1>2, <1>4, <1>5, <1>7 DEF Halted

LEMMA StopWalkIs ==
  ASSUME NEW w, Ready(w)
  PROVE  Ready(StopWalk(w))
<1>. DEFINE v == [w EXCEPT !.walker.cancelNextWalk = TRUE, !.walker.stopped = TRUE,
                           !.walker.stepsSince = 0]
<1>1. StopWalk(w) = v
  BY DEF StopWalk
<1>2. /\ v \in WalkStates /\ v.scheduled = w.scheduled /\ v.queue = w.queue
      /\ v.walker = [w.walker EXCEPT !.cancelNextWalk = TRUE, !.stopped = TRUE, !.stepsSince = 0]
  BY DEF Ready, Sane, WalkStates
<1>. HIDE DEF v
<1>3. /\ v.walker.eventWalk = w.walker.eventWalk /\ v.walker.walkTask = w.walker.walkTask
      /\ v.walker.walkTaskEvent = w.walker.walkTaskEvent
      /\ v.walker.actionTaskEvent = w.walker.actionTaskEvent
      /\ v.walker.list = w.walker.list /\ v.walker.fast = w.walker.fast
      /\ v.walker.strandedBy = w.walker.strandedBy
      /\ v.walker.cancelNextWalk = TRUE /\ v.walker.stepsSince = 0
  BY <1>2 DEF Ready, Sane, WalkStates
<1>4. Sane(v) /\ WalkComes(v)
  <2>1. v.walker.walkTask => w.walker.walkTask
    BY <1>3
  <2>. QED
    BY <1>2, <1>3, <2>1, PlayerSane DEF Ready
<1>5. Expects(v)
  BY <1>3 DEF Ready, Expects
<1>6. Stopping(v)
  BY <1>3 DEF Stopping
<1>. QED
  BY <1>1, <1>4, <1>5, <1>6 DEF Ready

(* The next event to walk by, where there was none. *)
LEMMA ArmWalkIs ==
  ASSUME NEW w, Sane(w), One(w)
  PROVE  LET v == ArmWalk(w) IN
         /\ Sane(v) /\ WalkComes(v) /\ v.walker.eventWalk # 0 /\ v.walker.strandedBy = ""
         /\ v.walker.list = w.walker.list /\ v.walker.fast = w.walker.fast
         /\ v.walker.stopped = w.walker.stopped /\ v.walker.stepsSince = w.walker.stepsSince
         /\ v.walker.cancelNextWalk = w.walker.cancelNextWalk
         /\ TakesOne(w, v)
<1>. DEFINE u == [w EXCEPT !.walker.strandedBy = ""]
<1>. DEFINE v == EventAdded(u, "eventWalk", "walk")
<1>1. ArmWalk(w) = v
  BY DEF ArmWalk
<1>2. /\ u \in WalkStates /\ u.queue = w.queue /\ u.scheduled = w.scheduled
      /\ u.walker = [w.walker EXCEPT !.strandedBy = ""]
  BY DEF Sane, WalkStates, Reasons
<1>. HIDE DEF u
<1>3. /\ u.walker.list = w.walker.list /\ u.walker.fast = w.walker.fast
      /\ u.walker.stopped = w.walker.stopped /\ u.walker.stepsSince = w.walker.stepsSince
      /\ u.walker.cancelNextWalk = w.walker.cancelNextWalk
      /\ u.walker.eventWalk = w.walker.eventWalk /\ u.walker.strandedBy = ""
      /\ u.walker.walkTask = w.walker.walkTask
      /\ u.walker.walkTaskEvent = w.walker.walkTaskEvent
      /\ u.walker.actionTaskEvent = w.walker.actionTaskEvent
  BY <1>2 DEF Sane, WalkStates
<1>4. Sane(u) /\ Free(u) = Free(w)
  BY <1>2, <1>3, PlayerSane
<1>5. Adds(u, v, "eventWalk", "walk") /\ u \in WalkStates
  BY <1>4, AddIs DEF Sane, One
<1>6. Sane(v) /\ WalkComes(v) /\ v.walker.eventWalk # 0
  BY <1>4, AddSane DEF One
<1>. HIDE DEF v
<1>7. /\ v.walker.list = u.walker.list /\ v.walker.fast = u.walker.fast
      /\ v.walker.stopped = u.walker.stopped /\ v.walker.stepsSince = u.walker.stepsSince
      /\ v.walker.cancelNextWalk = u.walker.cancelNextWalk
      /\ v.walker.strandedBy = u.walker.strandedBy
  BY <1>5 DEF Adds, WalkStates
<1>8. TakesOne(w, v)
  BY <1>4, <1>5 DEF Adds, TakesOne
<1>. QED
  BY <1>1, <1>3, <1>6, <1>7, <1>8

(* What a step leaves of the player, after what else it does. *)
Plotted(w, v) ==
  /\ Sane(v) /\ Expects(v)
  /\ v.walker.stepsSince = w.walker.stepsSince
  /\ v.walker.stopped => w.walker.stopped
  /\ v.walker.stopped /\ v.walker.list > 0 /\ w.walker.cancelNextWalk => v.walker.cancelNextWalk

(* The ids that addEventWalk may ask for. *)
Enough(time, w) == IF time = "now" THEN Two(w) ELSE One(w)

Scripts == {"none", "leap", "halt", "shake"}

LEMMA ShakeIs ==
  ASSUME NEW w, Sane(w), Expects(w), Three(w)
  PROVE  LET v == Scripted(w, "shake") IN
         Plotted(w, v) /\ (Two(v) \/ v.walker.eventWalk = 0)
<1>. DEFINE h == Halt(w)
<1>. DEFINE b == [h EXCEPT !.walker.fast = TRUE]
<1>. DEFINE r == [b EXCEPT !.walker.cancelNextWalk = FALSE, !.walker.stopped = FALSE]
<1>. DEFINE a == ArmWalk(r)
<1>1. Scripted(w, "shake") = IF w.walker.list > 0 THEN a ELSE b
  BY DEF Scripted, Reset
<1>2. Halted(w, h)
  BY HaltIs
<1>. HIDE DEF h
<1>3. /\ b \in WalkStates /\ b.queue = h.queue /\ b.scheduled = h.scheduled
      /\ b.walker = [h.walker EXCEPT !.fast = TRUE]
  BY <1>2 DEF Halted, Sane, WalkStates
<1>. HIDE DEF b
<1>4. /\ b.walker.eventWalk = 0 /\ b.walker.walkTask = h.walker.walkTask
      /\ b.walker.walkTaskEvent = h.walker.walkTaskEvent
      /\ b.walker.actionTaskEvent = h.walker.actionTaskEvent
      /\ b.walker.eventWalk = h.walker.eventWalk
      /\ b.walker.list = w.walker.list /\ b.walker.stopped = w.walker.stopped
      /\ b.walker.stepsSince = w.walker.stepsSince /\ b.walker.cancelNextWalk
  BY <1>2, <1>3 DEF Halted, Sane, WalkStates
<1>5. Sane(b) /\ Free(b) = Free(h)
  <2>1. Sane(h) /\ (b.walker.walkTask => h.walker.walkTask)
    BY <1>2, <1>4 DEF Halted
  <2>. QED
    BY <1>3, <1>4, <2>1, PlayerSane
<1>6. CASE ~(w.walker.list > 0)
  <2>1. Plotted(w, b)
    BY <1>4, <1>5, <1>6 DEF Plotted, Expects
  <2>. QED
    BY <1>1, <1>4, <1>6, <2>1
<1>7. CASE w.walker.list > 0
  <2>1. /\ r \in WalkStates /\ r.queue = b.queue /\ r.scheduled = b.scheduled
        /\ r.walker = [b.walker EXCEPT !.cancelNextWalk = FALSE, !.stopped = FALSE]
    BY <1>5 DEF Sane, WalkStates
  <2>. HIDE DEF r
  <2>2. /\ r.walker.eventWalk = b.walker.eventWalk /\ r.walker.walkTask = b.walker.walkTask
        /\ r.walker.walkTaskEvent = b.walker.walkTaskEvent
        /\ r.walker.actionTaskEvent = b.walker.actionTaskEvent
        /\ r.walker.stepsSince = b.walker.stepsSince /\ r.walker.stopped = FALSE
    BY <1>5, <2>1 DEF Sane, WalkStates
  <2>3. Sane(r) /\ Free(r) = Free(b)
    BY <1>5, <2>1, <2>2, PlayerSane
  <2>4. Three(r) /\ One(r)
    BY <1>2, <1>5, <2>3, SpareIs DEF Halted
  <2>5. /\ Sane(a) /\ a.walker.eventWalk # 0 /\ a.walker.strandedBy = ""
        /\ a.walker.stopped = r.walker.stopped /\ a.walker.stepsSince = r.walker.stepsSince
        /\ TakesOne(r, a)
    BY <2>3, <2>4, ArmWalkIs
  <2>. HIDE DEF a
  <2>6. Two(a)
    BY <2>4, <2>5, SpareIs
  <2>7. Plotted(w, a)
    BY <1>4, <2>2, <2>5 DEF Plotted, Expects
  <2>. QED
    BY <1>1, <1>7, <2>6, <2>7
<1>. QED
  BY <1>6, <1>7

LEMMA ScriptedIs ==
  ASSUME NEW w, Sane(w), Expects(w), NEW script \in Scripts, NEW time,
         Enough(time, w), script = "shake" => Three(w)
  PROVE  LET v == Scripted(w, script) IN
         Plotted(w, v) /\ (Enough(time, v) \/ v.walker.eventWalk = 0)
<1>1. CASE script = "none"
  <2>1. Scripted(w, script) = w
    BY <1>1 DEF Scripted
  <2>. QED
    BY <2>1 DEF Plotted
<1>2. CASE script = "leap"
  <2>. DEFINE v == StopEventWalk(w, "leap")
  <2>1. Scripted(w, script) = v
    BY <1>2 DEF Scripted
  <2>2. /\ Sane(v) /\ v.walker.eventWalk = 0 /\ v.walker.stopped = w.walker.stopped
        /\ v.walker.stepsSince = w.walker.stepsSince
        /\ v.walker.cancelNextWalk = w.walker.cancelNextWalk
    BY StopEventWalkIs
  <2>3. Expects(v)
    BY LeapIs
  <2>. HIDE DEF v
  <2>4. Plotted(w, v)
    BY <2>2, <2>3 DEF Plotted
  <2>. QED
    BY <2>1, <2>2, <2>4
<1>3. CASE script = "halt"
  <2>1. Scripted(w, script) = Halt(w)
    BY <1>3 DEF Scripted
  <2>2. Halted(w, Halt(w))
    BY HaltIs
  <2>. QED
    BY <2>1, <2>2 DEF Halted, Plotted
<1>4. CASE script = "shake"
  <2>1. /\ Plotted(w, Scripted(w, script))
        /\ Two(Scripted(w, script)) \/ Scripted(w, script).walker.eventWalk = 0
    BY <1>4, ShakeIs
  <2>2. Two(Scripted(w, script)) => Enough(time, Scripted(w, script))
    BY SpareIs DEF Enough
  <2>. QED
    BY <2>1, <2>2
<1>. QED
  BY <1>1, <1>2, <1>3, <1>4 DEF Scripts
-----------------------------------------------------------------------------
(* onWalk                                                                  *)

(* A step by itself. *)
Stepped(w, u) ==
  /\ Sane(u) /\ (Expects(w) => Expects(u)) /\ Free(w) \subseteq Free(u)
  /\ u.walker.eventWalk = w.walker.eventWalk
  /\ u.walker.cancelNextWalk = w.walker.cancelNextWalk
  /\ u.walker.stopped = w.walker.stopped
  /\ u.walker.stepsSince = IF w.walker.stopped THEN w.walker.stepsSince + 1 ELSE 0
  /\ w.walker.stepsSince \in Nat

LEMMA WalkStepIs ==
  ASSUME NEW w, Sane(w), w.walker.list # 0, NEW script
  PROVE  \E u : Stepped(w, u) /\ StepOrEnd(w, script) = Scripted(u, script)
<1>. DEFINE s == [w EXCEPT !.walker.list = @ - 1,
                           !.walker.stepsSince = IF w.walker.stopped THEN @ + 1 ELSE 0]
<1>. DEFINE u == SetNextActionTask(s, FALSE)
<1>1. StepOrEnd(w, script) = Scripted(u, script)
  BY DEF StepOrEnd
<1>2. w.walker.list \in 0 .. MaxSteps /\ w.walker.list > 0 /\ w.walker.stepsSince \in Nat
  BY WalkingAssumption DEF Sane, WalkStates
<1>3. /\ s \in WalkStates /\ s.queue = w.queue /\ s.scheduled = w.scheduled
      /\ s.walker = [w.walker EXCEPT !.list = w.walker.list - 1,
                       !.stepsSince = IF w.walker.stopped THEN w.walker.stepsSince + 1 ELSE 0]
  <2>. DEFINE n == w.walker.list - 1
  <2>. DEFINE m == IF w.walker.stopped THEN w.walker.stepsSince + 1 ELSE 0
  <2>1. n \in 0 .. MaxSteps /\ m \in Nat
    BY <1>2, WalkingAssumption
  <2>2. s = [w EXCEPT !.walker.list = n, !.walker.stepsSince = m]
    BY DEF Sane, WalkStates
  <2>. HIDE DEF s, n, m
  <2>3. /\ s \in WalkStates /\ s.queue = w.queue /\ s.scheduled = w.scheduled
        /\ s.walker = [w.walker EXCEPT !.list = n, !.stepsSince = m]
    BY <2>1, <2>2 DEF Sane, WalkStates
  <2>. QED
    BY <2>3 DEF n, m
<1>. HIDE DEF s
<1>4. /\ s.walker.eventWalk = w.walker.eventWalk /\ s.walker.walkTask = w.walker.walkTask
      /\ s.walker.walkTaskEvent = w.walker.walkTaskEvent
      /\ s.walker.actionTaskEvent = w.walker.actionTaskEvent
      /\ s.walker.stopped = w.walker.stopped /\ s.walker.fast = w.walker.fast
      /\ s.walker.cancelNextWalk = w.walker.cancelNextWalk
      /\ s.walker.strandedBy = w.walker.strandedBy
      /\ s.walker.stepsSince = IF w.walker.stopped THEN w.walker.stepsSince + 1 ELSE 0
      /\ s.walker.list = w.walker.list - 1
  BY <1>3 DEF Sane, WalkStates
<1>5. Sane(s) /\ Free(s) = Free(w)
  <2>1. s.walker.walkTask => w.walker.walkTask
    BY <1>4
  <2>. QED
    BY <1>3, <1>4, <2>1, PlayerSane
<1>6. Expects(w) => Expects(s)
  BY <1>2, <1>4 DEF Expects
<1>7. Aside(s, u) /\ Free(s) \subseteq Free(u)
  BY <1>5, ActionTaskIs
<1>. HIDE DEF u
<1>8. Expects(s) => Expects(u)
  BY <1>7 DEF Expects, Aside, SameCourse
<1>9. Stepped(w, u)
  BY <1>2, <1>4, <1>5, <1>6, <1>7, <1>8 DEF Stepped, Aside, SameCourse
<1>. QED
  BY <1>1, <1>9

(* Between the step and the next event: the ids are there, if they will be *)
(* asked for.                                                              *)
Midway(time, w) ==
  /\ Sane(w) /\ Expects(w)
  /\ w.walker.stopped => w.walker.stepsSince <= 1
                         /\ (w.walker.list > 0 => w.walker.cancelNextWalk)
  /\ Enough(time, w) \/ w.walker.eventWalk = 0

LEMMA EndIs ==
  ASSUME NEW w, Sane(w), Stopping(w), One(w), w.walker.list = 0, NEW time, NEW script
  PROVE  Midway(time, StepOrEnd(w, script))
<1>. DEFINE u == OnWalkComplete(w)
<1>. DEFINE v == StopEventWalk(u, "")
<1>0. StepOrEnd(w, script) = v
  BY DEF StepOrEnd
<1>1. Aside(w, u)
  BY OnWalkCompleteIs DEF One
<1>. HIDE DEF u
<1>2. /\ Sane(v) /\ v.walker.eventWalk = 0
      /\ v.walker.list = u.walker.list
      /\ v.walker.stopped = u.walker.stopped /\ v.walker.stepsSince = u.walker.stepsSince
  BY <1>1, StopEventWalkIs DEF Aside
<1>. HIDE DEF v
<1>3. Midway(time, v)
  BY <1>1, <1>2 DEF Midway, Aside, SameCourse, Stopping, Expects
<1>. QED
  BY <1>0, <1>3

LEMMA OneStepIs ==
  ASSUME NEW w, Sane(w), Expects(w), Stopping(w), w.walker.list # 0,
         NEW script \in Scripts, NEW time,
         Enough(time, w), script = "shake" => Three(w)
  PROVE  Midway(time, StepOrEnd(w, script))
<1>1. PICK u : Stepped(w, u) /\ StepOrEnd(w, script) = Scripted(u, script)
  BY WalkStepIs
<1>. DEFINE v == Scripted(u, script)
<1>2. Enough(time, u) /\ (script = "shake" => Three(u))
  BY <1>1, SpareIs DEF Stepped, Enough
<1>3. Plotted(u, v) /\ (Enough(time, v) \/ v.walker.eventWalk = 0)
  BY <1>1, <1>2, ScriptedIs DEF Stepped
<1>. HIDE DEF v
<1>4. u.walker.stopped => u.walker.stepsSince <= 1 /\ u.walker.cancelNextWalk
  <2>. SUFFICES ASSUME u.walker.stopped
                PROVE  u.walker.stepsSince <= 1 /\ u.walker.cancelNextWalk
    OBVIOUS
  <2>1. w.walker.stopped /\ u.walker.stepsSince = w.walker.stepsSince + 1
    BY <1>1 DEF Stepped
  <2>2. w.walker.list > 0
    BY WalkingAssumption DEF Sane, WalkStates
  <2>3. w.walker.cancelNextWalk /\ w.walker.stepsSince = 0
    BY <2>1, <2>2 DEF Stopping
  <2>. QED
    BY <1>1, <2>1, <2>3 DEF Stepped
<1>5. Midway(time, v)
  BY <1>3, <1>4 DEF Plotted, Midway
<1>. QED
  BY <1>1, <1>5 DEF v

(* The step that addEventWalk makes at once. *)
LEMMA AtOnceIs ==
  ASSUME NEW w, Sane(w), Two(w), w.walker.eventWalk = 0, ~w.walker.cancelNextWalk,
         w.walker.stopped => w.walker.stepsSince <= 1 /\ ~(w.walker.list > 0)
  PROVE  LET v == StepOrEnd(w, "none") IN
         /\ Sane(v) /\ One(v) /\ ~v.walker.cancelNextWalk
         /\ v.walker.stopped => v.walker.stepsSince <= 1 /\ ~(v.walker.list > 0)
<1>. DEFINE v == StepOrEnd(w, "none")
<1>1. CASE w.walker.list = 0
  <2>. DEFINE u == OnWalkComplete(w)
  <2>1. Aside(w, u) /\ TakesOne(w, u)
    BY OnWalkCompleteIs, SpareIs DEF One
  <2>2. v = StopEventWalk(u, "")
    BY <1>1 DEF StepOrEnd
  <2>. HIDE DEF u, v
  <2>3. u.walker.eventWalk = 0
    BY <2>1 DEF Aside, SameCourse
  <2>4. v = u
    BY <2>2, <2>3 DEF StopEventWalk
  <2>5. One(v)
    BY <2>1, <2>4, SpareIs
  <2>6. /\ Sane(v) /\ ~v.walker.cancelNextWalk
        /\ v.walker.stopped => v.walker.stepsSince <= 1 /\ ~(v.walker.list > 0)
    BY <2>1, <2>4 DEF Aside, SameCourse
  <2>. QED
    BY <2>5, <2>6 DEF v
<1>2. CASE w.walker.list # 0
  <2>1. PICK u : Stepped(w, u) /\ StepOrEnd(w, "none") = Scripted(u, "none")
    BY <1>2, WalkStepIs
  <2>2. v = u
    BY <2>1 DEF Scripted
  <2>. HIDE DEF v
  <2>3. ~w.walker.stopped
    <3>1. w.walker.list > 0
      BY <1>2, WalkingAssumption DEF Sane, WalkStates
    <3>. QED
      BY <3>1
  <2>4. Sane(v) /\ ~v.walker.cancelNextWalk /\ ~v.walker.stopped
    BY <2>1, <2>2, <2>3 DEF Stepped
  <2>5. One(v)
    BY <2>1, <2>2, SpareIs DEF Stepped
  <2>. QED
    BY <2>4, <2>5 DEF v
<1>. QED
  BY <1>1, <1>2

LEMMA AddEventWalkIs ==
  ASSUME NEW w, Sane(w), WalkComes(w), NEW time \in Times, Enough(time, w),
         w.walker.strandedBy # "" => w.walker.eventWalk = 0,
         w.walker.stopped => w.walker.stepsSince <= 1 /\ ~(w.walker.list > 0)
  PROVE  Ready(AddEventWalk(w, time))
<1>. DEFINE u == [w EXCEPT !.walker.cancelNextWalk = FALSE]
<1>. DEFINE n == [u EXCEPT !.walker.strandedBy = "ground"]
<1>1. /\ u.walker = [w.walker EXCEPT !.cancelNextWalk = FALSE]
      /\ u.queue = w.queue /\ u.scheduled = w.scheduled /\ u \in WalkStates
  BY DEF Sane, WalkStates
<1>2. AddEventWalk(w, time) =
        CASE u.walker.eventWalk # 0 -> u
          [] u.walker.eventWalk = 0 /\ time = "never" -> n
          [] u.walker.eventWalk = 0 /\ time = "now" -> ArmWalk(StepOrEnd(u, "none"))
          [] u.walker.eventWalk = 0 /\ time = "later" -> ArmWalk(u)
  BY DEF AddEventWalk
<1>. HIDE DEF u
<1>3. /\ u.walker.list = w.walker.list /\ u.walker.fast = w.walker.fast
      /\ u.walker.stopped = w.walker.stopped /\ u.walker.stepsSince = w.walker.stepsSince
      /\ u.walker.cancelNextWalk = FALSE /\ u.walker.eventWalk = w.walker.eventWalk
      /\ u.walker.walkTask = w.walker.walkTask
      /\ u.walker.walkTaskEvent = w.walker.walkTaskEvent
      /\ u.walker.actionTaskEvent = w.walker.actionTaskEvent
      /\ u.walker.strandedBy = w.walker.strandedBy
  BY <1>1 DEF Sane, WalkStates
<1>4. Sane(u) /\ WalkComes(u) /\ Free(u) = Free(w)
  BY <1>1, <1>3, PlayerSane
<1>5. Enough(time, u)
  BY <1>4, SpareIs DEF Enough
<1>6. CASE u.walker.eventWalk # 0
  <2>1. AddEventWalk(w, time) = u
    BY <1>2, <1>6
  <2>. QED
    BY <1>3, <1>4, <1>6, <2>1 DEF Ready, Expects, Stopping
<1>7. CASE u.walker.eventWalk = 0 /\ time = "never"
  <2>1. AddEventWalk(w, time) = n
    BY <1>2, <1>7
  <2>2. /\ n \in WalkStates /\ n.queue = u.queue /\ n.scheduled = u.scheduled
        /\ n.walker = [u.walker EXCEPT !.strandedBy = "ground"]
    BY <1>4 DEF Sane, WalkStates, Reasons
  <2>. HIDE DEF n
  <2>3. /\ n.walker.list = u.walker.list /\ n.walker.stopped = u.walker.stopped
        /\ n.walker.stepsSince = u.walker.stepsSince
        /\ n.walker.eventWalk = u.walker.eventWalk
        /\ n.walker.walkTask = u.walker.walkTask
        /\ n.walker.walkTaskEvent = u.walker.walkTaskEvent
        /\ n.walker.actionTaskEvent = u.walker.actionTaskEvent
        /\ n.walker.strandedBy = "ground"
    BY <1>4, <2>2 DEF Sane, WalkStates
  <2>4. Sane(n) /\ WalkComes(n)
    BY <1>4, <2>2, <2>3, PlayerSane
  <2>. QED
    BY <1>3, <1>7, <2>1, <2>3, <2>4 DEF Ready, Expects, Stopping
<1>8. ASSUME NEW s, Sane(s), One(s),
             s.walker.stopped => s.walker.stepsSince <= 1 /\ ~(s.walker.list > 0)
      PROVE  Ready(ArmWalk(s))
  <2>. DEFINE v == ArmWalk(s)
  <2>1. /\ Sane(v) /\ WalkComes(v) /\ v.walker.eventWalk # 0 /\ v.walker.strandedBy = ""
        /\ v.walker.list = s.walker.list /\ v.walker.stopped = s.walker.stopped
        /\ v.walker.stepsSince = s.walker.stepsSince
    BY <1>8, ArmWalkIs
  <2>. HIDE DEF v
  <2>2. Ready(v)
    BY <1>8, <2>1 DEF Ready, Expects, Stopping
  <2>. QED
    BY <2>2 DEF v
<1>9. CASE u.walker.eventWalk = 0 /\ time = "later"
  <2>1. AddEventWalk(w, time) = ArmWalk(u)
    BY <1>2, <1>9
  <2>. QED
    BY <1>3, <1>4, <1>5, <1>8, <1>9, <2>1 DEF Enough
<1>10. CASE u.walker.eventWalk = 0 /\ time = "now"
  <2>. DEFINE s == StepOrEnd(u, "none")
  <2>1. AddEventWalk(w, time) = ArmWalk(s)
    BY <1>2, <1>10
  <2>2. /\ Sane(s) /\ One(s)
        /\ s.walker.stopped => s.walker.stepsSince <= 1 /\ ~(s.walker.list > 0)
    BY <1>3, <1>4, <1>5, <1>10, AtOnceIs DEF Enough
  <2>. HIDE DEF s
  <2>. QED
    BY <1>8, <2>1, <2>2
<1>. QED
  BY <1>6, <1>7, <1>9, <1>10 DEF Times

LEMMA ResumeIs ==
  ASSUME NEW w, Ready(w), NEW time \in Times, Enough(time, w)
  PROVE  Ready(Resume(w, time))
<1>. DEFINE u == [w EXCEPT !.walker.fast = TRUE]
<1>. DEFINE t == [u EXCEPT !.walker.cancelNextWalk = FALSE, !.walker.stopped = FALSE]
<1>1. Resume(w, time) = IF u.walker.list > 0 THEN AddEventWalk(t, time) ELSE u
  BY DEF Resume, Reset
<1>2. /\ u \in WalkStates /\ u.queue = w.queue /\ u.scheduled = w.scheduled
      /\ u.walker = [w.walker EXCEPT !.fast = TRUE]
  BY DEF Ready, Sane, WalkStates
<1>. HIDE DEF u
<1>3. /\ t \in WalkStates /\ t.queue = u.queue /\ t.scheduled = u.scheduled
      /\ t.walker = [u.walker EXCEPT !.cancelNextWalk = FALSE, !.stopped = FALSE]
  BY <1>2 DEF Sane, WalkStates
<1>. HIDE DEF t
<1>4. /\ u.walker.eventWalk = w.walker.eventWalk /\ u.walker.walkTask = w.walker.walkTask
      /\ u.walker.walkTaskEvent = w.walker.walkTaskEvent
      /\ u.walker.actionTaskEvent = w.walker.actionTaskEvent
      /\ u.walker.list = w.walker.list /\ u.walker.stopped = w.walker.stopped
      /\ u.walker.stepsSince = w.walker.stepsSince
      /\ u.walker.strandedBy = w.walker.strandedBy
      /\ u.walker.cancelNextWalk = w.walker.cancelNextWalk
  BY <1>2 DEF Ready, Sane, WalkStates
<1>5. /\ t.walker.eventWalk = u.walker.eventWalk /\ t.walker.walkTask = u.walker.walkTask
      /\ t.walker.walkTaskEvent = u.walker.walkTaskEvent
      /\ t.walker.actionTaskEvent = u.walker.actionTaskEvent
      /\ t.walker.stopped = FALSE /\ t.walker.strandedBy = u.walker.strandedBy
  BY <1>2, <1>3 DEF WalkStates
<1>6. Sane(u) /\ WalkComes(u) /\ Free(u) = Free(w)
  BY <1>2, <1>4, PlayerSane DEF Ready
<1>7. Sane(t) /\ WalkComes(t) /\ Free(t) = Free(u)
  BY <1>3, <1>5, <1>6, PlayerSane
<1>8. CASE u.walker.list > 0
  <2>1. Enough(time, t)
    BY <1>6, <1>7, SpareIs DEF Enough
  <2>2. t.walker.strandedBy # "" => t.walker.eventWalk = 0
    BY <1>4, <1>5 DEF Ready, Expects
  <2>3. Ready(AddEventWalk(t, time))
    BY <1>5, <1>7, <2>1, <2>2, AddEventWalkIs
  <2>. QED
    BY <1>1, <1>8, <2>3
<1>9. CASE ~(u.walker.list > 0)
  <2>1. Resume(w, time) = u
    BY <1>1, <1>9
  <2>2. Expects(u) /\ Stopping(u)
    BY <1>4, <1>9 DEF Ready, Expects, Stopping
  <2>. QED
    BY <1>6, <2>1, <2>2 DEF Ready
<1>. QED
  BY <1>8, <1>9

(* Who had to abort goes nowhere. *)
LEMMA AbortedIs ==
  ASSUME NEW w, NEW time, Midway(time, w)
  PROVE  LET v == Aborted(w) IN
         /\ Sane(v) /\ Expects(v)
         /\ v.walker.stopped => v.walker.stepsSince <= 1 /\ ~(v.walker.list > 0)
         /\ Enough(time, v) \/ v.walker.eventWalk = 0
<1>. DEFINE u == [w EXCEPT !.walker.cancelNextWalk = FALSE, !.walker.list = 0]
<1>. DEFINE v == OnWalkAborted(u)
<1>1. CASE ~w.walker.cancelNextWalk
  BY <1>1 DEF Aborted, Midway
<1>2. CASE w.walker.cancelNextWalk
  <2>1. Aborted(w) = v
    BY <1>2 DEF Aborted
  <2>2. /\ u \in WalkStates /\ u.queue = w.queue /\ u.scheduled = w.scheduled
        /\ u.walker = [w.walker EXCEPT !.cancelNextWalk = FALSE, !.list = 0]
    <3>1. Sane(w) /\ 0 \in 0 .. MaxSteps
      BY WalkingAssumption DEF Midway
    <3>. QED
      BY <3>1 DEF Sane, WalkStates
  <2>. HIDE DEF u
  <2>3. /\ u.walker.eventWalk = w.walker.eventWalk /\ u.walker.walkTask = w.walker.walkTask
        /\ u.walker.walkTaskEvent = w.walker.walkTaskEvent
        /\ u.walker.actionTaskEvent = w.walker.actionTaskEvent
        /\ u.walker.list = 0 /\ u.walker.stopped = w.walker.stopped
        /\ u.walker.stepsSince = w.walker.stepsSince
        /\ u.walker.strandedBy = w.walker.strandedBy
    BY <2>2 DEF Midway, Sane, WalkStates
  <2>4. Sane(u) /\ Free(u) = Free(w)
    <3>1. Sane(w) /\ (u.walker.walkTask => w.walker.walkTask)
      BY <2>3 DEF Midway
    <3>. QED
      BY <2>2, <2>3, <3>1, PlayerSane
  <2>5. Aside(u, v) /\ Free(u) \subseteq Free(v)
    BY <2>4, WalkTaskIs DEF OnWalkAborted
  <2>. HIDE DEF v
  <2>6. /\ v.walker.list = 0 /\ v.walker.stopped = w.walker.stopped
        /\ v.walker.stepsSince = w.walker.stepsSince /\ v.walker.eventWalk = w.walker.eventWalk
        /\ v.walker.strandedBy = w.walker.strandedBy
    BY <2>3, <2>5 DEF Aside, SameCourse
  <2>7. Enough(time, w) => Enough(time, v)
    BY <2>4, <2>5, SpareIs DEF Enough
  <2>8. Sane(v) /\ ~(v.walker.list > 0) /\ (v.walker.stopped => v.walker.stepsSince <= 1)
    BY <2>5, <2>6 DEF Aside, Midway
  <2>9. Expects(v)
    BY <2>6, <2>8 DEF Midway, Expects
  <2>10. Enough(time, v) \/ v.walker.eventWalk = 0
    BY <2>6, <2>7 DEF Midway
  <2>. QED
    BY <2>1, <2>8, <2>9, <2>10
<1>. QED
  BY <1>1, <1>2

LEMMA GoesOnIs ==
  ASSUME NEW w, NEW time \in Times, Midway(time, w)
  PROVE  Ready(GoesOn(w, time))
<1>. DEFINE v == Aborted(w)
<1>. DEFINE t == [v EXCEPT !.walker.eventWalk = 0]
<1>1. /\ Sane(v) /\ Expects(v)
      /\ v.walker.stopped => v.walker.stepsSince <= 1 /\ ~(v.walker.list > 0)
      /\ Enough(time, v) \/ v.walker.eventWalk = 0
  BY AbortedIs
<1>2. GoesOn(w, time) = IF v.walker.eventWalk # 0 THEN AddEventWalk(t, time) ELSE v
  BY DEF GoesOn
<1>. HIDE DEF v
<1>3. CASE v.walker.eventWalk = 0
  BY <1>1, <1>2, <1>3 DEF Ready, WalkComes, Stopping
<1>4. CASE v.walker.eventWalk # 0
  <2>1. /\ t \in WalkStates /\ t.queue = v.queue /\ t.scheduled = v.scheduled
        /\ t.walker = [v.walker EXCEPT !.eventWalk = 0]
    BY <1>1, ZeroIs DEF Sane, WalkStates
  <2>. HIDE DEF t
  <2>2. /\ t.walker.eventWalk = 0 /\ t.walker.walkTask = v.walker.walkTask
        /\ t.walker.walkTaskEvent = v.walker.walkTaskEvent
        /\ t.walker.actionTaskEvent = v.walker.actionTaskEvent
        /\ t.walker.list = v.walker.list /\ t.walker.stopped = v.walker.stopped
        /\ t.walker.stepsSince = v.walker.stepsSince
    BY <1>1, <2>1 DEF Sane, WalkStates
  <2>3. Free(v) \subseteq Free(t)
    BY <2>1, <2>2, ZeroIs DEF Free, Known
  <2>4. Sane(t)
    <3>1. \A e \in v.scheduled : e.id # 0
      BY <1>1, ZeroIs DEF Sane, WalkStates, Waits
    <3>. QED
      BY <1>1, <2>1, <2>2, <3>1 DEF Sane, EventsApart, Apart, Latest
  <2>5. WalkComes(t)
    BY <2>2 DEF WalkComes
  <2>6. Enough(time, t)
    BY <1>1, <1>4, <2>3, SpareIs DEF Enough
  <2>7. Ready(AddEventWalk(t, time))
    BY <1>1, <2>2, <2>4, <2>5, <2>6, AddEventWalkIs
  <2>. QED
    BY <1>2, <1>4, <2>7
<1>. QED
  BY <1>3, <1>4

LEMMA OnWalkIs ==
  ASSUME NEW w, Sane(w), Expects(w), Stopping(w),
         NEW how \in {"wait"} \cup Scripts, NEW time \in Times,
         Enough(time, w), how = "shake" => Three(w)
  PROVE  Ready(OnWalk(w, how, time))
<1>1. CASE how = "wait"
  <2>1. Midway(time, w)
    BY DEF Midway, Stopping
  <2>. QED
    BY <1>1, <2>1, GoesOnIs DEF OnWalk
<1>2. CASE how # "wait" /\ w.walker.list = 0
  <2>1. Midway(time, StepOrEnd(w, how))
    BY <1>2, EndIs, SpareIs DEF Enough
  <2>. QED
    BY <1>2, <2>1, GoesOnIs DEF OnWalk
<1>3. CASE how # "wait" /\ w.walker.list # 0
  <2>1. Midway(time, StepOrEnd(w, how))
    BY <1>3, OneStepIs
  <2>. QED
    BY <1>3, <2>1, GoesOnIs DEF OnWalk
<1>. QED
  BY <1>1, <1>2, <1>3
-----------------------------------------------------------------------------
(* The steps.                                                              *)

LEMMA NowIs ==
  /\ Now.walker = walker /\ Now.scheduled = scheduled /\ Now.queue = queue
  /\ Walks <=> Ready(Now)
BY DEF Now, Walks, Ready

LEMMA BecomesReady ==
  ASSUME NEW w, Ready(w), w \in WalkStates, WalkBecomes(w)
  PROVE  Walks'
<1>1. Now' = w
  BY DEF Now, WalkBecomes, WalkStates
<1>2. Ready(Now)' <=> Ready(Now')
  BY DEF Ready, Sane, WalkComes, Expects, Stopping, EventsApart, Latest, Apart
<1>. QED
  BY <1>1, NowIs DEF Walks, Ready

(* What is expected of him is told by the player himself. *)
LEMMA SameWalker ==
  ASSUME NEW w, NEW v, v.walker = w.walker
  PROVE  (Expects(w) => Expects(v)) /\ (Stopping(w) => Stopping(v))
<1>1. Expects(w) => Expects(v)
  <2>1. /\ v.walker.list = w.walker.list /\ v.walker.fast = w.walker.fast
        /\ v.walker.eventWalk = w.walker.eventWalk
        /\ v.walker.strandedBy = w.walker.strandedBy
    OBVIOUS
  <2>. QED
    BY ONLY <2>1 DEF Expects
<1>2. Stopping(w) => Stopping(v)
  BY Zenon DEF Stopping
<1>. QED
  BY <1>1, <1>2

(* The task that is run is taken out of the queue. *)
LEMMA PoppedIs ==
  ASSUME Walks, NEW what, Taken(what)
  PROVE  /\ Sane(Popped) /\ Expects(Popped) /\ Stopping(Popped)
         /\ Popped.walker = walker /\ Free(Now) \subseteq Free(Popped)
         /\ "walk" \notin what => WalkComes(Popped)
<1>1. queue \in Seq(Tasks) /\ queue # <<>> /\ Head(queue).what \in what
  BY NowIs DEF Taken, Walks, Ready, Sane, WalkStates
<1>2. /\ Tail(queue) \in Seq(Tasks)
      /\ \A n \in DOMAIN Tail(queue) : n + 1 \in DOMAIN queue /\ Tail(queue)[n] = queue[n + 1]
      /\ \A n \in DOMAIN queue : n = 1 \/ (n - 1 \in DOMAIN Tail(queue)
                                           /\ queue[n] = Tail(queue)[n - 1])
      /\ queue[1] = Head(queue)
  BY <1>1
<1>3. /\ Popped.walker = walker /\ Popped.scheduled = scheduled /\ Popped.queue = Tail(queue)
      /\ Popped \in WalkStates
  BY <1>2, NowIs DEF Popped, Now, Walks, Ready, Sane, WalkStates
<1>4. Sane(Popped)
  BY <1>2, <1>3, NowIs DEF Walks, Ready, Sane, EventsApart, Apart, Latest
<1>5. Expects(Popped) /\ Stopping(Popped)
  <2>1. Popped.walker = Now.walker /\ Expects(Now) /\ Stopping(Now)
    BY <1>3, NowIs DEF Walks, Ready
  <2>. QED
    BY <2>1, SameWalker
<1>6. Free(Now) \subseteq Free(Popped)
  BY <1>2, <1>3, NowIs DEF Free, Known, ToSet
<1>7. ASSUME "walk" \notin what PROVE WalkComes(Popped)
  <2>. SUFFICES ASSUME walker.eventWalk # 0,
                       ~\E e \in scheduled : e.what = "walk" /\ e.id = walker.eventWalk
                PROVE  \E n \in DOMAIN Tail(queue) : /\ Tail(queue)[n].what = "walk"
                                                      /\ Tail(queue)[n].id = walker.eventWalk
    BY <1>3 DEF WalkComes
  <2>1. PICK n \in DOMAIN queue : queue[n].what = "walk" /\ queue[n].id = walker.eventWalk
    BY NowIs DEF Walks, Ready, WalkComes
  <2>2. n # 1
    BY <1>1, <1>2, <1>7, <2>1
  <2>. QED
    BY <1>2, <2>1, <2>2
<1>. QED
  BY <1>3, <1>4, <1>5, <1>6, <1>7

LEMMA RoomIs ==
  /\ Room(1) => One(Now)
  /\ Room(2) => Two(Now)
  /\ Room(3) => Three(Now)
<1>. DEFINE F == Free(Now)
<1>1. IsFiniteSet(F) /\ \A n : Room(n) <=> Cardinality(F) >= n
  <2>1. IsFiniteSet(1 .. MaxEvents)
    BY WalkingAssumption, FS_Interval
  <2>. QED
    BY <2>1, FS_Subset DEF EventIds, Free, Room
<1>2. Cardinality(F) \in Nat
  BY <1>1, FS_CardinalityType
<1>. HIDE DEF F
<1>3. ASSUME Room(1) PROVE F # {}
  BY <1>1, <1>2, <1>3, FS_EmptySet
<1>4. ASSUME Room(2) PROVE \E i, j \in F : i # j
  <2>1. PICK i \in F : TRUE
    BY <1>1, <1>2, <1>4, FS_EmptySet
  <2>2. IsFiniteSet(F \ {i}) /\ Cardinality(F \ {i}) = Cardinality(F) - 1
    BY <1>1, FS_RemoveElement
  <2>3. F \ {i} # {}
    BY <1>1, <1>2, <1>4, <2>2, FS_EmptySet
  <2>. QED
    BY <2>3
<1>5. ASSUME Room(3) PROVE \E i, j, k \in F : i # j /\ i # k /\ j # k
  <2>1. PICK i \in F : TRUE
    BY <1>1, <1>2, <1>5, FS_EmptySet
  <2>2. IsFiniteSet(F \ {i}) /\ Cardinality(F \ {i}) = Cardinality(F) - 1
    BY <1>1, FS_RemoveElement
  <2>3. PICK j \in F \ {i} : TRUE
    BY <1>1, <1>2, <1>5, <2>2, FS_EmptySet
  <2>4. /\ IsFiniteSet((F \ {i}) \ {j})
        /\ Cardinality((F \ {i}) \ {j}) = Cardinality(F \ {i}) - 1
    BY <2>2, FS_RemoveElement
  <2>5. (F \ {i}) \ {j} # {}
    BY <1>1, <1>2, <1>5, <2>2, <2>4, FS_EmptySet
  <2>. QED
    BY <2>5
<1>. QED
  BY <1>3, <1>4, <1>5 DEF F, One, Two, Three

(* There are as many as addEventWalk may ask for. *)
LEMMA RoomForIs == ASSUME NEW time, RoomFor(time) PROVE Enough(time, Now) /\ One(Now)
<1>1. CASE time = "now"
  BY <1>1, RoomIs, SpareIs DEF RoomFor, Enough
<1>2. CASE time # "now"
  BY <1>2, RoomIs DEF RoomFor, Enough
<1>. QED
  BY <1>1, <1>2

LEMMA SpareFollows ==
  ASSUME NEW w, Free(Now) \subseteq Free(w), NEW time
  PROVE  /\ Enough(time, Now) => Enough(time, w)
         /\ One(Now) => One(w)
         /\ Three(Now) => Three(w)
BY SpareIs DEF Enough

LEMMA UseIs ==
  ASSUME NEW w, Ready(w), One(w), NEW how \in {"far", "early", "done"}
  PROVE  Ready(Use(w, how))
<1>1. ASSUME NEW v, Aside(w, v) PROVE Ready(v)
  BY <1>1 DEF Ready, Aside, SameCourse, Expects, Stopping
<1>2. CASE how = "early"
  <2>1. Use(w, how) = SetNextActionTask(w, TRUE)
    BY <1>2 DEF Use
  <2>2. Aside(w, SetNextActionTask(w, TRUE))
    BY ActionTaskIs DEF Ready, One
  <2>. QED
    BY <1>1, <2>1, <2>2
<1>4. CASE how = "done"
  <2>1. Use(w, how) = StopWalk(SetNextActionTask(w, FALSE))
    BY <1>4 DEF Use
  <2>2. Ready(SetNextActionTask(w, FALSE))
    BY <1>1, ActionTaskIs DEF Ready
  <2>. QED
    BY <2>1, <2>2, StopWalkIs
<1>3. CASE how = "far"
  <2>. DEFINE e == Event(0, "autoWalk")
  <2>. DEFINE u == [w EXCEPT !.queue = Append(w.queue, e)]
  <2>1. Use(w, how) = SetNextWalkActionTask(u, TRUE)
    BY <1>3 DEF Use
  <2>2. e \in Tasks /\ e.id = 0 /\ e.what = "autoWalk"
    BY ZeroIs DEF Event, Tasks
  <2>3. w \in WalkStates /\ w.queue \in Seq(Tasks)
    BY DEF Ready, Sane, WalkStates
  <2>. HIDE DEF e
  <2>4. /\ u \in WalkStates /\ u.walker = w.walker /\ u.scheduled = w.scheduled
        /\ u.queue = Append(w.queue, e)
    <3>1. Append(w.queue, e) \in Seq(Tasks)
      BY <2>2, <2>3
    <3>. QED
      BY <2>3, <3>1 DEF WalkStates
  <2>5. /\ \A n \in DOMAIN u.queue : u.queue[n] = e \/ (n \in DOMAIN w.queue /\ u.queue[n] = w.queue[n])
        /\ \A n \in DOMAIN w.queue : n \in DOMAIN u.queue /\ u.queue[n] = w.queue[n]
    BY <2>2, <2>3, <2>4
  <2>. HIDE DEF u
  <2>6. Sane(u)
    BY <2>2, <2>4, <2>5 DEF Ready, Sane, EventsApart, Apart, Latest
  <2>7. WalkComes(u)
    BY <2>4, <2>5 DEF Ready, WalkComes
  <2>8. Aside(w, u)
    BY <2>4, <2>6, <2>7 DEF Aside, SameCourse
  <2>9. Aside(u, SetNextWalkActionTask(u, TRUE))
    BY <2>6, WalkTaskIs
  <2>. QED
    BY <1>1, <2>1, <2>8, <2>9, AsideOn
<1>. QED
  BY <1>2, <1>3, <1>4

LEMMA StartAutoWalkIs ==
  ASSUME NEW w, Ready(w), NEW n \in 1 .. MaxSteps, NEW time \in Times, Enough(time, w)
  PROVE  Ready(StartAutoWalk(w, n, time))
<1>. DEFINE u == [w EXCEPT !.walker.list = n, !.walker.stopped = FALSE]
<1>1. /\ u \in WalkStates /\ u.queue = w.queue /\ u.scheduled = w.scheduled
      /\ u.walker = [w.walker EXCEPT !.list = n, !.stopped = FALSE]
  <2>1. n \in 0 .. MaxSteps
    BY WalkingAssumption
  <2>. QED
    BY <2>1 DEF Ready, Sane, WalkStates
<1>2. StartAutoWalk(w, n, time) = AddEventWalk(u, time)
  BY DEF StartAutoWalk
<1>. HIDE DEF u
<1>3. /\ u.walker.eventWalk = w.walker.eventWalk /\ u.walker.walkTask = w.walker.walkTask
      /\ u.walker.walkTaskEvent = w.walker.walkTaskEvent
      /\ u.walker.actionTaskEvent = w.walker.actionTaskEvent
      /\ u.walker.strandedBy = w.walker.strandedBy
  BY <1>1 DEF Ready, Sane, WalkStates
<1>4. ~u.walker.stopped
  BY <1>1 DEF Ready, Sane, WalkStates
<1>5. Sane(u) /\ WalkComes(u) /\ Free(u) = Free(w)
  <2>1. u.walker.walkTask => w.walker.walkTask
    BY <1>3
  <2>. QED
    BY <1>1, <1>3, <2>1, PlayerSane DEF Ready
<1>6. Enough(time, u)
  BY <1>5, SpareIs DEF Enough
<1>7. u.walker.strandedBy # "" => u.walker.eventWalk = 0
  BY <1>3 DEF Ready, Expects
<1>. QED
  BY <1>2, <1>4, <1>5, <1>6, <1>7, AddEventWalkIs

LEMMA PassEventStep ==
  ASSUME Walks, PassEvent
  PROVE  Walks'
<1>1. PICK e \in scheduled : /\ scheduled' = scheduled \ {e}
                             /\ queue' = Append(queue, e) /\ walker' = walker
  BY DEF PassEvent
<1>2. /\ queue \in Seq(Tasks) /\ scheduled \in SUBSET Waits /\ Now \in WalkStates
      /\ EventsApart(Now) /\ Latest(Now)
  BY NowIs DEF Walks, Ready, Sane, WalkStates
<1>3. e \in Tasks /\ e \in Waits
  BY <1>2, ZeroIs DEF Waits, Tasks
<1>. DEFINE w == [walker |-> walker, scheduled |-> scheduled \ {e}, queue |-> Append(queue, e)]
<1>4. /\ w.walker = walker /\ w.scheduled = scheduled \ {e} /\ w.queue = Append(queue, e)
      /\ w \in WalkStates
  <2>1. Append(queue, e) \in Seq(Tasks)
    BY <1>2, <1>3
  <2>. QED
    BY <1>2, <2>1, NowIs DEF WalkStates
<1>5. WalkBecomes(w)
  BY <1>1, <1>4 DEF WalkBecomes
<1>. HIDE DEF w
<1>6. /\ \A n \in DOMAIN w.queue : w.queue[n] = e \/ (n \in DOMAIN queue /\ w.queue[n] = queue[n])
      /\ \A n \in DOMAIN queue : n \in DOMAIN w.queue /\ w.queue[n] = queue[n]
      /\ \E n \in DOMAIN w.queue : w.queue[n] = e
  <2>1. Len(queue) + 1 \in DOMAIN Append(queue, e) /\ Append(queue, e)[Len(queue) + 1] = e
    BY <1>2, <1>3
  <2>. QED
    BY <1>2, <1>3, <1>4, <2>1
<1>7. Sane(w)
  <2>1. EventsApart(w)
    BY <1>2, <1>4, <1>6, NowIs DEF EventsApart, Apart
  <2>2. Latest(w)
    BY <1>2, <1>4, NowIs DEF Latest
  <2>. QED
    BY <1>4, <2>1, <2>2 DEF Sane
<1>8. WalkComes(w)
  <2>. SUFFICES ASSUME walker.eventWalk # 0
                PROVE  \/ \E d \in w.scheduled : d.what = "walk" /\ d.id = walker.eventWalk
                       \/ \E n \in DOMAIN w.queue : /\ w.queue[n].what = "walk"
                                                   /\ w.queue[n].id = walker.eventWalk
    BY <1>4 DEF WalkComes
  <2>1. CASE \E d \in scheduled : d.what = "walk" /\ d.id = walker.eventWalk
    BY <1>4, <1>6, <2>1
  <2>2. CASE \E n \in DOMAIN queue : queue[n].what = "walk" /\ queue[n].id = walker.eventWalk
    BY <1>6, <2>2
  <2>. QED
    BY <2>1, <2>2, NowIs DEF Walks, Ready, WalkComes
<1>9. Expects(w) /\ Stopping(w)
  <2>1. w.walker = Now.walker /\ Expects(Now) /\ Stopping(Now)
    BY <1>4, NowIs DEF Walks, Ready
  <2>. QED
    BY <2>1, SameWalker
<1>. QED
  BY <1>4, <1>5, <1>7, <1>8, <1>9, BecomesReady DEF Ready

LEMMA RunStep ==
  ASSUME Walks, RunWalk \/ RunAction \/ RunAutoWalk
  PROVE  Walks'
<1>1. ASSUME NEW w, Ready(w), WalkBecomes(w) PROVE Walks'
  BY <1>1, BecomesReady DEF Ready, Sane
<1>2. CASE RunWalk
  <2>1. PICK how \in {"wait", "none", "leap", "halt", "shake"}, time \in Times :
          /\ RoomFor(time) /\ (how = "shake" => Room(3))
          /\ WalkBecomes(OnWalk(Popped, how, time))
    BY <1>2 DEF RunWalk
  <2>2. Sane(Popped) /\ Expects(Popped) /\ Stopping(Popped) /\ Free(Now) \subseteq Free(Popped)
    BY <1>2, PoppedIs DEF RunWalk
  <2>3. Enough(time, Popped) /\ (how = "shake" => Three(Popped))
    BY <2>1, <2>2, RoomForIs, RoomIs, SpareFollows
  <2>4. Ready(OnWalk(Popped, how, time))
    BY <2>2, <2>3, OnWalkIs DEF Scripts
  <2>. QED
    BY <1>1, <2>1, <2>4
<1>3. CASE RunAction
  <2>1. PICK how \in {"far", "early", "done"} : WalkBecomes(Use(Popped, how))
    BY <1>3 DEF RunAction
  <2>2. Taken({"task", "action"}) /\ Room(1)
    BY <1>3 DEF RunAction
  <2>3. Ready(Popped) /\ One(Popped)
    BY <2>2, PoppedIs, RoomIs, SpareFollows DEF Ready
  <2>4. Ready(Use(Popped, how))
    BY <2>3, UseIs
  <2>. QED
    BY <1>1, <2>1, <2>4
<1>4. CASE RunAutoWalk
  <2>1. Ready(Popped) /\ Free(Now) \subseteq Free(Popped)
    BY <1>4, PoppedIs DEF RunAutoWalk, Ready
  <2>2. CASE WalkBecomes(Popped)
    BY <1>1, <2>1, <2>2
  <2>3. CASE \E n \in 1 .. MaxSteps, time \in Times :
               RoomFor(time) /\ WalkBecomes(StartAutoWalk(Popped, n, time))
    <3>1. PICK n \in 1 .. MaxSteps, time \in Times :
            RoomFor(time) /\ WalkBecomes(StartAutoWalk(Popped, n, time))
      BY <2>3
    <3>2. Enough(time, Popped)
      BY <2>1, <3>1, RoomForIs, SpareFollows
    <3>3. Ready(StartAutoWalk(Popped, n, time))
      BY <2>1, <3>2, StartAutoWalkIs
    <3>. QED
      BY <1>1, <3>1, <3>3
  <2>. QED
    BY <1>4, <2>2, <2>3 DEF RunAutoWalk
<1>. QED
  BY <1>2, <1>3, <1>4

LEMMA AskStep ==
  ASSUME Walks, AskWalk \/ AskStop \/ AskUse \/ ChangeSpeed \/ Teleport
  PROVE  Walks'
<1>1. ASSUME NEW w, Ready(w), WalkBecomes(w) PROVE Walks'
  BY <1>1, BecomesReady DEF Ready, Sane
<1>2. Ready(Now)
  BY NowIs
<1>3. CASE AskWalk
  <2>1. PICK n \in 1 .. MaxSteps, time \in Times :
          RoomFor(time) /\ WalkBecomes(StartAutoWalk(Now, n, time))
    BY <1>3 DEF AskWalk
  <2>2. Ready(StartAutoWalk(Now, n, time))
    BY <1>2, <2>1, RoomForIs, StartAutoWalkIs
  <2>. QED
    BY <1>1, <2>1, <2>2
<1>4. CASE AskUse
  <2>1. PICK how \in {"far", "early", "done"} : WalkBecomes(Use(Now, how))
    BY <1>4 DEF AskUse
  <2>2. Ready(Use(Now, how))
    BY <1>2, <1>4, RoomIs, UseIs DEF AskUse
  <2>. QED
    BY <1>1, <2>1, <2>2
<1>5. CASE AskStop
  BY <1>1, <1>2, <1>5, StopWalkIs DEF AskStop
<1>6. CASE WalkBecomes(Halt(Now))
  <2>. DEFINE v == Halt(Now)
  <2>1. Halted(Now, v)
    BY <1>2, HaltIs DEF Ready
  <2>. HIDE DEF v
  <2>2. Ready(v)
    BY <1>2, <2>1 DEF Halted, Ready, WalkComes, Stopping
  <2>. QED
    BY <1>1, <1>6, <2>2 DEF v
<1>7. CASE \E time \in Times : RoomFor(time) /\ WalkBecomes(Resume(Now, time))
  <2>1. PICK time \in Times : RoomFor(time) /\ WalkBecomes(Resume(Now, time))
    BY <1>7
  <2>2. Ready(Resume(Now, time))
    BY <1>2, <2>1, RoomForIs, ResumeIs
  <2>. QED
    BY <1>1, <2>1, <2>2
<1>8. CASE Teleport
  <2>. DEFINE v == StopEventWalk(Now, "leap")
  <2>1. /\ Sane(v) /\ v.walker.eventWalk = 0 /\ v.walker.list = Now.walker.list
        /\ v.walker.stopped = Now.walker.stopped /\ v.walker.stepsSince = Now.walker.stepsSince
        /\ v.walker.cancelNextWalk = Now.walker.cancelNextWalk
    BY <1>2, StopEventWalkIs DEF Ready
  <2>2. Expects(v)
    BY <1>2, LeapIs DEF Ready
  <2>. HIDE DEF v
  <2>3. Ready(v)
    BY <1>2, <2>1, <2>2 DEF Ready, WalkComes, Stopping
  <2>. QED
    BY <1>1, <1>8, <2>3 DEF v, Teleport
<1>. QED
  BY <1>3, <1>4, <1>5, <1>6, <1>7, <1>8 DEF ChangeSpeed

LEMMA WalkStutters == Walks /\ UNCHANGED walkVars => Walks'
<1>. SUFFICES ASSUME Walks, UNCHANGED walkVars PROVE Walks'
  OBVIOUS
<1>1. WalkBecomes(Now)
  BY DEF walkVars, WalkBecomes, Now
<1>2. Ready(Now) /\ Now \in WalkStates
  BY NowIs DEF Walks, Ready, Sane
<1>. QED
  BY <1>1, <1>2, BecomesReady

LEMMA WalksImplies == Walks => WalkTypeOK /\ WalkersWalk /\ OnlyLatestAction /\ StopsSoon
<1>. SUFFICES ASSUME Walks
              PROVE  WalkTypeOK /\ WalkersWalk /\ OnlyLatestAction /\ StopsSoon
  OBVIOUS
<1>1. WalkTypeOK
  <2>1. Now \in WalkStates
    BY DEF Walks, Ready, Sane
  <2>2. /\ walker.list \in 0 .. MaxSteps /\ walker.eventWalk \in EventIds \cup {0}
        /\ walker.strandedBy \in {"", "leap", "speed", "ground"}
        /\ scheduled \subseteq [id : EventIds, what : {"walk", "task", "action"}]
    BY <2>1, NowIs DEF WalkStates, Waits, Ids, Reasons
  <2>6. queue \in Seq(Tasks)
    BY <2>1, NowIs DEF WalkStates
  <2>3. /\ walker.cancelNextWalk \in BOOLEAN /\ walker.fast \in BOOLEAN
        /\ walker.walkTask \in BOOLEAN /\ walker.stopped \in BOOLEAN
    BY <2>1, NowIs DEF WalkStates
  <2>4. \A f \in {"cancelNextWalk", "fast", "walkTask", "stopped"} : walker[f] \in BOOLEAN
    BY <2>3
  <2>5. \A n \in DOMAIN queue : queue[n].id \in EventIds \cup {0}
    <3>. TAKE n \in DOMAIN queue
    <3>1. queue[n] \in Tasks
      BY <2>6
    <3>. QED
      BY <3>1 DEF Tasks, Ids
  <2>. QED
    BY <2>2, <2>4, <2>5 DEF WalkTypeOK
<1>2. WalkersWalk
  <2>1. walker.eventWalk # 0 => walker.eventWalk \in Coming("walk")
    BY NowIs DEF Walks, Ready, WalkComes, Coming, Pending
  <2>2. Expects(Now) /\ Now.walker = walker
    BY NowIs DEF Walks, Ready
  <2>3. walker.list > 0 /\ walker.strandedBy = "" => Coming("walk") # {}
    BY <2>1, <2>2 DEF Expects
  <2>. QED
    BY <2>1, <2>2, <2>3 DEF Expects, WalkersWalk
<1>3. OnlyLatestAction
  BY NowIs DEF Walks, Ready, Sane, Latest, OnlyLatestAction, Pending
<1>4. StopsSoon
  BY NowIs DEF Walks, Ready, Stopping, StopsSoon
<1>. QED
  BY <1>1, <1>2, <1>3, <1>4

(* However requests to walk, stop and use, steps and scripts that take the *)
(* player elsewhere or change his speed, times at which he has no ground,  *)
(* and events that were stopped too late follow each other: with steps to  *)
(* go he has an event coming, unless a leap, want of ground or of speed    *)
(* has left him without one; want of speed only while it lasts.  Only the  *)
(* last action he was given waits in the scheduler, and after a stop he    *)
(* makes one more step at most.                                            *)
THEOREM WalksAlwaysKept == WalkSpec => []WalksKept
<1>1. Walks /\ [WalkNext]_walkVars => Walks'
  BY PassEventStep, RunStep, AskStep, WalkStutters DEF WalkNext
<1>2. Walks => WalksKept
  BY WalksImplies DEF WalksKept
<1>. QED
  BY <1>1, <1>2, WalksInit, PTL DEF WalkSpec
=============================================================================
