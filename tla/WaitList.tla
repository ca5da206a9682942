------------------------------- MODULE WaitList -------------------------------
(***************************************************************************)
(* The waiting list of a full server, WaitingList (800/waitlist.cpp).      *)
(* ProtocolGame::login asks it, in the dispatcher thread, before it lets a *)
(* character in; a client that has to wait tries again after a while, and  *)
(* its entry is thrown away when it does not.                              *)
(*                                                                         *)
(* An entry is found by name and address; here a character always comes    *)
(* from the same address.  Time is what it does to an entry: its timeout   *)
(* has passed, it is late, or it has not.                                  *)
(***************************************************************************)
EXTENDS Naturals, SequencesExt

CONSTANTS
  Names,         \* characters
  Privileged,    \* those with PlayerFlag_CanAlwaysLogin
  Premium,       \* those with a premium account
  PremiumSkips,  \* PREMIUM_SKIP_WAIT
  MaxPlayers     \* MAX_PLAYERS

ASSUME WaitListAssumption ==
  /\ Privileged \subseteq Names
  /\ Premium \subseteq Names
  /\ PremiumSkips \in BOOLEAN
  /\ MaxPlayers \in Nat

VARIABLE waitList

Wait == [name : Names, late : BOOLEAN]

(* Mutated forms of the definitions, which nothing in the model uses,      *)
(* stand before them: this one forgets those who wait.                     *)
SkipsWaiting(n, online) ==
  n \in Privileged \/ online < MaxPlayers \/ (PremiumSkips /\ n \in Premium)

(* Who gets in without looking at the list. *)
Bypasses(n, online) ==
  \/ n \in Privileged
  \/ waitList = <<>> /\ online < MaxPlayers
  \/ PremiumSkips /\ n \in Premium

(* cleanup(): the entries in time, in their order. *)
Cleaned ==
  LET kept == {i \in DOMAIN waitList : ~waitList[i].late}
      nth(k) == CHOOSE i \in kept : Cardinality({j \in kept : j <= i}) = k
  IN  [k \in 1 .. Cardinality(kept) |-> waitList[nth(k)]]

(* find(): the place of n in the list, from 1, and 0 for end(). *)
SlotOf(list, n) ==
  SelectInSeq(list, LAMBDA w : w.name = n)

IgnoresSlot(online, slot) == online < MaxPlayers

(* There is room for n and for everybody who waits in front of it. *)
HasRoom(online, slot) == online + slot <= MaxPlayers

AppendsAll(list, n) == Len(list) + 1

PutsInFront(list, n) == 1

(* Premium characters wait in front of all others. *)
InsertSlot(list, n) ==
  IF n \in Premium
  THEN LET behind == SelectInSeq(list, LAMBDA w : w.name \notin Premium)
       IN  IF behind = 0 THEN Len(list) + 1 ELSE behind
  ELSE Len(list) + 1

(* WaitingList::login: whether n may log in ...                            *)
MayLogin(n, online) ==
  \/ Bypasses(n, online)
  \/ LET slot == SlotOf(Cleaned, n) IN slot # 0 /\ HasRoom(online, slot)

(* ... and the list afterwards.  Waiting longer gives an entry a new       *)
(* timeout; a late one is gone before that.                                *)
ListAfterLogin(n, online) ==
  LET list == Cleaned
      slot == SlotOf(list, n)
  IN  IF Bypasses(n, online) THEN waitList
      ELSE IF slot = 0 THEN InsertAt(list, InsertSlot(list, n), [name |-> n, late |-> FALSE])
      ELSE IF HasRoom(online, slot) THEN RemoveAt(list, slot)
      ELSE list

(* Time passes the timeout of an entry. *)
TimeOut(i) ==
  /\ ~waitList[i].late
  /\ waitList' = [waitList EXCEPT ![i].late = TRUE]

(* The characters in front of n that may still come back. *)
InFront(n) ==
  LET slot == SlotOf(waitList, n) IN
  {waitList[i].name : i \in {j \in 1 .. Len(waitList) :
                               ~waitList[j].late /\ (slot = 0 \/ j < slot)}}
=============================================================================
