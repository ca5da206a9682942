------------------------------- MODULE Waiting -------------------------------
(***************************************************************************)
(* WaitList among its clients: characters that try to log in again and     *)
(* again, or lose patience, and others that play and leave.  What else may *)
(* happen to a login is in module Session.                                 *)
(***************************************************************************)
EXTENDS WaitList, FiniteSets

VARIABLE online   \* the characters in the game

vars == <<waitList, online>>

Init ==
  /\ waitList = <<>>
  /\ online = {}

Waits(n) == SlotOf(waitList, n) # 0

InTime(n) == \E i \in 1 .. Len(waitList) : waitList[i] = [name |-> n, late |-> FALSE]

(* ProtocolGame::login, which may still find no place on the map for a      *)
(* character that need not wait.                                           *)
Try(n) ==
  /\ n \notin online
  /\ waitList' = ListAfterLogin(n, Cardinality(online))
  /\ \/ MayLogin(n, Cardinality(online)) /\ online' = online \cup {n}
     \/ UNCHANGED online

Leave(n) ==
  /\ n \in online
  /\ online' = online \ {n}
  /\ UNCHANGED waitList

WaitTooLong ==
  /\ \E i \in 1 .. Len(waitList) : TimeOut(i)
  /\ UNCHANGED online

Next ==
  \/ \E n \in Names : Try(n) \/ Leave(n)
  \/ WaitTooLong

Spec == Init /\ [][Next]_vars

(* A client that was told to wait tries again by itself, and nobody plays   *)
(* for ever.  No client has to be in time, and none has to come at all.     *)
Fairness ==
  \A n \in Names : WF_vars(Waits(n) /\ Try(n)) /\ WF_vars(Leave(n))

FairSpec == Spec /\ Fairness

-----------------------------------------------------------------------------
(* Properties.                                                             *)

(* Nobody waits twice, no premium character waits behind an ordinary one,  *)
(* and the privileged do not wait: so the place that a client is told is   *)
(* the number of those served before it.                                   *)
WaitListOrdered ==
  /\ waitList \in Seq(Wait)
  /\ \A i, j \in 1 .. Len(waitList) :
       i < j => /\ waitList[i].name # waitList[j].name
                /\ waitList[j].name \in Premium => waitList[i].name \in Premium
  /\ \A i \in 1 .. Len(waitList) : waitList[i].name \notin Privileged

(* Whoever enters and has no right to pass the list finds room for himself *)
(* and for all who wait in front of him and may still come back.  So when  *)
(* several places are free they go to those who try first, but none of     *)
(* the clients in front loses its place by that.                           *)
NobodyOvertakes ==
  [][\A n \in online' \ online :
       n \notin Privileged /\ ~(PremiumSkips /\ n \in Premium)
       => Cardinality(online) + Cardinality(InFront(n)) < MaxPlayers]_vars

(* A client that keeps its entry keeps its turn: only premium characters   *)
(* come in front of an ordinary one, and nobody in front of a premium one. *)
TurnKept ==
  [][\A m, n \in Names :
       Waits(n) /\ SlotOf(waitList', n) # 0 /\ ~Waits(m) /\ SlotOf(waitList', m) # 0
         /\ SlotOf(waitList', m) < SlotOf(waitList', n)
       => m \in Premium /\ n \notin Premium]_vars

(* Who waits and is never late gets into the game, although others come,    *)
(* time out and leave: unless privileged characters play again and again,   *)
(* and unless, for an ordinary one, premium ones wait again and again.      *)
PatienceIsRewarded ==
  \A n \in Names :
    []<>(\/ ~InTime(n)
         \/ Privileged \cap online # {}
         \/ n \notin Premium /\ \E m \in Premium : Waits(m))

(* The place that a client is told is the number of those served before    *)
(* it, from when it is told.                                               *)
TurnsRespected == []WaitListOrdered /\ NobodyOvertakes /\ TurnKept
=============================================================================
