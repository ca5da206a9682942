------------------------------ MODULE MCPlayers ------------------------------
(***************************************************************************)
(* A small instance for TLC of what players do with each other: parties,   *)
(* trades and channels.  The modules share no state: in a behaviour one    *)
(* part moves, and the others stay as they began.                          *)
(***************************************************************************)
EXTENDS Party, Trade, Chat

CONSTANTS p1, p2, p3, party1, party2

Symmetry == Permutations({p1, p2, p3}) \cup Permutations({party1, party2})

VARIABLE part

playersVars == <<part, partyVars, tradeVars, chatVars>>

(* Where it does not matter, one initial state of a part is enough. *)
Init ==
  /\ part \in {"party", "trade", "chat"}
  /\ IF part = "trade" THEN TRUE ELSE place = [i \in Goods |-> Ground]
  /\ PartyInit /\ TradeInit /\ ChatInit

Next ==
  /\ part' = part
  /\ \/ part = "party" /\ PartyNext /\ UNCHANGED <<tradeVars, chatVars>>
     \/ part = "trade" /\ TradeNext /\ UNCHANGED <<partyVars, chatVars>>
     \/ part = "chat" /\ ChatNext /\ UNCHANGED <<partyVars, tradeVars>>

Spec == Init /\ [][Next]_playersVars
=============================================================================
