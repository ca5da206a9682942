-------------------------------- MODULE Party --------------------------------
(***************************************************************************)
(* Parties of players and their chat channel: Party (800/party.cpp), the   *)
(* handlers of Game and Player that call it, and the part of Chat that     *)
(* keeps m_partyChannels.  All of it runs in the dispatcher thread.        *)
(*                                                                         *)
(* A party is an object at an address: disband() deletes it, and a new one *)
(* may get its address.  Players point to their party and to those they    *)
(* are invited to, parties point back, and the channel of a party is found *)
(* by the party's address.  Icons and messages are left out, and so are    *)
(* the points for damage and healing, which nothing reads.                 *)
(***************************************************************************)
EXTENDS Naturals, SequencesExt, People

CONSTANTS
  Parties,   \* addresses of Party objects
  NoParty,   \* NULL
  MaxGone    \* bound: how many may be without a client at a time

ASSUME PartyAssumption ==
  NoParty \notin Parties /\ MaxGone \in Nat

VARIABLES
  parties,      \* the object at each address; leader = NoPlayer: there is none
  people,       \* what each Player knows; linked: he has a client
  partyChannel, \* m_partyChannels, by address
  partyLost     \* a deleted Party has been used: anything may happen

partyVars == <<parties, people, partyChannel, partyLost>>

Bunch == [parties |-> parties, people |-> people, channel |-> partyChannel,
          lost |-> partyLost]

Becomes(s) ==
  /\ parties' = s.parties
  /\ people' = s.people
  /\ partyChannel' = s.channel
  /\ partyLost' = s.lost

Nothing == [leader |-> NoPlayer, members |-> <<>>, invites |-> {}]
Newcomer == [online |-> TRUE, linked |-> TRUE, party |-> NoParty, invitations |-> {}]
Away == [Newcomer EXCEPT !.online = FALSE, !.linked = FALSE]

Alive(P) == parties[P].leader # NoPlayer
Crew(c) == {c.leader} \cup ToSet(c.members)

PartyTypeOK ==
  /\ parties \in [Parties -> [leader : Players \cup {NoPlayer}, members : Seq(Players),
                              invites : SUBSET Players]]
  /\ people \in [Players -> [online : BOOLEAN, linked : BOOLEAN,
                             party : Parties \cup {NoParty},
                             invitations : SUBSET Parties]]
  /\ partyChannel \in [Parties -> SUBSET Players]
  /\ partyLost \in BOOLEAN

PartyInit ==
  /\ parties = [P \in Parties |-> Nothing]
  /\ people = [p \in Players |-> Away]
  /\ partyChannel = [P \in Parties |-> {}]
  /\ partyLost = FALSE

-----------------------------------------------------------------------------
(* Party.  Mutated forms precede the definitions they mutate.              *)

(* isInviting *)
Inviting(p, q) ==
  LET P == people[p].party IN
  P # NoParty /\ parties[P].leader = p /\ q \in parties[P].invites

CanDisband(c) == c.members = <<>> /\ c.invites = {}

DisbandPointersFirst(s, P) ==
  LET c == s.parties[P] IN
  [s EXCEPT
     !.parties[P] = Nothing,
     !.people = [p \in Players |-> [s.people[p] EXCEPT
        !.party = IF p \in Crew(c) THEN NoParty ELSE @,
        !.invitations = IF p \in c.invites THEN @ \ {P} ELSE @]]]

DisbandKeepsInvitations(s, P) ==
  LET c == s.parties[P] IN
  [s EXCEPT
     !.parties[P] = Nothing,
     !.people = [p \in Players |-> [s.people[p] EXCEPT
        !.party = IF p \in Crew(c) THEN NoParty ELSE @]]]

(* disband().  sendClosePrivate takes those who have a client out of the   *)
(* channel while their pointer still leads to it.  The channel itself      *)
(* stays in m_partyChannels.                                               *)
Disband(s, P) ==
  LET c == s.parties[P] IN
  [s EXCEPT
     !.parties[P] = Nothing,
     !.channel[P] =
        @ \ {p \in Crew(c) : s.people[p].linked /\ s.people[p].party = P},
     !.people = [p \in Players |-> [s.people[p] EXCEPT
        !.party = IF p \in Crew(c) THEN NoParty ELSE @,
        !.invitations = IF p \in c.invites THEN @ \ {P} ELSE @]]]

DisbandIfLeaderless(s, P, missingLeader) ==
  IF missingLeader THEN Disband(s, P) ELSE s

DisbandIfEmpty(s, P, missingLeader) ==
  IF missingLeader \/ CanDisband(s.parties[P]) THEN Disband(s, P) ELSE s

(* removeInvite(); s may be a state where the object is gone. *)
RemoveInvite(s, p, P) ==
  IF s.parties[P].leader = NoPlayer THEN [s EXCEPT !.lost = TRUE]
  ELSE IF p \notin s.parties[P].invites THEN s
  ELSE DisbandIfEmpty([s EXCEPT !.parties[P].invites = @ \ {p},
                                !.people[p].invitations = @ \ {P}], P, FALSE)

HandOverCleared(c, q) ==
  [c EXCEPT !.leader = q, !.members = <<NoPlayer>> \o RemoveFirst(@, q)]

HandOverTwice(c, q) == [c EXCEPT !.leader = q, !.members = <<c.leader>> \o @]

(* passLeadership(): the old leader becomes the first member. *)
HandOver(c, q) == [c EXCEPT !.leader = q, !.members = <<c.leader>> \o RemoveFirst(@, q)]

PassesIfInviting(c, p) == c.leader = p /\ c.members # <<>> /\ c.invites # {}

(* A leader who leaves makes the first member leader, unless only one      *)
(* member and no invitation would be left.                                 *)
Passes(c, p) ==
  c.leader = p /\ c.members # <<>> /\ ~(Len(c.members) = 1 /\ c.invites = {})

(* leave().  The pointer is cleared before sendClosePrivate, which then    *)
(* finds no channel: who leaves goes on listening.  The invitation of one  *)
(* who had invited himself stays in his own list.                          *)
LeaveParty(s, p) ==
  LET P == s.people[p].party
      c == s.parties[P]
      rest == IF Passes(c, p) THEN HandOver(c, Head(c.members)) ELSE c
      left == [s EXCEPT
                 !.parties[P] = [rest EXCEPT !.members = RemoveFirst(@, p),
                                             !.invites = @ \ {p}],
                 !.people[p].party = NoParty]
  IN DisbandIfEmpty(left, P, rest.leader = p)

(* clearPartyInvitations() empties the list first; then each party is told *)
(* in turn, and may disband.  What a party does then concerns itself and   *)
(* its leader only, so that the turns stand side by side.                  *)
ClearInvitations(s, p) ==
  LET asked == s.people[p].invitations
      turn(P) == RemoveInvite(s, p, P)
  IN [parties |-> [P \in Parties |-> IF P \in asked THEN turn(P).parties[P] ELSE s.parties[P]],
      people |-> [q \in Players |-> [s.people[q] EXCEPT
        !.party = IF \E P \in asked : turn(P).people[q].party = NoParty THEN NoParty ELSE @,
        !.invitations = IF q = p THEN {} ELSE @]],
      channel |-> [P \in Parties |-> IF P \in asked THEN turn(P).channel[P] ELSE s.channel[P]],
      lost |-> s.lost \/ \E P \in asked : turn(P).lost]

LeaveAny(s, p) ==
  IF s.lost \/ s.people[p].party = NoParty THEN s ELSE LeaveParty(s, p)

DropOut(s, p) == LeaveAny(ClearInvitations(s, p), p)

OutOfChannels(s, p) ==
  [s EXCEPT !.channel = [P \in Parties |-> s.channel[P] \ {p}]]
-----------------------------------------------------------------------------
(* The handlers.                                                           *)

(* playerInviteToParty: nothing keeps p from inviting himself. *)
MayInvite(p, q) == ~Inviting(q, p) /\ people[q].party = NoParty

(* invitePlayer *)
Invited(s, p, q, P) ==
  [s EXCEPT !.parties[P].invites = @ \cup {q},
            !.people[q].invitations = @ \cup {P}]

Invite(p, q) ==
  /\ MayInvite(p, q)
  /\ \/ \E P \in Parties :
          /\ people[p].party = NoParty
          /\ ~Alive(P)
          /\ Becomes(Invited([Bunch EXCEPT !.parties[P].leader = p,
                                           !.people[p].party = P], p, q, P))
     \/ LET P == people[p].party IN
        /\ P # NoParty
        /\ parties[P].leader = p
        /\ q \notin parties[P].invites
        /\ Becomes(Invited(Bunch, p, q, P))

(* playerJoinParty, join() *)
Join(p, l) ==
  LET P == people[l].party IN
  /\ Inviting(l, p)
  /\ people[p].party = NoParty
  /\ Becomes([Bunch EXCEPT
        !.parties[P] = [parties[P] EXCEPT !.members = Append(@, p), !.invites = @ \ {p}],
        !.people[p] = [people[p] EXCEPT !.party = P, !.invitations = @ \ {P}]])

(* playerRevokePartyInvitation, revokeInvitation() *)
Revoke(p, q) == Inviting(p, q) /\ Becomes(RemoveInvite(Bunch, q, people[p].party))

(* playerPassPartyLeadership *)
PassLeadership(p, q) ==
  LET P == people[p].party IN
  /\ P # NoParty
  /\ parties[P].leader = p
  /\ people[q].party = P
  /\ p # q
  /\ Becomes([Bunch EXCEPT !.parties[P] = HandOver(@, q)])

(* playerLeaveParty, when no fight forbids it or a script forces it. *)
Leave(p) == people[p].party # NoParty /\ Becomes(LeaveParty(Bunch, p))

(* /ghost: the player leaves as if he had logged out. *)
Ghost(p) == Becomes(DropOut(Bunch, p))

(* addUserToChannel, after the list of channels has created the party's.   *)
OpenChannel(p) ==
  /\ people[p].party # NoParty
  /\ Becomes([Bunch EXCEPT !.channel[people[p].party] = @ \cup {p}])

(* playerCloseChannel finds the channel through the party. *)
CloseChannel(p) ==
  /\ people[p].party # NoParty
  /\ Becomes([Bunch EXCEPT !.channel[people[p].party] = @ \ {p}])

(* Player::onCreatureDisappear: isRemoved() is still false meanwhile. *)
Logout(p) ==
  Becomes([OutOfChannels(DropOut(Bunch, p), p) EXCEPT !.people[p] = Away])

Login(p) == Becomes([Bunch EXCEPT !.people[p] = Newcomer])

(* The client is gone and the player stays; a client comes back for him;   *)
(* another client asks to replace his.                                     *)
LoseClient(p) ==
  /\ people[p].linked
  /\ Cardinality({q \in Players : people[q].online /\ ~people[q].linked}) < MaxGone
  /\ Becomes([Bunch EXCEPT !.people[p].linked = FALSE])
Reconnect(p) ==
  ~people[p].linked /\ Becomes([Bunch EXCEPT !.people[p].linked = TRUE])
AskReplace(p) == people[p].linked /\ Becomes(OutOfChannels(Bunch, p))

PartyNext ==
  /\ ~partyLost
  /\ \E p \in Players :
       \/ ~people[p].online /\ Login(p)
       \/ /\ people[p].online
          /\ \/ Leave(p) \/ Ghost(p) \/ OpenChannel(p) \/ CloseChannel(p)
             \/ Logout(p) \/ LoseClient(p) \/ Reconnect(p) \/ AskReplace(p)
             \/ \E q \in Players :
                  /\ people[q].online
                  /\ \/ Invite(p, q) \/ Join(p, q) \/ Revoke(p, q)
                     \/ PassLeadership(p, q)

PartySpec == PartyInit /\ [][PartyNext]_partyVars

-----------------------------------------------------------------------------
(* Properties.                                                             *)

(* A player points to a party exactly if the party names him, once, as its *)
(* leader or a member: no sequence of joining, passing on, leaving,        *)
(* disbanding and logging out leaves a pointer to a deleted party.  (Until *)
(* a deleted one is used: see InvitationsMutual.)                          *)
PartyMutual ==
  ~partyLost =>
  /\ \A p \in Players, P \in Parties :
       people[p].party = P <=> Alive(P) /\ p \in Crew(parties[P])
  /\ \A P \in Parties : Alive(P) =>
       Cardinality(Crew(parties[P])) = Len(parties[P].members) + 1

(* Invitations are known to both sides, so that disband and logout reach   *)
(* every list; a player comes to keep one that the party has forgotten     *)
(* only by leaving a party to which he had invited himself.                *)
Forgotten(p, P) == P \in people[p].invitations /\ p \notin parties[P].invites

InvitationsMutual ==
  [][\A p \in Players, P \in Parties :
       /\ (p \in parties[P].invites)' => (P \in people[p].invitations)'
       /\ Forgotten(p, P)' =>
            \/ Forgotten(p, P)
            \/ p \in parties[P].invites /\ people[p].party = P]_partyVars

(* A leader is never left alone in a party that nobody can join. *)
PartyWanted ==
  ~partyLost =>
    \A P \in Parties : Alive(P) =>
      parties[P].members # <<>> \/ parties[P].invites # {}

(* A party is disbanded only when not more than one of its members would   *)
(* remain, whoever leaves: a leader's leaving or logging out does not take *)
(* the party away from the others.                                         *)
PartyOutlivesLeader ==
  [][\A P \in Parties :
       Alive(P) /\ Len(parties[P].members) > 1 => parties[P].leader' # NoPlayer]_partyVars

Strays(P) == {p \in partyChannel[P] : people[p].party # P}

(* Whoever listens to the channel of a party that is not his has left it   *)
(* himself, or had no client when it was disbanded.                        *)
OnlyLeaversStray ==
  [][\A P \in Parties, p \in Players :
       p \notin Strays(P) /\ p \in Strays(P)' =>
         Leave(p) \/ Ghost(p) \/ ~people[p].linked]_partyVars

(* Parties and players agree on who belongs to whom and who is invited,    *)
(* and a party lives, with its channel, as long as it is wanted.           *)
PartyKept ==
  /\ [](PartyTypeOK /\ PartyMutual /\ PartyWanted)
  /\ InvitationsMutual
  /\ PartyOutlivesLeader
  /\ OnlyLeaversStray
=============================================================================
