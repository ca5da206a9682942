---------------------------- MODULE PlayersProofs ----------------------------
(***************************************************************************)
(* Machine-checked proofs about modules Chat, Trade, Guild and Party, for  *)
(* any set of players: of Chat for any number of channels, of Trade for    *)
(* any finite set of items and boxes, any number of slots and any room, of *)
(* Guild for any number of guilds, of Party for any set of addresses.      *)
(***************************************************************************)
EXTENDS Chat, Trade, Guild, Party, FiniteSetTheorems, TLAPS

(***************************************************************************)
(* Channels and who listens to them.                                       *)
(***************************************************************************)

(* A number that nobody owns has neither users nor invitations left.       *)
FreeIsEmpty ==
  \A n \in Numbers : channels[n].owner = NoPlayer => channels[n] = FreeNumber

(* The inductive invariant. *)
Kept == ChatTypeOK /\ ListenersInvited /\ OwnerListens /\ FreeIsEmpty

(* A tab goes deaf only by a reload. *)
Served == \A p \in Players, n \in Numbers : Deaf(p, n)' => Deaf(p, n) \/ ReloadChannels
-----------------------------------------------------------------------------
LEMMA KeptInit == ChatInit => Kept
<1>. SUFFICES ASSUME ChatInit PROVE Kept
  OBVIOUS
<1>1. \A n \in Numbers : channels[n] = [owner |-> NoPlayer, invites |-> {}, users |-> {}]
  BY DEF ChatInit, FreeNumber
<1>2. ChatTypeOK
  BY DEF ChatInit, ChatTypeOK, FreeNumber, NoScreen
<1>3. ListenersInvited /\ OwnerListens
  BY <1>1 DEF ListenersInvited, OwnerListens
<1>4. FreeIsEmpty
  BY <1>1 DEF FreeIsEmpty, FreeNumber
<1>. QED
  BY <1>2, <1>3, <1>4 DEF Kept

LEMMA OutType ==
  ASSUME ChatTypeOK, NEW p \in Players, NEW M \in SUBSET Numbers
  PROVE  /\ ChannelsAfter(p, M) \in [Numbers -> [owner : Players \cup {NoPlayer},
                                   invites : SUBSET Players, users : SUBSET Players]]
         /\ ScreensAfter(p, M) \in
              [Players -> [online : BOOLEAN, linked : BOOLEAN, tabs : SUBSET Numbers]]
<1>1. \A n \in Numbers :
        [channels[n] EXCEPT !.users = @ \ {p}] \in
          [owner : Players \cup {NoPlayer}, invites : SUBSET Players, users : SUBSET Players]
  BY DEF ChatTypeOK
<1>2. FreeNumber \in
        [owner : Players \cup {NoPlayer}, invites : SUBSET Players, users : SUBSET Players]
  BY DEF FreeNumber
<1>3. ChannelsAfter(p, M) \in [Numbers -> [owner : Players \cup {NoPlayer},
                                 invites : SUBSET Players, users : SUBSET Players]]
  BY <1>1, <1>2 DEF ChatTypeOK, ChannelsAfter
<1>4. \A q \in Players, T \in SUBSET Numbers :
        [screens[q] EXCEPT !.tabs = T] \in
          [online : BOOLEAN, linked : BOOLEAN, tabs : SUBSET Numbers]
  BY DEF ChatTypeOK
<1>5. \A q \in Players : ScreensAfter(p, M)[q] \in
          [online : BOOLEAN, linked : BOOLEAN, tabs : SUBSET Numbers]
  <2>. TAKE q \in Players
  <2>. DEFINE T == screens[q].tabs \
         {n \in M : q = p \/ (channels[n].owner = p /\ q \in channels[n].users)}
  <2>1. ScreensAfter(p, M)[q] = [screens[q] EXCEPT !.tabs = T]
    BY DEF ScreensAfter
  <2>2. T \in SUBSET Numbers
    BY DEF ChatTypeOK
  <2>. HIDE DEF T
  <2>. QED
    BY <1>4, <2>1, <2>2
<1>. QED
  BY <1>3, <1>5 DEF ScreensAfter

LEMMA TypeKept == ChatTypeOK /\ [ChatNext]_chatVars => ChatTypeOK'
<1>. SUFFICES ASSUME ChatTypeOK, [ChatNext]_chatVars
              PROVE  ChatTypeOK'
  OBVIOUS
<1>. USE PeopleAssumption DEF ChatTypeOK
<1>1. CASE ReloadChannels
  BY <1>1 DEF ReloadChannels, FreeNumber
<1>2. ASSUME NEW p \in Players, CreatePrivate(p)
      PROVE  ChatTypeOK'
  BY <1>2 DEF CreatePrivate, Shows
<1>3. ASSUME NEW p \in Players, TakeOver(p) \/ ChatLogout(p)
      PROVE  ChatTypeOK'
  <2>1. /\ channels' = ChannelsAfter(p, Numbers) /\ chatLost' \in BOOLEAN
        /\ \/ screens' = ScreensAfter(p, Numbers)
           \/ screens' = [ScreensAfter(p, Numbers) EXCEPT ![p] = NoScreen]
    BY <1>3 DEF TakeOver, ChatLogout, OutOfAll
  <2>2. channels' \in [Numbers -> [owner : Players \cup {NoPlayer},
                                  invites : SUBSET Players, users : SUBSET Players]]
    BY <2>1, OutType
  <2>3. screens' \in [Players -> [online : BOOLEAN, linked : BOOLEAN, tabs : SUBSET Numbers]]
    <3>. DEFINE S == [online : BOOLEAN, linked : BOOLEAN, tabs : SUBSET Numbers]
                A == ScreensAfter(p, Numbers)
    <3>1. A \in [Players -> S] /\ NoScreen \in S
      BY OutType DEF NoScreen
    <3>2. screens' = A \/ screens' = [A EXCEPT ![p] = NoScreen]
      BY <2>1
    <3>3. screens' \in [Players -> S]
      <4>. HIDE DEF S, A
      <4>. QED
        BY <3>1, <3>2
    <3>. QED
      BY <3>3
  <2>. QED
    BY <2>1, <2>2, <2>3
<1>4. ASSUME NEW p \in Players, ClientGone(p) \/ ClientComes(p)
      PROVE  ChatTypeOK'
  <2>1. /\ channels' = channels /\ chatLost' = chatLost
        /\ \/ screens' = [screens EXCEPT ![p].linked = FALSE, ![p].tabs = {}]
           \/ screens' = [screens EXCEPT ![p].online = TRUE, ![p].linked = TRUE]
    BY <1>4 DEF ClientGone, ClientComes
  <2>2. screens' \in [Players -> [online : BOOLEAN, linked : BOOLEAN, tabs : SUBSET Numbers]]
    <3>1. CASE screens' = [screens EXCEPT ![p].linked = FALSE, ![p].tabs = {}]
      BY <3>1
    <3>2. CASE screens' = [screens EXCEPT ![p].online = TRUE, ![p].linked = TRUE]
      BY <3>2
    <3>. QED
      BY <2>1, <3>1, <3>2
  <2>. QED
    BY <2>1, <2>2
<1>5. ASSUME NEW p \in Players, NEW q \in Players, ChannelInvite(p, q) \/ ChannelExclude(p, q)
      PROVE  ChatTypeOK'
  <2>1. PICK n \in Numbers :
          \/ /\ channels' = [channels EXCEPT ![n].invites = @ \cup {q}]
             /\ screens' = screens
          \/ /\ channels' = [channels EXCEPT ![n].invites = @ \ {q}, ![n].users = @ \ {q}]
             /\ screens' = [screens EXCEPT ![q].tabs = @ \ {n}]
    BY <1>5 DEF ChannelInvite, ChannelExclude, Owned
  <2>2. channels' \in [Numbers -> [owner : Players \cup {NoPlayer},
                                  invites : SUBSET Players, users : SUBSET Players]]
    BY <2>1
  <2>3. screens' \in [Players -> [online : BOOLEAN, linked : BOOLEAN, tabs : SUBSET Numbers]]
    BY <2>1
  <2>4. UNCHANGED chatLost
    BY <1>5 DEF ChannelInvite, ChannelExclude
  <2>. QED
    BY <2>2, <2>3, <2>4
<1>6. ASSUME NEW p \in Players, NEW n \in Numbers, OpenPrivate(p, n)
      PROVE  ChatTypeOK'
  BY <1>6 DEF OpenPrivate, Shows
<1>7. ASSUME NEW p \in Players, NEW n \in Numbers, ClosePrivate(p, n)
      PROVE  ChatTypeOK'
  <2>1. /\ channels' = ChannelsAfter(p, {n}) /\ screens' = ScreensAfter(p, {n})
        /\ UNCHANGED chatLost
    BY <1>7 DEF ClosePrivate
  <2>. QED
    BY <2>1, OutType
<1>8. CASE UNCHANGED chatVars
  BY <1>8 DEF chatVars
<1>. QED
  BY <1>1, <1>2, <1>3, <1>4, <1>5, <1>6, <1>7, <1>8 DEF ChatNext
-----------------------------------------------------------------------------
(* Who is taken out of a channel hears it no more, and if he owned it the  *)
(* number is free.  For the others nothing changes in a channel that stays.*)
LEMMA TakenOut ==
  ASSUME Kept, NEW p \in Players, NEW M \in SUBSET Numbers, NEW n \in Numbers,
         channels' = ChannelsAfter(p, M)
  PROVE  /\ n \notin M => channels'[n] = channels[n]
         /\ n \in M /\ channels[n].owner = p => channels'[n] = FreeNumber
         /\ n \in M /\ channels[n].owner # p =>
              /\ channels'[n].owner = channels[n].owner
              /\ channels'[n].invites = channels[n].invites
              /\ channels'[n].users = channels[n].users \ {p}
BY DEF Kept, ChatTypeOK, ChannelsAfter

LEMMA ToldOut ==
  ASSUME Kept, NEW p \in Players, NEW M \in SUBSET Numbers, NEW q \in Players
  PROVE  /\ ScreensAfter(p, M)[q].online = screens[q].online
         /\ ScreensAfter(p, M)[q].linked = screens[q].linked
         /\ \A n \in Numbers :
              n \in ScreensAfter(p, M)[q].tabs <=>
                /\ n \in screens[q].tabs
                /\ ~(n \in M /\ (q = p \/ (channels[n].owner = p /\ q \in channels[n].users)))
BY DEF Kept, ChatTypeOK, ScreensAfter

(* Taking a player out of channels keeps the invariant if he stays in game *)
(* or is taken out of all.                                                 *)
LEMMA OutKeeps ==
  ASSUME Kept, ChatTypeOK', NEW p \in Players, NEW M \in SUBSET Numbers,
         channels' = ChannelsAfter(p, M),
         \A q \in Players \ {p} : screens'[q].online = screens[q].online,
         screens'[p].online = screens[p].online \/ M = Numbers
  PROVE  ListenersInvited' /\ OwnerListens' /\ FreeIsEmpty'
<1>1. \A n \in Numbers :
        /\ n \notin M => channels'[n] = channels[n]
        /\ n \in M /\ channels[n].owner = p => channels'[n] = FreeNumber
        /\ n \in M /\ channels[n].owner # p =>
             /\ channels'[n].owner = channels[n].owner
             /\ channels'[n].invites = channels[n].invites
             /\ channels'[n].users = channels[n].users \ {p}
  BY TakenOut
<1>2. ListenersInvited'
  BY <1>1, PeopleAssumption DEF Kept, ChatTypeOK, ListenersInvited, IsInvited, FreeNumber
<1>3. OwnerListens'
  BY <1>1, PeopleAssumption DEF Kept, ChatTypeOK, OwnerListens, FreeNumber
<1>4. FreeIsEmpty'
  BY <1>1, PeopleAssumption DEF Kept, ChatTypeOK, FreeIsEmpty, FreeNumber
<1>. QED
  BY <1>2, <1>3, <1>4

LEMMA OutServed ==
  ASSUME Kept, NEW p \in Players, NEW M \in SUBSET Numbers,
         channels' = ChannelsAfter(p, M),
         \A q \in Players : screens'[q].tabs \subseteq ScreensAfter(p, M)[q].tabs
  PROVE  Served
<1>1. SUFFICES ASSUME NEW q \in Players, NEW n \in Numbers, Deaf(q, n)'
               PROVE  Deaf(q, n)
  BY DEF Served
<1>2. n \in ScreensAfter(p, M)[q].tabs /\ q \notin channels'[n].users
  BY <1>1 DEF Deaf
<1>3. n \in screens[q].tabs
      /\ ~(n \in M /\ (q = p \/ (channels[n].owner = p /\ q \in channels[n].users)))
  BY <1>2, ToldOut
<1>. QED
  BY <1>2, <1>3, TakenOut DEF Deaf
-----------------------------------------------------------------------------
LEMMA KeptStep ==
  ASSUME Kept, [ChatNext]_chatVars
  PROVE  Kept' /\ Served
<1>1. ChatTypeOK'
  BY TypeKept DEF Kept
<1>. SUFFICES ListenersInvited' /\ OwnerListens' /\ FreeIsEmpty' /\ Served
  BY <1>1 DEF Kept
<1>. USE PeopleAssumption
<1>2. CASE ReloadChannels
  BY <1>2 DEF ReloadChannels, Served, ListenersInvited, OwnerListens, FreeIsEmpty, FreeNumber
<1>3. ASSUME NEW p \in Players, CreatePrivate(p)
      PROVE  ListenersInvited' /\ OwnerListens' /\ FreeIsEmpty' /\ Served
  <2>1. PICK n \in Numbers :
          /\ channels[n].owner = NoPlayer
          /\ channels' = [channels EXCEPT ![n] = [owner |-> p, invites |-> {}, users |-> {p}]]
          /\ screens' = [screens EXCEPT ![p].tabs = Shows(p, n)]
    BY <1>3 DEF CreatePrivate
  <2>2. screens[p].online /\ \A m \in Numbers : channels[m].owner # p
    BY <1>3 DEF CreatePrivate, Owned
  <2>3. \A q \in Players : /\ screens'[q].online = screens[q].online
                           /\ q # p => screens'[q] = screens[q]
    BY <2>1 DEF Kept, ChatTypeOK
  <2>4. screens'[p].tabs \subseteq screens[p].tabs \cup {n}
    BY <2>1 DEF Kept, ChatTypeOK, Shows
  <2>5. channels'[n] = [owner |-> p, invites |-> {}, users |-> {p}]
        /\ \A m \in Numbers : m # n => channels'[m] = channels[m]
    BY <2>1 DEF Kept, ChatTypeOK
  <2>6. channels[n].users = {}
    BY <2>1 DEF Kept, FreeIsEmpty, FreeNumber
  <2>7. ListenersInvited'
    BY <2>2, <2>3, <2>5 DEF Kept, ChatTypeOK, ListenersInvited, IsInvited
  <2>8. OwnerListens'
    BY <2>2, <2>5 DEF Kept, ChatTypeOK, OwnerListens
  <2>9. FreeIsEmpty'
    BY <2>5 DEF Kept, FreeIsEmpty, FreeNumber
  <2>10. Served
    BY <2>3, <2>4, <2>5, <2>6 DEF Served, Deaf
  <2>. QED
    BY <2>7, <2>8, <2>9, <2>10
<1>4. ASSUME NEW p \in Players, TakeOver(p)
      PROVE  ListenersInvited' /\ OwnerListens' /\ FreeIsEmpty' /\ Served
  <2>1. channels' = ChannelsAfter(p, Numbers) /\ screens' = ScreensAfter(p, Numbers)
    BY <1>4 DEF TakeOver, OutOfAll
  <2>. QED
    BY <1>1, <2>1, OutKeeps, OutServed, ToldOut
<1>5. ASSUME NEW p \in Players, ChatLogout(p)
      PROVE  ListenersInvited' /\ OwnerListens' /\ FreeIsEmpty' /\ Served
  <2>1. channels' = ChannelsAfter(p, Numbers)
        /\ screens' = [ScreensAfter(p, Numbers) EXCEPT ![p] = NoScreen]
    BY <1>5 DEF ChatLogout, OutOfAll
  <2>2. \A q \in Players :
          screens'[q] = IF q = p THEN NoScreen ELSE ScreensAfter(p, Numbers)[q]
    BY <2>1 DEF ScreensAfter
  <2>3. \A q \in Players \ {p} : screens'[q].online = screens[q].online
    BY <2>2, ToldOut
  <2>4. \A q \in Players : screens'[q].tabs \subseteq ScreensAfter(p, Numbers)[q].tabs
    BY <2>2 DEF NoScreen
  <2>. QED
    BY <1>1, <2>1, <2>3, <2>4, OutKeeps, OutServed
<1>6. ASSUME NEW p \in Players, ClientGone(p) \/ ClientComes(p)
      PROVE  ListenersInvited' /\ OwnerListens' /\ FreeIsEmpty' /\ Served
  <2>1. channels' = channels
    BY <1>6 DEF ClientGone, ClientComes
  <2>2. \A q \in Players : /\ screens[q].online => screens'[q].online
                           /\ screens'[q].tabs \subseteq screens[q].tabs
    BY <1>6 DEF ClientGone, ClientComes, Kept, ChatTypeOK
  <2>3. \A n \in Numbers : channels[n].users \subseteq Players
    BY DEF Kept, ChatTypeOK
  <2>. QED
    BY <2>1, <2>2, <2>3
       DEF Kept, ListenersInvited, IsInvited, OwnerListens, FreeIsEmpty, Served, Deaf
<1>7. ASSUME NEW p \in Players, NEW q \in Players, ChannelInvite(p, q)
      PROVE  ListenersInvited' /\ OwnerListens' /\ FreeIsEmpty' /\ Served
  <2>1. PICK n \in Owned(p) :
          channels' = [channels EXCEPT ![n].invites = @ \cup {q}] /\ screens' = screens
    BY <1>7 DEF ChannelInvite
  <2>2. n \in Numbers /\ channels[n].owner = p
    BY DEF Owned
  <2>3. \A m \in Numbers : /\ channels'[m].owner = channels[m].owner
                           /\ channels'[m].users = channels[m].users
                           /\ channels[m].invites \subseteq channels'[m].invites
                           /\ m # n => channels'[m] = channels[m]
    BY <2>1, <2>2 DEF Kept, ChatTypeOK
  <2>. QED
    BY <2>1, <2>2, <2>3
       DEF Kept, ListenersInvited, IsInvited, OwnerListens, FreeIsEmpty, Served, Deaf
<1>8. ASSUME NEW p \in Players, NEW q \in Players, ChannelExclude(p, q)
      PROVE  ListenersInvited' /\ OwnerListens' /\ FreeIsEmpty' /\ Served
  <2>1. PICK n \in Owned(p) :
          /\ channels' = [channels EXCEPT ![n].invites = @ \ {q}, ![n].users = @ \ {q}]
          /\ screens' = [screens EXCEPT ![q].tabs = @ \ {n}]
    BY <1>8 DEF ChannelExclude
  <2>2. n \in Numbers /\ channels[n].owner = p /\ p # q
    BY <1>8 DEF Owned, ChannelExclude
  <2>3. \A m \in Numbers : /\ channels'[m].owner = channels[m].owner
                           /\ m # n => channels'[m] = channels[m]
    BY <2>1, <2>2 DEF Kept, ChatTypeOK
  <2>4. /\ channels'[n].users = channels[n].users \ {q}
        /\ channels'[n].invites = channels[n].invites \ {q}
    BY <2>1, <2>2 DEF Kept, ChatTypeOK
  <2>5. \A r \in Players : /\ screens'[r].online = screens[r].online
                           /\ screens'[r].tabs \subseteq screens[r].tabs
    BY <2>1 DEF Kept, ChatTypeOK
  <2>6. n \notin screens'[q].tabs
    BY <2>1 DEF Kept, ChatTypeOK
  <2>7. \A m \in Numbers : channels[m].users \subseteq Players
    BY DEF Kept, ChatTypeOK
  <2>8. ListenersInvited'
    BY <2>2, <2>3, <2>4, <2>5, <2>7 DEF Kept, ListenersInvited, IsInvited
  <2>9. OwnerListens'
    BY <2>2, <2>3, <2>4 DEF Kept, OwnerListens
  <2>10. FreeIsEmpty'
    BY <2>2, <2>3 DEF Kept, FreeIsEmpty
  <2>11. Served
    BY <2>3, <2>4, <2>5, <2>6 DEF Served, Deaf
  <2>. QED
    BY <2>8, <2>9, <2>10, <2>11
<1>9. ASSUME NEW p \in Players, NEW n \in Numbers, OpenPrivate(p, n)
      PROVE  ListenersInvited' /\ OwnerListens' /\ FreeIsEmpty' /\ Served
  <2>1. /\ screens[p].online /\ channels[n].owner # NoPlayer /\ IsInvited(p, n)
        /\ channels' = [channels EXCEPT ![n].users = @ \cup {p}]
        /\ screens' = [screens EXCEPT ![p].tabs = Shows(p, n)]
    BY <1>9 DEF OpenPrivate
  <2>2. \A m \in Numbers : /\ channels'[m].owner = channels[m].owner
                           /\ channels'[m].invites = channels[m].invites
                           /\ m # n => channels'[m] = channels[m]
    BY <2>1 DEF Kept, ChatTypeOK
  <2>3. channels'[n].users = channels[n].users \cup {p}
    BY <2>1 DEF Kept, ChatTypeOK
  <2>4. \A q \in Players : /\ screens'[q].online = screens[q].online
                           /\ q # p => screens'[q] = screens[q]
    BY <2>1 DEF Kept, ChatTypeOK
  <2>5. screens'[p].tabs \subseteq screens[p].tabs \cup {n}
    BY <2>1 DEF Kept, ChatTypeOK, Shows
  <2>6. \A m \in Numbers : channels[m].users \subseteq Players
    BY DEF Kept, ChatTypeOK
  <2>7. ListenersInvited'
    BY <2>1, <2>2, <2>3, <2>4, <2>6 DEF Kept, ListenersInvited, IsInvited
  <2>8. OwnerListens'
    BY <2>2, <2>3 DEF Kept, OwnerListens
  <2>9. FreeIsEmpty'
    BY <2>1, <2>2 DEF Kept, FreeIsEmpty
  <2>10. Served
    BY <2>2, <2>3, <2>4, <2>5 DEF Served, Deaf
  <2>. QED
    BY <2>7, <2>8, <2>9, <2>10
<1>10. ASSUME NEW p \in Players, NEW n \in Numbers, ClosePrivate(p, n)
       PROVE  ListenersInvited' /\ OwnerListens' /\ FreeIsEmpty' /\ Served
  <2>1. channels' = ChannelsAfter(p, {n}) /\ screens' = ScreensAfter(p, {n})
    BY <1>10 DEF ClosePrivate
  <2>. DEFINE M == {n}
  <2>2. M \in SUBSET Numbers
    OBVIOUS
  <2>. HIDE DEF M
  <2>3. channels' = ChannelsAfter(p, M) /\ screens' = ScreensAfter(p, M)
    BY <2>1 DEF M
  <2>4. \A q \in Players : screens'[q].online = screens[q].online
    BY <2>2, <2>3, ToldOut
  <2>5. \A q \in Players : screens'[q].tabs \subseteq ScreensAfter(p, M)[q].tabs
    BY <2>3
  <2>6. ListenersInvited' /\ OwnerListens' /\ FreeIsEmpty'
    BY <1>1, <2>2, <2>3, <2>4, OutKeeps
  <2>7. Served
    BY <2>2, <2>3, <2>5, OutServed
  <2>. QED
    BY <2>6, <2>7
<1>11. CASE UNCHANGED chatVars
  BY <1>11 DEF chatVars, Kept, ListenersInvited, IsInvited, OwnerListens, FreeIsEmpty,
               Served, Deaf
<1>. QED
  BY <1>2, <1>3, <1>4, <1>5, <1>6, <1>7, <1>8, <1>9, <1>10, <1>11 DEF ChatNext
-----------------------------------------------------------------------------
(* However players create, open, close and lose private channels, invite   *)
(* and exclude, log out and are taken over: who listens may, who owns a    *)
(* channel is in it and owns no other, and a tab that a client shows goes  *)
(* deaf only when the channels are reloaded.                               *)
THEOREM ChannelsAlwaysKept == ChatSpec => ChannelsKept
<1>1. Kept => ChatTypeOK /\ ListenersInvited /\ OwnerListens
  BY DEF Kept
<1>2. Kept /\ [ChatNext]_chatVars => Kept'
  BY KeptStep
<1>3. Kept /\ [ChatNext]_chatVars =>
        [\A p \in Players, n \in Numbers :
           Deaf(p, n)' => Deaf(p, n) \/ ReloadChannels]_chatVars
  BY KeptStep DEF Served
<1>. QED
  BY <1>1, <1>2, <1>3, KeptInit, PTL DEF ChatSpec, ChannelsKept, TabsAreServed
-----------------------------------------------------------------------------
(***************************************************************************)
(* Trade: what is offered, where it is and whether it can be handed over.  *)
(***************************************************************************)

Places == Players \cup Boxes \cup {Ground, Gone}

LEMMA NamesApart ==
  /\ NoGood \notin Goods /\ Boxes \subseteq Goods
  /\ \A p \in Players : p \notin Goods /\ p # Ground /\ p # NoPlayer /\ p # Gone
  /\ Ground \notin Goods /\ Gone \notin Goods /\ IsFiniteSet(Goods)
BY TradeAssumption, PeopleAssumption
-----------------------------------------------------------------------------
(* What is in a box, at any depth.                                         *)

LEMMA WithinHolds ==
  ASSUME NEW at, NEW c
  PROVE  /\ Within(at, c) \subseteq Goods
         /\ \A j \in Goods : at[j] = c \/ at[j] \in Within(at, c) => j \in Within(at, c)
BY DEF Within

LEMMA WithinLeast ==
  ASSUME NEW at, NEW c, NEW held \in SUBSET Goods,
         \A j \in Goods : at[j] = c \/ at[j] \in held => j \in held
  PROVE  Within(at, c) \subseteq held
BY DEF Within

LEMMA WithinBy ==
  ASSUME NEW at, NEW c, NEW i \in Within(at, c)
  PROVE  i \in Goods /\ (at[i] = c \/ at[i] \in Within(at, c))
<1>. DEFINE held == {j \in Within(at, c) : at[j] = c \/ at[j] \in Within(at, c)}
<1>1. held \in SUBSET Goods /\ \A j \in Goods : at[j] = c \/ at[j] \in held => j \in held
  BY WithinHolds
<1>2. Within(at, c) \subseteq held
  <2>. HIDE DEF held
  <2>. QED
    BY <1>1, WithinLeast
<1>. QED
  BY <1>2, WithinHolds

(* What is in a box that is in another is in that one too. *)
LEMMA WithinWithin ==
  ASSUME NEW at, NEW c, NEW o \in Within(at, c)
  PROVE  Within(at, o) \subseteq Within(at, c)
<1>. DEFINE held == Within(at, o) \cap Within(at, c)
<1>1. held \in SUBSET Goods /\ \A j \in Goods : at[j] = o \/ at[j] \in held => j \in held
  BY WithinHolds
<1>2. Within(at, o) \subseteq held
  <2>. HIDE DEF held
  <2>. QED
    BY <1>1, WithinLeast
<1>. QED
  BY <1>2

(* Whoever has what is in a box has the box, *)
LEMMA WithinAbove ==
  ASSUME NEW at, NEW c, c \notin Goods, NEW o \in Goods,
         NEW x \in Within(at, o), x \in Within(at, c)
  PROVE  o \in Within(at, c)
<1>. DEFINE held == {j \in Within(at, o) : j \in Within(at, c) => o \in Within(at, c)}
<1>1. held \in SUBSET Goods
  BY WithinHolds
<1>2. ASSUME NEW j \in Goods, at[j] = o \/ at[j] \in held PROVE j \in held
  <2>1. j \in Within(at, o)
    BY <1>2, WithinHolds
  <2>2. ASSUME j \in Within(at, c) PROVE o \in Within(at, c)
    <3>1. at[j] = c \/ at[j] \in Within(at, c)
      BY <2>2, WithinBy
    <3>2. at[j] \in Goods
      BY <1>1, <1>2
    <3>. QED
      BY <1>2, <3>1, <3>2
  <2>. QED
    BY <2>1, <2>2
<1>3. Within(at, o) \subseteq held
  <2>. HIDE DEF held
  <2>. QED
    BY <1>1, <1>2, WithinLeast
<1>. QED
  BY <1>3

(* and nobody else, *)
LEMMA OneHolder ==
  ASSUME NEW at, NEW c, c \notin Goods, NEW d, d \notin Goods, c # d
  PROVE  Within(at, c) \cap Within(at, d) = {}
<1>. DEFINE held == Within(at, c) \ Within(at, d)
<1>1. held \in SUBSET Goods
  BY WithinHolds
<1>2. ASSUME NEW j \in Goods, at[j] = c \/ at[j] \in held PROVE j \in held
  <2>1. j \in Within(at, c)
    BY <1>2, WithinHolds
  <2>2. ASSUME j \in Within(at, d) PROVE FALSE
    <3>1. at[j] = d \/ at[j] \in Within(at, d)
      BY <2>2, WithinBy
    <3>2. at[j] \notin Within(at, d)
      BY <1>2, WithinHolds
    <3>3. at[j] # d
      BY <1>1, <1>2
    <3>. QED
      BY <3>1, <3>2, <3>3
  <2>. QED
    BY <2>1, <2>2
<1>3. Within(at, c) \subseteq held
  <2>. HIDE DEF held
  <2>. QED
    BY <1>1, <1>2, WithinLeast
<1>. QED
  BY <1>3

(* and it is not in itself. *)
LEMMA NotInItself ==
  ASSUME NEW at, NEW c, c \notin Goods, NEW i \in Within(at, c)
  PROVE  i \notin Within(at, i)
<1>. DEFINE held == {j \in Within(at, c) : j \notin Within(at, j)}
<1>1. held \in SUBSET Goods
  BY WithinHolds
<1>2. ASSUME NEW j \in Goods, at[j] = c \/ at[j] \in held PROVE j \in held
  <2>1. j \in Within(at, c)
    BY <1>2, WithinHolds
  <2>2. ASSUME j \in Within(at, j) PROVE FALSE
    <3>1. at[j] = j \/ at[j] \in Within(at, j)
      BY <2>2, WithinBy
    <3>2. at[j] # c
      BY <3>1, WithinHolds
    <3>3. PICK k : k = at[j]
      OBVIOUS
    <3>4. k \in held /\ k \in Within(at, j)
      BY <1>2, <2>2, <3>1, <3>2, <3>3
    <3>5. j \in Within(at, k)
      BY <3>3, WithinHolds
    <3>6. k \in Within(at, k)
      BY <3>4, <3>5, WithinWithin
    <3>. QED
      BY <3>4, <3>6
  <2>. QED
    BY <2>1, <2>2
<1>3. Within(at, c) \subseteq held
  <2>. HIDE DEF held
  <2>. QED
    BY <1>1, <1>2, WithinLeast
<1>. QED
  BY <1>3
-----------------------------------------------------------------------------
(* What changes when i is moved.                                           *)

Puts(at, after, i, to) ==
  at \in [Goods -> Places] /\ i \in Goods /\ after = [at EXCEPT ![i] = to]

(* Nothing that is neither i nor in it, *)
LEMMA OthersStay ==
  ASSUME NEW at, NEW after, NEW i, NEW to, Puts(at, after, i, to),
         NEW c, NEW x \in Within(at, c), x # i, x \notin Within(at, i)
  PROVE  x \in Within(after, c)
<1>. DEFINE held == Within(after, c) \cup {i} \cup Within(at, i)
<1>1. held \in SUBSET Goods
  BY WithinHolds DEF Puts
<1>2. ASSUME NEW j \in Goods, at[j] = c \/ at[j] \in held PROVE j \in held
  <2>1. CASE j = i
    BY <2>1
  <2>2. CASE j # i /\ (at[j] = c \/ at[j] \in Within(after, c))
    <3>1. after[j] = at[j]
      BY <2>2 DEF Puts
    <3>. QED
      BY <2>2, <3>1, WithinHolds
  <2>3. CASE at[j] = i \/ at[j] \in Within(at, i)
    BY <2>3, WithinHolds
  <2>. QED
    BY <1>2, <2>1, <2>2, <2>3
<1>3. Within(at, c) \subseteq held
  <2>. HIDE DEF held
  <2>. QED
    BY <1>1, <1>2, WithinLeast
<1>. QED
  BY <1>3

(* nor does anything else come, *)
LEMMA OthersCome ==
  ASSUME NEW at, NEW after, NEW i, NEW to \in Places, Puts(at, after, i, to),
         NEW c, NEW x \in Within(after, c), x # i, x \notin Within(after, i)
  PROVE  x \in Within(at, c)
<1>1. Puts(after, at, i, at[i])
  BY DEF Puts
<1>. QED
  BY <1>1, OthersStay

(* a box stays as it is if i neither leaves it nor gets into it, *)
LEMMA BoxStays ==
  ASSUME NEW at, NEW after, NEW i, NEW to, Puts(at, after, i, to),
         NEW o \in Goods, i \notin Within(at, o), to # o, to \notin Within(at, o)
  PROVE  Within(after, o) = Within(at, o)
<1>1. i \in Goods /\ \A j \in Goods \ {i} : after[j] = at[j]
  BY DEF Puts
<1>4. after[i] = to
  BY DEF Puts
<1>2. Within(after, o) \subseteq Within(at, o)
  <2>1. \A j \in Goods : after[j] = o \/ after[j] \in Within(at, o) => j \in Within(at, o)
    BY <1>1, <1>4, WithinHolds
  <2>. QED
    BY <2>1, WithinHolds, WithinLeast
<1>3. Within(at, o) \subseteq Within(after, o)
  <2>1. ASSUME NEW j \in Goods, at[j] = o \/ at[j] \in Within(after, o)
        PROVE  j \in Within(after, o)
    <3>1. j \in Within(at, o)
      BY <1>2, <2>1, WithinHolds
    <3>2. j # i
      BY <3>1
    <3>. QED
      BY <1>1, <2>1, <3>2, WithinHolds
  <2>. QED
    BY <2>1, WithinHolds, WithinLeast
<1>. QED
  BY <1>2, <1>3

(* and so does what the partner was shown, if it is not i itself. *)
LEMMA ShowStays ==
  ASSUME NEW at, NEW after, NEW i, NEW to, Puts(at, after, i, to),
         NEW o \in Goods, i # o, i \notin Within(at, o), to # o, to \notin Within(at, o)
  PROVE  Within(after, o) = Within(at, o) /\ Snapshot(after, o) = Snapshot(at, o)
<1>1. Within(after, o) = Within(at, o)
  BY BoxStays
<1>2. \A j \in Goods : j = o \/ j \in Within(at, o) => after[j] = at[j]
  BY DEF Puts
<1>. QED
  BY <1>1, <1>2 DEF Snapshot
-----------------------------------------------------------------------------
(* The inductive invariant.                                                *)

(* What is on offer lies with the one who offers it, or on the ground; and *)
(* nobody trades with himself.                                             *)
Rooted(p, o, at) == o \in Within(at, p) \/ o \in Within(at, Ground)
OffersRooted == \A p \in Players : Offer(p) # NoGood => Rooted(p, Offer(p), place)
NotAlone == \A p \in Players : trader[p].partner # p

ShownToAll == shown = [p \in Players |-> shown[p]]

Fair == TradeFair /\ OffersRooted /\ NotAlone /\ ShownToAll

LEMMA TraderIs ==
  ASSUME TradeTypeOK, NEW p \in Players
  PROVE  /\ trader[p].partner \in Players \cup {NoPlayer} /\ Offer(p) \in Goods \cup {NoGood}
         /\ trader[p].state = "none" => trader[p] = NotTrading
         /\ trader[p].state # "none" => trader[p].partner \in Players
         /\ trader[p].state = "acknowledge" =>
              trader[p] = [state |-> "acknowledge", partner |-> trader[p].partner, item |-> NoGood]
         /\ trader[p].state \in {"acknowledge", "initiated"} =>
              [trader[p] EXCEPT !.state = "accept"] \in
                [state : {"accept"}, partner : Players, item : Goods \cup {NoGood}]
BY PeopleAssumption DEF TradeTypeOK, NotTrading, Offer

LEMMA NotTradingIs ==
  ASSUME TradeTypeOK, NEW p \in Players, trader[p].state = "none" \/ trader[p].partner = NoPlayer
  PROVE  Offer(p) = NoGood /\ trader[p].partner = NoPlayer /\ trader[p].state = "none"
<1>1. trader[p].state = "none"
  BY TraderIs, PeopleAssumption
<1>2. trader[p] = NotTrading
  BY <1>1, TraderIs
<1>. QED
  BY <1>2 DEF NotTrading, Offer

LEMMA FairInit == TradeInit => Fair
<1>. SUFFICES ASSUME TradeInit PROVE Fair
  OBVIOUS
<1>1. \A p \in Players : Offer(p) = NoGood /\ trader[p].partner = NoPlayer
  BY DEF TradeInit, NotTrading, Offer
<1>2. \A i \in Goods : tradeItems[i] = NoPlayer
  BY DEF TradeInit
<1>3. TradeTypeOK
  BY DEF TradeInit, TradeTypeOK
<1>4. TradesMutual
  BY <1>1, <1>2, NamesApart DEF TradesMutual
<1>5. OffersDisjoint
  BY <1>2 DEF OffersDisjoint
<1>6. OfferAsShown /\ OffersRooted
  BY <1>1 DEF OfferAsShown, OffersRooted
<1>7. BothOrNone /\ NotAlone /\ ShownToAll
  BY <1>1, NamesApart DEF TradeInit, BothOrNone, NotAlone, ShownToAll
<1>. QED
  BY <1>3, <1>4, <1>5, <1>6, <1>7 DEF Fair, TradeFair

(* The offers that are not closed are what and where they were. *)
Untouched(ps) ==
  \A p \in Players \ ps : Offer(p) # NoGood =>
    /\ Within(place', Offer(p)) = Within(place, Offer(p))
    /\ Snapshot(place', Offer(p)) = Snapshot(place, Offer(p))
    /\ Rooted(p, Offer(p), place')

LEMMA ClosedKeeps ==
  ASSUME Fair, NEW ps \in SUBSET Players, TradesClosed(ps), Untouched(ClosedWith(ps)),
         place' \in [Goods -> Places],
         outcome' \in {"none", "kept", "swapped", "intoOwnOffer"}
  PROVE  Fair'
<1>. DEFINE closed == ClosedWith(ps)
<1>1. TradeTypeOK /\ TradesMutual /\ OffersDisjoint /\ OfferAsShown /\ OffersRooted /\ NotAlone
  BY DEF Fair, TradeFair
<1>2. ASSUME NEW p \in closed, trader[p].partner # NoPlayer
      PROVE  trader[p].partner \in closed
  <2>1. CASE p \in ps
    BY <1>2, <2>1 DEF ClosedWith
  <2>2. CASE p \notin ps
    <3>1. PICK r \in ps : trader[r].partner # NoPlayer /\ p = trader[r].partner
      BY <1>2, <2>2 DEF ClosedWith
    <3>2. p \in Players
      BY <1>1, <3>1, TraderIs
    <3>3. trader[p].partner = r
      BY <1>1, <3>1, <3>2 DEF TradesMutual
    <3>. QED
      BY <3>3 DEF ClosedWith
  <2>. QED
    BY <2>1, <2>2
<1>3. NoPlayer \notin closed /\ closed \subseteq Players
  <2>1. \A r \in ps : trader[r].partner # NoPlayer => trader[r].partner \in Players
    BY <1>1, TraderIs
  <2>. QED
    BY <2>1, PeopleAssumption DEF ClosedWith
<1>4. /\ trader' = [p \in Players |-> IF p \in closed THEN NotTrading ELSE trader[p]]
      /\ tradeItems' = [i \in Goods |-> IF tradeItems[i] \in closed THEN NoPlayer
                                        ELSE tradeItems[i]]
      /\ shown' = [p \in Players |-> IF p \in closed THEN NoShow ELSE shown[p]]
  BY DEF TradesClosed
<1>5. Untouched(closed)
  OBVIOUS
<1>. HIDE DEF closed
<1>6. \A p \in closed : p \in Players /\ trader'[p] = NotTrading /\ Offer(p)' = NoGood
                        /\ trader'[p].partner = NoPlayer
  BY <1>3, <1>4 DEF NotTrading, Offer
<1>7. \A p \in Players \ closed : trader'[p] = trader[p] /\ Offer(p)' = Offer(p)
                                  /\ shown'[p] = shown[p]
  BY <1>4 DEF Offer
<1>8. \A i \in Goods : tradeItems'[i] = IF tradeItems[i] \in closed THEN NoPlayer
                                        ELSE tradeItems[i]
  BY <1>4
<1>9. TradeTypeOK'
  <2>1. tradeItems' \in [Goods -> Players \cup {NoPlayer}]
    BY <1>1, <1>4 DEF TradeTypeOK
  <2>2. ASSUME NEW p \in Players PROVE trader'[p] \in {NotTrading, trader[p]}
    BY <1>6, <1>7
  <2>3. trader' = [p \in Players |-> trader'[p]]
    BY <1>4
  <2>. QED
    BY <1>1, <2>1, <2>2, <2>3 DEF TradeTypeOK, Places
<1>10. TradesMutual'
  <2>1. ASSUME NEW p \in Players, NEW q \in Players, trader'[p].partner = q
        PROVE  trader'[q].partner = p
    <3>1. p \notin closed
      BY <1>6, <2>1, PeopleAssumption
    <3>2. trader[p].partner = q /\ trader[q].partner = p
      BY <1>1, <1>7, <2>1, <3>1 DEF TradesMutual
    <3>3. q \notin closed
      BY <1>2, <3>1, <3>2, PeopleAssumption
    <3>. QED
      BY <1>7, <3>2, <3>3
  <2>2. ASSUME NEW p \in Players, NEW i \in Goods
        PROVE  Offer(p)' = i <=> tradeItems'[i] = p
    <3>1. CASE p \in closed
      BY <1>6, <1>8, <3>1, NamesApart
    <3>2. CASE p \notin closed
      BY <1>1, <1>3, <1>7, <1>8, <3>2, NamesApart DEF TradesMutual
    <3>. QED
      BY <3>1, <3>2
  <2>. QED
    BY <2>1, <2>2 DEF TradesMutual, Offer
<1>11. ASSUME NEW i \in Goods, tradeItems'[i] # NoPlayer
       PROVE  /\ tradeItems[i] \in Players \ closed /\ Offer(tradeItems[i]) = i
              /\ tradeItems'[i] = tradeItems[i]
  <2>1. tradeItems'[i] = tradeItems[i] /\ tradeItems[i] \notin closed
    BY <1>8, <1>11
  <2>2. tradeItems[i] \in Players
    BY <1>1, <1>11, <2>1 DEF TradeTypeOK
  <2>. QED
    BY <1>1, <2>1, <2>2 DEF TradesMutual
<1>12. OffersDisjoint'
  <2>1. SUFFICES ASSUME NEW i \in Goods, NEW o \in Goods, i # o,
                        tradeItems'[i] # NoPlayer, tradeItems'[o] # NoPlayer
                 PROVE  ~Nested(place', i, o)
    BY DEF OffersDisjoint
  <2>2. ~Nested(place, i, o)
    BY <1>1, <1>11, <2>1 DEF OffersDisjoint
  <2>3. Within(place', i) = Within(place, i) /\ Within(place', o) = Within(place, o)
    BY <1>5, <1>11, <2>1, NamesApart DEF Untouched
  <2>. QED
    BY <2>2, <2>3 DEF Nested
<1>13. OfferAsShown' /\ OffersRooted'
  <2>1. SUFFICES ASSUME NEW p \in Players, Offer(p)' # NoGood
                 PROVE  Snapshot(place', Offer(p)') = shown'[p] /\ Rooted(p, Offer(p)', place')
    BY DEF OfferAsShown, OffersRooted, Offer, Rooted, Snapshot
  <2>2. p \notin closed
    BY <1>6, <2>1
  <2>3. Offer(p)' = Offer(p) /\ shown'[p] = shown[p] /\ Offer(p) # NoGood
    BY <1>7, <2>1, <2>2
  <2>. QED
    BY <1>1, <1>5, <2>2, <2>3 DEF Untouched, OfferAsShown
<1>14. BothOrNone' /\ NotAlone' /\ ShownToAll'
  <2>1. NotAlone'
    BY <1>1, <1>6, <1>7, NamesApart DEF NotAlone
  <2>2. ShownToAll'
    BY <1>4 DEF ShownToAll
  <2>. QED
    BY <2>1, <2>2 DEF BothOrNone
<1>. QED
  BY <1>9, <1>10, <1>12, <1>13, <1>14 DEF Fair, TradeFair
-----------------------------------------------------------------------------
(* The steps but for the exchange.                                         *)

Same(p) ==
  /\ Within(place', Offer(p)) = Within(place, Offer(p))
  /\ Snapshot(place', Offer(p)) = Snapshot(place, Offer(p))
  /\ Rooted(p, Offer(p), place')

LEMMA FairParts ==
  Fair => /\ TradeTypeOK /\ TradesMutual /\ OffersDisjoint /\ OfferAsShown /\ OffersRooted
          /\ NotAlone /\ place \in [Goods -> Places]
          /\ outcome \in {"none", "kept", "swapped", "intoOwnOffer"}
          /\ \A p \in Players : Offer(p) # NoGood => Offer(p) \in Goods /\ Rooted(p, Offer(p), place)
<1>. SUFFICES ASSUME Fair
     PROVE  /\ TradeTypeOK /\ TradesMutual /\ OffersDisjoint /\ OfferAsShown /\ OffersRooted
            /\ NotAlone /\ place \in [Goods -> Places]
            /\ outcome \in {"none", "kept", "swapped", "intoOwnOffer"}
            /\ \A p \in Players : Offer(p) # NoGood =>
                 Offer(p) \in Goods /\ Rooted(p, Offer(p), place)
  OBVIOUS
<1>1. TradeTypeOK /\ TradesMutual /\ OffersDisjoint /\ OfferAsShown /\ OffersRooted
      /\ NotAlone /\ BothOrNone
  BY DEF Fair, TradeFair
<1>2. place \in [Goods -> Places]
  BY <1>1 DEF TradeTypeOK, Places
<1>3. outcome \in {"none", "kept", "swapped", "intoOwnOffer"}
  BY <1>1 DEF TradeTypeOK, BothOrNone
<1>. QED
  BY <1>1, <1>2, <1>3, TraderIs DEF OffersRooted

LEMMA RootIs ==
  ASSUME NEW at, NEW p \in Players, NEW o, Rooted(p, o, at)
  PROVE  \E c \in {p, Ground} : c \notin Goods /\ o \in Within(at, c)
BY NamesApart DEF Rooted

(* Whoever moves what an offer is in touches it. *)
LEMMA RemovalTouches ==
  ASSUME Fair, NEW p \in Players, Offer(p) # NoGood, NEW i \in Goods,
         Offer(p) \in Within(place, i)
  PROVE  TouchedByRemoval(p, i)
<1>. DEFINE o == Offer(p)
<1>1. o \in Goods /\ Rooted(p, o, place) /\ place \in [Goods -> Places]
  BY FairParts
<1>2. PICK c \in {p, Ground} : c \notin Goods /\ o \in Within(place, c)
  BY <1>1, RootIs
<1>. HIDE DEF o
<1>3. CASE place[i] \in Boxes
  <2>1. i \in Within(place, place[i])
    BY WithinHolds
  <2>2. o \in Within(place, place[i])
    BY <2>1, WithinWithin DEF o
  <2>3. ASSUME place[o] = place[i] PROVE FALSE
    <3>1. PICK b : b = place[i]
      OBVIOUS
    <3>2. b \in Within(place, c)
      <4>1. b \in Goods /\ b # c
        BY <1>2, <1>3, <3>1, NamesApart
      <4>. QED
        BY <1>2, <2>3, <3>1, <4>1, WithinBy
    <3>3. b \notin Within(place, b)
      BY <1>2, <3>2, NotInItself
    <3>4. b = i \/ b \in Within(place, i)
      BY <2>3, <3>1, WithinBy DEF o
    <3>5. i \in Within(place, b)
      BY <2>1, <3>1
    <3>6. b # i
      BY <3>3, <3>5
    <3>. QED
      BY <3>3, <3>4, <3>5, <3>6, WithinWithin
  <2>. QED
    BY <1>3, <2>2, <2>3 DEF TouchedByRemoval, o
<1>4. CASE place[i] \notin Boxes
  <2>1. i \in Boxes
    <3>1. SUFFICES ASSUME i \notin Boxes PROVE FALSE
      OBVIOUS
    <3>2. \A j \in Goods : place[j] # i
      BY <1>1, <3>1, NamesApart DEF Places
    <3>3. PICK held : held = {}
      OBVIOUS
    <3>4. held \in SUBSET Goods
          /\ \A j \in Goods : place[j] = i \/ place[j] \in held => j \in held
      BY <3>2, <3>3
    <3>5. Within(place, i) \subseteq held
      BY <3>4, WithinLeast
    <3>. QED
      BY <3>3, <3>5
  <2>. QED
    BY <1>4, <2>1 DEF TouchedByRemoval, o
<1>. QED
  BY <1>3, <1>4

LEMMA MoveKeepsOffer ==
  ASSUME Fair, NEW p \in Players, Offer(p) # NoGood, NEW i, NEW to,
         Puts(place, place', i, to), ~TouchedByRemoval(p, i),
         to # Offer(p), to \notin Within(place, Offer(p))
  PROVE  Same(p)
<1>1. i # Offer(p) /\ i \notin Within(place, Offer(p))
  BY DEF TouchedByRemoval
<1>2. Offer(p) \in Goods /\ Rooted(p, Offer(p), place)
  BY FairParts
<1>3. Within(place', Offer(p)) = Within(place, Offer(p))
      /\ Snapshot(place', Offer(p)) = Snapshot(place, Offer(p))
  BY <1>1, <1>2, ShowStays
<1>4. Offer(p) \notin Within(place, i)
  BY RemovalTouches DEF Puts
<1>5. Rooted(p, Offer(p), place')
  BY <1>1, <1>2, <1>4, OthersStay DEF Rooted
<1>. QED
  BY <1>3, <1>5 DEF Same

LEMMA ClosedInPlace ==
  ASSUME Fair, NEW ps \in SUBSET Players, TradesClosed(ps), UNCHANGED <<place, outcome>>
  PROVE  Fair'
<1>1. Untouched(ClosedWith(ps))
  BY FairParts DEF Untouched
<1>2. /\ place' \in [Goods -> Places]
      /\ outcome' \in {"none", "kept", "swapped", "intoOwnOffer"}
  BY FairParts
<1>. QED
  BY <1>1, <1>2, ClosedKeeps

LEMMA ClosedIfTouched ==
  ASSUME Fair, NEW ps \in SUBSET Players, TradesClosed(ps), UNCHANGED outcome,
         NEW i, NEW to \in Places, Puts(place, place', i, to),
         \A p \in Players \ ps : Offer(p) # NoGood =>
           ~TouchedByRemoval(p, i) /\ to # Offer(p) /\ to \notin Within(place, Offer(p))
  PROVE  Fair'
<1>1. ps \subseteq ClosedWith(ps)
  BY DEF ClosedWith
<1>2. \A p \in Players \ ClosedWith(ps) : Offer(p) # NoGood => Same(p)
  BY <1>1, MoveKeepsOffer
<1>3. Untouched(ClosedWith(ps))
  BY <1>2 DEF Untouched, Same
<1>4. /\ place' \in [Goods -> Places]
      /\ outcome' \in {"none", "kept", "swapped", "intoOwnOffer"}
  BY FairParts DEF Puts
<1>. QED
  BY <1>3, <1>4, ClosedKeeps

LEMMA MoveStep ==
  ASSUME Fair, NEW i \in Goods, NEW to \in Players \cup Boxes \cup {Ground}, MoveGood(i, to)
  PROVE  Fair'
<1>. DEFINE ps == {p \in Players : TouchedByRemoval(p, i) \/ TouchedByAdding(p, to)}
<1>1. /\ TradesClosed(ps) /\ UNCHANGED outcome /\ Puts(place, place', i, to) /\ to \in Places
  BY FairParts DEF MoveGood, Puts, Places
<1>2. \A p \in Players \ ps : Offer(p) # NoGood =>
        ~TouchedByRemoval(p, i) /\ to # Offer(p) /\ to \notin Within(place, Offer(p))
  BY DEF TouchedByAdding
<1>. HIDE DEF ps
<1>3. ps \in SUBSET Players
  BY DEF ps
<1>. QED
  BY <1>1, <1>2, <1>3, ClosedIfTouched

LEMMA LoseStep == ASSUME Fair, NEW i \in Goods, LoseGood(i) PROVE Fair'
<1>. DEFINE ps == {p \in Players : TouchedByRemoval(p, i)}
<1>1. /\ TradesClosed(ps) /\ UNCHANGED outcome /\ Puts(place, place', i, Gone) /\ Gone \in Places
  BY FairParts DEF LoseGood, Puts, Places
<1>2. \A p \in Players : Offer(p) # NoGood => Offer(p) \in Goods
  BY FairParts
<1>3. \A p \in Players : Gone \notin Within(place, Offer(p))
  BY WithinHolds, NamesApart
<1>4. \A p \in Players \ ps : Offer(p) # NoGood =>
        ~TouchedByRemoval(p, i) /\ Gone # Offer(p) /\ Gone \notin Within(place, Offer(p))
  BY <1>2, <1>3, NamesApart
<1>. HIDE DEF ps
<1>5. ps \in SUBSET Players
  BY DEF ps
<1>. QED
  BY <1>1, <1>4, <1>5, ClosedIfTouched

LEMMA RequestStep ==
  ASSUME Fair, NEW p \in Players, NEW q \in Players, NEW i \in Goods, RequestTrade(p, q, i)
  PROVE  Fair'
<1>1. /\ p # q /\ Rooted(p, i, place) /\ Available(i) /\ MayStart(p, q)
      /\ tradeItems' = [tradeItems EXCEPT ![i] = p]
      /\ shown' = [shown EXCEPT ![p] = Snapshot(place, i)]
      /\ UNCHANGED <<place, outcome>>
  BY DEF RequestTrade, Rooted, Carries
<1>2. /\ TradeTypeOK /\ TradesMutual /\ OffersDisjoint /\ OfferAsShown /\ OffersRooted
      /\ NotAlone /\ place \in [Goods -> Places]
  BY FairParts
<1>3. PICK mine : mine = [state |-> "initiated", partner |-> q, item |-> i]
  OBVIOUS
<1>4. PICK his : his = IF trader[q].state = "none"
                       THEN [state |-> "acknowledge", partner |-> p, item |-> NoGood]
                       ELSE trader[q]
  OBVIOUS
<1>5. trader' = [trader EXCEPT ![p] = mine, ![q] = his]
  BY <1>3, <1>4 DEF RequestTrade
<1>. DEFINE Records == {NotTrading}
       \cup [state : {"acknowledge"}, partner : Players, item : {NoGood}]
       \cup [state : {"initiated"}, partner : Players, item : Goods]
       \cup [state : {"accept"}, partner : Players, item : Goods \cup {NoGood}]
<1>6. trader \in [Players -> Records]
  BY <1>2 DEF TradeTypeOK
<1>7. mine \in Records /\ his \in Records /\ mine.partner = q /\ mine.item = i
  <2>1. mine \in [state : {"initiated"}, partner : Players, item : Goods]
    BY <1>3
  <2>2. trader[q] \in Records
    BY <1>6
  <2>3. [state |-> "acknowledge", partner |-> p, item |-> NoGood]
          \in [state : {"acknowledge"}, partner : Players, item : {NoGood}]
    OBVIOUS
  <2>. QED
    BY <1>3, <1>4, <2>1, <2>2, <2>3
<1>. HIDE DEF Records
<1>8. /\ trader' \in [Players -> Records] /\ trader'[p] = mine /\ trader'[q] = his
      /\ \A r \in Players \ {p, q} : trader'[r] = trader[r]
  BY <1>1, <1>5, <1>6, <1>7
<1>9. his.partner = p /\ his.item = Offer(q)
  <2>1. CASE trader[q].state = "none"
    <3>1. Offer(q) = NoGood
      BY <1>2, <2>1, NotTradingIs
    <3>. QED
      BY <1>4, <2>1, <3>1
  <2>2. CASE trader[q].state # "none"
    BY <1>1, <1>4, <2>2 DEF MayStart, Offer
  <2>. QED
    BY <2>1, <2>2
<1>10. Offer(p) = NoGood /\ trader[p].partner \in {NoPlayer, q}
  <2>1. CASE trader[p].state = "none"
    BY <1>2, <2>1, NotTradingIs
  <2>2. CASE trader[p].state = "acknowledge" /\ trader[p].partner = q
    <3>1. trader[p] = [state |-> "acknowledge", partner |-> trader[p].partner, item |-> NoGood]
      BY <1>2, <2>2, TraderIs
    <3>. QED
      BY <2>2, <3>1 DEF Offer
  <2>. QED
    BY <1>1, <2>1, <2>2 DEF MayStart
<1>11. tradeItems[i] = NoPlayer /\ \A o \in Goods : tradeItems[o] # NoPlayer => ~Nested(place, i, o)
  BY <1>1 DEF Available, Nested
<1>12. Offer(p)' = i /\ \A r \in Players \ {p} : Offer(r)' = Offer(r)
  <2>1. Offer(p)' = mine.item
    BY <1>8 DEF Offer
  <2>2. \A r \in Players \ {p, q} : Offer(r)' = Offer(r)
    BY <1>8 DEF Offer
  <2>3. Offer(q)' = his.item
    BY <1>8 DEF Offer
  <2>. QED
    BY <1>7, <1>9, <2>1, <2>2, <2>3
<1>13. TradeTypeOK'
  BY <1>1, <1>2, <1>8 DEF TradeTypeOK, Records
<1>14. trader'[p].partner = q /\ trader'[q].partner = p
  BY <1>7, <1>8, <1>9
<1>15. \A r \in Players \ {p, q} : /\ trader'[r].partner = trader[r].partner
                                  /\ trader[r].partner # p /\ trader[r].partner # q
  <2>1. ASSUME NEW r \in Players \ {p, q}, trader[r].partner = p PROVE FALSE
    <3>1. trader[p].partner = r
      BY <1>2, <2>1 DEF TradesMutual
    <3>. QED
      BY <1>10, <2>1, <3>1, NamesApart
  <2>2. ASSUME NEW r \in Players \ {p, q}, trader[r].partner = q PROVE FALSE
    <3>1. trader[q].partner = r
      BY <1>2, <2>2 DEF TradesMutual
    <3>2. trader[q].state # "none"
      BY <1>2, <2>2, <3>1, NotTradingIs, PeopleAssumption
    <3>. QED
      BY <1>1, <2>2, <3>1, <3>2 DEF MayStart
  <2>. QED
    BY <1>8, <2>1, <2>2
<1>16. TradesMutual'
  <2>1. ASSUME NEW r \in Players, NEW t \in Players, trader'[r].partner = t
        PROVE  trader'[t].partner = r
    BY <1>1, <1>2, <1>14, <1>15, <2>1 DEF TradesMutual
  <2>2. ASSUME NEW r \in Players, NEW o \in Goods PROVE Offer(r)' = o <=> tradeItems'[o] = r
    <3>1. tradeItems'[i] = p /\ \A j \in Goods \ {i} : tradeItems'[j] = tradeItems[j]
      BY <1>1, <1>2 DEF TradeTypeOK
    <3>2. Offer(r) = o <=> tradeItems[o] = r
      BY <1>2 DEF TradesMutual
    <3>3. CASE o = i
      <4>1. Offer(r) # i
        BY <1>11, <3>2, <3>3, NamesApart
      <4>. QED
        BY <1>12, <3>1, <3>3, <4>1
    <3>4. CASE o # i
      BY <1>10, <1>12, <3>1, <3>2, <3>4, NamesApart
    <3>. QED
      BY <3>3, <3>4
  <2>. QED
    BY <2>1, <2>2 DEF TradesMutual, Offer
<1>17. OffersDisjoint'
  <2>1. \A j \in Goods \ {i} : tradeItems'[j] = tradeItems[j]
    BY <1>1
  <2>2. \A a, b \in Goods : Nested(place, a, b) => Nested(place, b, a)
    BY DEF Nested
  <2>3. ASSUME NEW a \in Goods, NEW b \in Goods, a # b,
               tradeItems'[a] # NoPlayer, tradeItems'[b] # NoPlayer
        PROVE  ~Nested(place', a, b)
    BY <1>1, <1>2, <1>11, <2>1, <2>2, <2>3 DEF OffersDisjoint
  <2>. QED
    BY <2>3 DEF OffersDisjoint
<1>18. OfferAsShown' /\ OffersRooted'
  <2>1. SUFFICES ASSUME NEW r \in Players, Offer(r)' # NoGood
                 PROVE  Snapshot(place', Offer(r)') = shown'[r] /\ Rooted(r, Offer(r)', place')
    BY DEF OfferAsShown, OffersRooted, Offer, Rooted, Snapshot
  <2>2. shown'[p] = Snapshot(place, i) /\ \A s \in Players \ {p} : shown'[s] = shown[s]
    BY <1>1 DEF Fair, ShownToAll
  <2>3. CASE r = p
    BY <1>1, <1>12, <2>2, <2>3
  <2>4. CASE r # p
    BY <1>1, <1>2, <1>12, <2>1, <2>2, <2>4 DEF OfferAsShown, OffersRooted
  <2>. QED
    BY <2>3, <2>4
<1>19. BothOrNone' /\ NotAlone' /\ ShownToAll'
  <2>1. NotAlone'
    BY <1>1, <1>2, <1>14, <1>15 DEF NotAlone
  <2>2. ShownToAll'
    BY <1>1 DEF Fair, ShownToAll
  <2>. QED
    BY <1>1, <2>1, <2>2 DEF BothOrNone, Fair, TradeFair
<1>. QED
  BY <1>13, <1>16, <1>17, <1>18, <1>19 DEF Fair, TradeFair
-----------------------------------------------------------------------------
(* The exchange.                                                           *)

(* What c has, or c himself. *)
At(at, c) == {c} \cup Within(at, c)

(* What one player has is not in what another offers. *)
LEMMA Elsewhere ==
  ASSUME NEW at, NEW r \in Players, NEW c \in Players, c # r,
         NEW o \in Goods, Rooted(r, o, at), NEW d \in At(at, c)
  PROVE  d # o /\ d \notin Within(at, o)
<1>1. PICK e \in {r, Ground} : e \notin Goods /\ o \in Within(at, e)
  BY RootIs
<1>2. c \notin Goods /\ c # e
  BY <1>1, NamesApart
<1>3. o \notin Within(at, c)
  BY <1>1, <1>2, OneHolder
<1>4. CASE d = c
  BY <1>2, <1>4, WithinHolds
<1>5. CASE d \in Within(at, c)
  BY <1>2, <1>3, <1>5, WithinAbove
<1>. QED
  BY <1>4, <1>5 DEF At

LEMMA ThirdParty ==
  ASSUME NEW at, NEW after, NEW i, NEW to, Puts(at, after, i, to),
         NEW r \in Players, NEW o \in Goods, Rooted(r, o, at),
         NEW c \in Players, c # r, to \in At(at, c),
         i # o, i \notin Within(at, o), o \notin Within(at, i)
  PROVE  /\ Within(after, o) = Within(at, o) /\ Snapshot(after, o) = Snapshot(at, o)
         /\ Rooted(r, o, after)
<1>1. to # o /\ to \notin Within(at, o)
  BY Elsewhere
<1>2. Within(after, o) = Within(at, o) /\ Snapshot(after, o) = Snapshot(at, o)
  BY <1>1, ShowStays
<1>3. Rooted(r, o, after)
  BY OthersStay DEF Rooted
<1>. QED
  BY <1>2, <1>3

(* Where there was room there is, unless something was put there. *)
LEMMA FreeStays ==
  ASSUME NEW at, NEW after, NEW i, NEW to, Puts(at, after, i, to), NEW d, d # to, Free(at, d)
  PROVE  Free(after, d)
<1>. DEFINE had == {j \in Goods : at[j] = d}
            has == {j \in Goods : after[j] = d}
<1>1. has \subseteq had
  BY DEF Puts
<1>2. IsFiniteSet(had)
  BY NamesApart, FS_Subset
<1>3. Cardinality(has) \in Nat /\ Cardinality(had) \in Nat /\ Cardinality(has) <= Cardinality(had)
  BY <1>1, <1>2, FS_Subset, FS_CardinalityType
<1>4. Slots \in Nat /\ BoxRoom \in Nat
  BY TradeAssumption
<1>5. PICK m \in Nat, n \in Nat : m = Cardinality(has) /\ n = Cardinality(had) /\ m <= n
  BY <1>3
<1>6. (n < Slots => m < Slots) /\ (n < BoxRoom => m < BoxRoom)
  BY <1>4, <1>5
<1>. QED
  BY <1>5, <1>6 DEF Free

(* Two who trade, and what they offer each other. *)
Deal(at, p, q, i, o) ==
  /\ at \in [Goods -> Places] /\ p \in Players /\ q \in Players /\ p # q
  /\ i \in Goods /\ o \in Goods /\ ~Nested(at, i, o)
  /\ Rooted(p, i, at) /\ Rooted(q, o, at)

(* The first of the two moves. *)
Handed(at, first, p, q, i, o, d) ==
  /\ Within(first, i) = Within(at, i)
  /\ o \notin Within(first, p)
  /\ d \notin At(at, p)
  /\ \A x \in Within(at, p) \ At(at, i) : x \in Within(first, p)
  /\ i \in Within(first, q)

LEMMA FirstMove ==
  ASSUME NEW at, NEW first, NEW p, NEW q, NEW i, NEW o, Deal(at, p, q, i, o),
         NEW d \in At(at, q), d \in Places, Puts(at, first, i, d)
  PROVE  Handed(at, first, p, q, i, o, d)
<1>1. /\ p \in Players /\ q \in Players /\ p # q /\ i \in Goods /\ o \in Goods
      /\ Rooted(p, i, at) /\ Rooted(q, o, at) /\ ~Nested(at, i, o)
  BY DEF Deal
<1>2. d # i /\ d \notin Within(at, i)
  BY <1>1, Elsewhere
<1>3. PICK c \in {p, Ground} : c \notin Goods /\ i \in Within(at, c)
  BY <1>1, RootIs
<1>4. Within(first, i) = Within(at, i)
  <2>1. i \notin Within(at, i)
    BY <1>3, NotInItself
  <2>. QED
    BY <1>1, <1>2, <2>1, BoxStays
<1>5. p \notin Goods /\ q \notin Goods
  BY <1>1, NamesApart
<1>7. o \notin Within(first, p)
  <2>1. SUFFICES ASSUME o \in Within(first, p) PROVE FALSE
    OBVIOUS
  <2>2. o # i /\ o \notin Within(first, i)
    BY <1>1, <1>4 DEF Nested
  <2>3. o \in Within(at, p)
    BY <2>1, <2>2, OthersCome
  <2>4. PICK e \in {q, Ground} : e \notin Goods /\ o \in Within(at, e)
    BY <1>1, RootIs
  <2>5. e # p
    BY <1>1, NamesApart
  <2>. QED
    BY <1>5, <2>3, <2>4, <2>5, OneHolder
<1>8. d \notin At(at, p)
  <2>1. Within(at, p) \cap Within(at, q) = {}
    BY <1>1, <1>5, OneHolder
  <2>2. p \notin Within(at, q) /\ q \notin Within(at, p)
    BY <1>5, WithinHolds
  <2>. QED
    BY <1>1, <2>1, <2>2 DEF At
<1>9. \A x \in Within(at, p) \ At(at, i) : x \in Within(first, p)
  BY OthersStay DEF At
<1>10. i \in Within(first, q)
  <2>1. first[i] = d
    BY DEF Puts
  <2>2. CASE d = q
    BY <1>1, <2>1, <2>2, WithinHolds
  <2>3. CASE d \in Within(at, q)
    <3>1. d \in Within(first, q)
      BY <1>2, <2>3, OthersStay
    <3>. QED
      BY <1>1, <2>1, <3>1, WithinHolds
  <2>. QED
    BY <2>2, <2>3 DEF At
<1>. QED
  BY <1>4, <1>7, <1>8, <1>9, <1>10 DEF Handed

(* The second, unless the first has put its item into what is to move now. *)
LEMMA SecondMove ==
  ASSUME NEW at, NEW first, NEW after, NEW p, NEW q, NEW i, NEW o, Deal(at, p, q, i, o),
         NEW d \in At(at, q), d \in Places, Puts(at, first, i, d), d \notin At(at, o),
         NEW e \in At(first, p), Puts(first, after, o, e)
  PROVE  Carries(after, q, i) /\ Carries(after, p, o)
<1>1. /\ p \in Players /\ q \in Players /\ p # q /\ i \in Goods /\ o \in Goods
      /\ ~Nested(at, i, o)
  BY DEF Deal
<1>2. i # o /\ i \notin Within(at, o)
  BY <1>1 DEF Nested
<1>3. i \in Within(first, q) /\ o \notin Within(first, p)
  <2>1. Handed(at, first, p, q, i, o, d)
    BY FirstMove, Zenon
  <2>. QED
    BY <2>1 DEF Handed
<1>4. Within(first, o) = Within(at, o)
  BY <1>1, <1>2, BoxStays DEF At
<1>5. i \in Within(after, q)
  BY <1>2, <1>3, <1>4, OthersStay
<1>6. o \in Within(after, p)
  <2>1. after[o] = e
    BY DEF Puts
  <2>2. CASE e = p
    BY <1>1, <2>1, <2>2, WithinHolds
  <2>3. CASE e \in Within(first, p)
    <3>1. p \notin Goods
      BY <1>1, NamesApart
    <3>2. e # o /\ e \notin Within(first, o)
      BY <1>1, <1>3, <2>3, <3>1, WithinAbove
    <3>3. e \in Within(after, p)
      BY <2>3, <3>2, OthersStay
    <3>. QED
      BY <1>1, <2>1, <3>3, WithinHolds
  <2>. QED
    BY <2>2, <2>3 DEF At
<1>. QED
  BY <1>5, <1>6 DEF Carries

(* What the exchange is about. *)
LEMMA DealIs ==
  ASSUME Fair, NEW p \in Players, trader[p].state # "none",
         Offer(p) # NoGood, Offer(trader[p].partner) # NoGood
  PROVE  Deal(place, p, trader[p].partner, Offer(p), Offer(trader[p].partner))
<1>. DEFINE q == trader[p].partner
<1>1. q \in Players /\ q # p /\ trader[q].partner = p
  BY FairParts, TraderIs DEF NotAlone, TradesMutual
<1>2. Offer(p) \in Goods /\ Offer(q) \in Goods
      /\ Rooted(p, Offer(p), place) /\ Rooted(q, Offer(q), place)
  BY <1>1, FairParts
<1>3. tradeItems[Offer(p)] = p /\ tradeItems[Offer(q)] = q
  BY <1>1, <1>2, FairParts DEF TradesMutual
<1>4. ~Nested(place, Offer(p), Offer(q))
  BY <1>1, <1>2, <1>3, FairParts, NamesApart DEF OffersDisjoint
<1>. QED
  BY <1>1, <1>2, <1>4, FairParts DEF Deal

LEMMA DestinationIs ==
  ASSUME NEW at, NEW p \in Players, NEW i, NEW cached,
         cached = NoGood \/ (cached \in Boxes /\ Carries(at, p, cached)),
         NEW d \in Destinations(at, p, i, cached)
  PROVE  /\ d \in At(at, p) /\ d \in Places
         /\ d = p \/ (d \in Boxes /\ Carries(at, p, d))
         /\ cached # NoGood => d = cached
         /\ cached = NoGood /\ d # p =>
              Free(at, d) /\ d # i /\ d # Offer(p) /\ d \notin Within(at, Offer(p))
         /\ cached = NoGood /\ ~Free(at, d) =>
              \A b \in Boxes : ~(/\ Carries(at, p, b) /\ Free(at, b) /\ b # i
                                 /\ b # Offer(p) /\ b \notin Within(at, Offer(p)))
BY DEF Destinations, At, Places, Carries

(* What is neither offer's own is where it was, whoever else offers it. *)
LEMMA OthersKept ==
  ASSUME Fair, NEW p \in Players, NEW q \in Players, Deal(place, p, q, Offer(p), Offer(q)),
         NEW d \in At(place, q), d \in Places, NEW first, Puts(place, first, Offer(p), d),
         NEW e \in At(first, p),
         place' = first \/ Puts(first, place', Offer(q), e),
         NEW r \in Players \ {p, q}, Offer(r) # NoGood
  PROVE  Same(r)
<1>. DEFINE x == Offer(r)
            i == Offer(p)
            o == Offer(q)
<1>0. Within(first, i) = Within(place, i)
  <2>1. Handed(place, first, p, q, i, o, d)
    BY FirstMove
  <2>. QED
    BY <2>1 DEF Handed
<1>1. /\ p # q /\ i \in Goods /\ o \in Goods /\ ~Nested(place, i, o)
  BY DEF Deal
<1>2. x \in Goods /\ Rooted(r, x, place)
  BY FairParts
<1>3. tradeItems[x] = r /\ tradeItems[i] = p /\ tradeItems[o] = q
  BY <1>1, <1>2, FairParts DEF TradesMutual
<1>4. ~Nested(place, i, x) /\ ~Nested(place, o, x)
  BY <1>1, <1>2, <1>3, FairParts, NamesApart DEF OffersDisjoint
<1>. HIDE DEF x
<1>5. i # x /\ i \notin Within(place, x) /\ x \notin Within(place, i)
      /\ o # x /\ o \notin Within(place, x) /\ x \notin Within(place, o)
  BY <1>4 DEF Nested
<1>6. /\ Within(first, x) = Within(place, x) /\ Snapshot(first, x) = Snapshot(place, x)
      /\ Rooted(r, x, first)
  BY <1>2, <1>5, ThirdParty
<1>7. CASE place' = first
  BY <1>6, <1>7 DEF Same, x
<1>8. CASE Puts(first, place', Offer(q), e)
  <2>2. x \notin Within(first, o)
    BY <1>0, <1>5, OthersCome
  <2>3. /\ Within(place', x) = Within(first, x) /\ Snapshot(place', x) = Snapshot(first, x)
        /\ Rooted(r, x, place')
    BY <1>2, <1>5, <1>6, <1>8, <2>2, ThirdParty
  <2>. QED
    BY <1>6, <2>3 DEF Same, x
<1>. QED
  BY <1>7, <1>8

(* The place chosen first, d1, is not in what moves second, and there is   *)
(* room for that where it goes then: d2, as chosen before the first move,  *)
(* or what is chosen again, since d2 is still to be had.                   *)
LEMMA RoomForBoth ==
  ASSUME Fair, NEW p \in Players, NEW q \in Players, Deal(place, p, q, Offer(p), Offer(q)),
         NEW cp \in {NoGood} \cup {b \in Boxes : Carries(place, p, b)},
         NEW cq \in {NoGood} \cup {b \in Boxes : Carries(place, q, b)},
         cp \notin At(place, Offer(p)), cq \notin At(place, Offer(q)),
         NEW d1 \in Destinations(place, q, Offer(p), cq),
         NEW d2 \in Destinations(place, p, Offer(q), cp),
         Free(place, d2), NEW first, Puts(place, first, Offer(p), d1),
         NEW d, d = d2 \/ d \in Destinations(first, p, Offer(q), NoGood)
  PROVE  Free(first, d) /\ d \in At(first, p) /\ d1 \notin At(place, Offer(q))
<1>1. /\ d1 \in At(place, q) /\ d1 \in Places /\ (d1 = q \/ d1 \in Boxes)
      /\ cq # NoGood => d1 = cq
      /\ cq = NoGood /\ d1 # q => d1 # Offer(q) /\ d1 \notin Within(place, Offer(q))
  BY DestinationIs
<1>2. /\ d2 \in At(place, p) /\ (d2 = p \/ (d2 \in Boxes /\ Carries(place, p, d2)))
      /\ cp # NoGood => d2 = cp
      /\ cp = NoGood /\ d2 # p => d2 # Offer(p) /\ d2 \notin Within(place, Offer(p))
  BY DestinationIs
<1>3. Handed(place, first, p, q, Offer(p), Offer(q), d1)
  BY <1>1, FirstMove
<1>4. Offer(p) \in Goods /\ Offer(q) \in Goods /\ p \notin Goods /\ q \notin Goods
  BY NamesApart DEF Deal
<1>5. d1 \notin At(place, Offer(q))
  <2>1. q \notin At(place, Offer(q))
    BY <1>4, WithinHolds DEF At
  <2>. QED
    BY <1>1, <2>1 DEF At
<1>6. Free(first, d2)
  BY <1>2, <1>3, FreeStays DEF Handed
<1>7. d2 \in At(first, p) /\ (d2 # p => d2 \in Within(first, p) /\ d2 \notin At(place, Offer(p)))
  <2>1. CASE d2 = p
    BY <2>1 DEF At
  <2>2. CASE d2 # p
    <3>1. d2 \notin At(place, Offer(p))
      BY <1>2, <2>2 DEF At
    <3>2. d2 \in Within(first, p)
      BY <1>2, <1>3, <2>2, <3>1 DEF Handed, Carries
    <3>. QED
      BY <3>1, <3>2 DEF At
  <2>. QED
    BY <2>1, <2>2
<1>8. CASE d = d2
  BY <1>5, <1>6, <1>7, <1>8
<1>9. CASE d \in Destinations(first, p, Offer(q), NoGood)
  <2>1. /\ d \in At(first, p)
        /\ d # p => Free(first, d)
        /\ ~Free(first, d) =>
             \A b \in Boxes : ~(/\ Carries(first, p, b) /\ Free(first, b) /\ b # Offer(q)
                                /\ b # Offer(p) /\ b \notin Within(first, Offer(p)))
    BY <1>9, DestinationIs
  <2>2. ASSUME ~Free(first, d) PROVE FALSE
    <3>1. d = p /\ d2 # p
      BY <1>6, <2>1, <2>2
    <3>2. d2 \in Boxes /\ Carries(first, p, d2) /\ d2 # Offer(q)
      BY <1>2, <1>3, <1>7, <3>1 DEF Handed, Carries
    <3>3. d2 # Offer(p) /\ d2 \notin Within(first, Offer(p))
      BY <1>3, <1>7, <3>1 DEF Handed, At
    <3>. QED
      BY <1>6, <2>1, <2>2, <3>2, <3>3
  <2>. QED
    BY <1>5, <2>1, <2>2
<1>. QED
  BY <1>8, <1>9

(* What the two moves make of the places. *)
LEMMA MovesAre ==
  ASSUME NEW at \in [Goods -> Places], NEW i \in Goods, NEW to \in Places
  PROVE  /\ Moved(at, i, to) = at \/ Puts(at, Moved(at, i, to), i, to)
         /\ Free(at, to) => Puts(at, Moved(at, i, to), i, to)
         /\ Moved(at, i, to) \in [Goods -> Places]
BY DEF Moved, Fits, Puts

(* The second place is with p, whatever the caches hold. *)
LEMMA SecondPlace ==
  ASSUME NEW p, NEW q, NEW i, NEW o, Deal(place, p, q, i, o),
         NEW cp \in {NoGood} \cup {b \in Boxes : Carries(place, p, b)},
         NEW d2 \in Destinations(place, p, o, cp),
         NEW first, NEW d1, Puts(place, first, i, d1), NEW d,
         (place[i] = Ground /\ d = d2) \/ d \in Destinations(first, p, o, NoGood)
  PROVE  d \in At(first, p) /\ d \in Places
<1>1. p \in Players /\ i \in Goods /\ p \notin Goods /\ Ground \notin Goods /\ p # Ground
  BY NamesApart DEF Deal
<1>2. CASE d \in Destinations(first, p, o, NoGood)
  BY <1>1, <1>2, DestinationIs
<1>3. CASE place[i] = Ground /\ d = d2
  <2>1. d \in Places /\ (d = p \/ d \in Within(place, p))
    BY <1>1, <1>3, DestinationIs DEF Carries
  <2>2. CASE d = p
    BY <2>1, <2>2 DEF At
  <2>3. CASE d \in Within(place, p)
    <3>1. i \in Within(place, Ground) /\ d \notin Within(place, Ground)
      BY <1>1, <1>3, <2>3, WithinHolds, OneHolder
    <3>2. d # i /\ d \notin Within(place, i)
      BY <3>1, WithinWithin
    <3>3. d \in Within(first, p)
      BY <2>3, <3>2, OthersStay
    <3>. QED
      BY <2>1, <3>3 DEF At
  <2>. QED
    BY <2>1, <2>2, <2>3
<1>. QED
  BY <1>2, <1>3

LEMMA OutcomeIs ==
  ASSUME NEW at, NEW p, NEW q, NEW i1, NEW i2, NEW cp, NEW cq,
         \/ at = place
         \/ Carries(at, q, i1) /\ Carries(at, p, i2)
         \/ cp \in At(place, i1)
         \/ cq \in At(place, i2)
  PROVE  OutcomeOf(at, p, q, i1, i2, cp, cq) \in {"kept", "swapped", "intoOwnOffer"}
<1>1. PICK a \in BOOLEAN, b \in BOOLEAN, c \in BOOLEAN :
        /\ a <=> Carries(at, q, i1) /\ Carries(at, p, i2)
        /\ b <=> at = place
        /\ c <=> cp \in {i1} \cup Within(place, i1) \/ cq \in {i2} \cup Within(place, i2)
  OBVIOUS
<1>2. OutcomeOf(at, p, q, i1, i2, cp, cq) =
        CASE a -> "swapped" [] b -> "kept" [] c -> "intoOwnOffer" [] OTHER -> "half"
  BY <1>1 DEF OutcomeOf
<1>3. a \/ b \/ c
  BY <1>1 DEF At
<1>. QED
  BY <1>2, <1>3

LEMMA ExchangeStep ==
  ASSUME Fair, NEW p \in Players, trader[p].state # "none",
         NEW removable \in BOOLEAN,
         NEW cp \in {NoGood} \cup {b \in Boxes : Carries(place, p, b)},
         NEW cq \in {NoGood} \cup {b \in Boxes : Carries(place, trader[p].partner, b)},
         Exchange(p, trader[p].partner, removable, cp, cq)
  PROVE  Fair'
<1>1. TradesClosed({p})
  BY DEF Exchange
<1>2. CASE Offer(p) = NoGood \/ Offer(trader[p].partner) = NoGood
  <2>1. UNCHANGED place /\ outcome' = "kept"
    BY <1>2 DEF Exchange
  <2>2. Untouched(ClosedWith({p}))
    BY <2>1, FairParts DEF Untouched
  <2>3. place' \in [Goods -> Places]
    BY <2>1, FairParts
  <2>. QED
    BY <1>1, <2>1, <2>2, <2>3, ClosedKeeps
<1>3. CASE ~(Offer(p) = NoGood \/ Offer(trader[p].partner) = NoGood)
  <2>1. PICK q : q = trader[p].partner
    OBVIOUS
  <2>2. Deal(place, p, q, Offer(p), Offer(q)) /\ q \in Players
    BY <1>3, <2>1, DealIs DEF Deal
  <2>3. ClosedWith({p}) = {p, q}
    <3>1. q # NoPlayer
      BY <2>2, NamesApart
    <3>. QED
      BY <2>1, <3>1 DEF ClosedWith
  <2>4. PICK i1 \in Goods, i2 \in Goods : i1 = Offer(p) /\ i2 = Offer(q)
    BY <2>2 DEF Deal
  <2>5. cq \in {NoGood} \cup {b \in Boxes : Carries(place, q, b)}
    BY <2>1
  <2>6. Exchange(p, q, removable, cp, cq)
    BY <2>1
  <2>7. outcome' = OutcomeOf(place', p, q, i1, i2, cp, cq)
    BY <1>3, <2>1, <2>4, <2>6 DEF Exchange
  <2>8. PICK d1 \in Destinations(place, q, i1, cq), d2 \in Destinations(place, p, i2, cp) :
          IF BothFit(place, i1, d1, i2, d2) /\ removable
          THEN \E d \in IF place[i1] = Ground THEN {d2}
                        ELSE Destinations(Moved(place, i1, d1), p, i2, NoGood) :
                  place' = Moved(Moved(place, i1, d1), i2, d)
          ELSE UNCHANGED place
    BY <1>3, <2>1, <2>4, <2>6 DEF Exchange
  <2>9. place \in [Goods -> Places]
    BY FairParts
  <2>10. /\ Untouched(ClosedWith({p})) /\ place' \in [Goods -> Places]
         /\ outcome' \in {"kept", "swapped", "intoOwnOffer"}
    <3>1. CASE UNCHANGED place
      <4>1. outcome' \in {"kept", "swapped", "intoOwnOffer"}
        BY <2>7, <3>1, OutcomeIs
      <4>2. Untouched(ClosedWith({p}))
        BY <3>1, FairParts DEF Untouched
      <4>. QED
        BY <2>9, <3>1, <4>1, <4>2
    <3>2. CASE BothFit(place, i1, d1, i2, d2) /\ removable
      <4>1. PICK first : first = Moved(place, i1, d1)
        OBVIOUS
      <4>2. PICK d : /\ \/ place[i1] = Ground /\ d = d2
                        \/ d \in Destinations(first, p, i2, NoGood)
                     /\ place' = Moved(first, i2, d)
        BY <2>8, <3>2, <4>1
      <4>3. Free(place, d1) /\ Free(place, d2)
        BY <3>2 DEF BothFit, Fits
      <4>4. d1 \in At(place, q) /\ d1 \in Places
        BY <2>2, <2>5, DestinationIs
      <4>5. Puts(place, first, i1, d1) /\ first \in [Goods -> Places]
        BY <2>9, <4>1, <4>3, <4>4, MovesAre
      <4>6. d \in At(first, p) /\ d \in Places
        BY <2>2, <2>4, <4>2, <4>5, SecondPlace
      <4>7. /\ place' = first \/ Puts(first, place', i2, d)
            /\ Free(first, d) => Puts(first, place', i2, d)
            /\ place' \in [Goods -> Places]
        BY <4>2, <4>5, <4>6, MovesAre
      <4>8. \A r \in Players \ {p, q} : Offer(r) # NoGood => Same(r)
        BY <2>2, <2>4, <4>4, <4>5, <4>6, <4>7, OthersKept
      <4>9. ASSUME cp \notin At(place, i1), cq \notin At(place, i2)
             PROVE  Carries(place', q, i1) /\ Carries(place', p, i2)
        <5>1. Free(first, d) /\ d \in At(first, p) /\ d1 \notin At(place, i2)
          BY <2>2, <2>4, <2>5, <4>2, <4>3, <4>5, <4>9, RoomForBoth
        <5>. QED
          BY <2>2, <2>4, <4>4, <4>5, <4>7, <5>1, SecondMove
      <4>10. outcome' \in {"kept", "swapped", "intoOwnOffer"}
        BY <2>7, <4>9, OutcomeIs
      <4>. QED
        BY <2>3, <4>7, <4>8, <4>10 DEF Untouched, Same
    <3>. QED
      BY <2>8, <3>1, <3>2
  <2>. QED
    BY <1>1, <2>10, ClosedKeeps
<1>. QED
  BY <1>2, <1>3
-----------------------------------------------------------------------------
(* The theorem.                                                            *)

LEMMA SetAcceptStep ==
  ASSUME Fair, NEW p \in Players, trader[p].state \in {"acknowledge", "initiated"}, SetAccept(p)
  PROVE  Fair'
<1>1. PICK accepted : accepted = [trader[p] EXCEPT !.state = "accept"]
  OBVIOUS
<1>2. /\ trader' = [trader EXCEPT ![p] = accepted]
      /\ UNCHANGED <<tradeItems, place, shown, outcome>>
  BY <1>1 DEF SetAccept
<1>3. /\ TradeTypeOK /\ TradesMutual /\ OffersDisjoint /\ OfferAsShown /\ OffersRooted
      /\ NotAlone
  BY FairParts
<1>. DEFINE Accepting == [state : {"accept"}, partner : Players, item : Goods \cup {NoGood}]
            Records == {NotTrading}
              \cup [state : {"acknowledge"}, partner : Players, item : {NoGood}]
              \cup [state : {"initiated"}, partner : Players, item : Goods] \cup Accepting
<1>4. trader \in [Players -> Records]
  BY <1>3 DEF TradeTypeOK
<1>5. accepted \in Records
  <2>1. accepted \in Accepting
    BY <1>1, <1>3, TraderIs
  <2>. QED
    BY <2>1
<1>6. accepted.partner = trader[p].partner /\ accepted.item = trader[p].item
  BY <1>1, <1>4 DEF NotTrading
<1>. HIDE DEF Records
<1>7. trader' \in [Players -> Records] /\ trader'[p] = accepted
      /\ \A r \in Players \ {p} : trader'[r] = trader[r]
  BY <1>2, <1>4, <1>5
<1>8. \A r \in Players : trader'[r].partner = trader[r].partner /\ trader'[r].item = trader[r].item
  BY <1>6, <1>7
<1>9. TradeTypeOK'
  BY <1>2, <1>3, <1>7 DEF TradeTypeOK, Records
<1>10. TradesMutual' /\ NotAlone'
  BY <1>2, <1>3, <1>8 DEF TradesMutual, NotAlone, Offer
<1>11. OffersDisjoint'
  BY <1>2, <1>3 DEF OffersDisjoint, Nested, Within
<1>12. OfferAsShown' /\ OffersRooted'
  <2>1. SUFFICES ASSUME NEW r \in Players, Offer(r)' # NoGood
                 PROVE  Snapshot(place', Offer(r)') = shown'[r] /\ Rooted(r, Offer(r)', place')
    BY DEF OfferAsShown, OffersRooted, Offer, Rooted, Snapshot
  <2>2. Offer(r)' = Offer(r)
    BY <1>8 DEF Offer
  <2>. QED
    BY <1>2, <1>3, <2>1, <2>2 DEF OfferAsShown, OffersRooted
<1>13. BothOrNone' /\ ShownToAll'
  BY <1>2 DEF Fair, TradeFair, BothOrNone, ShownToAll
<1>. QED
  BY <1>9, <1>10, <1>11, <1>12, <1>13 DEF Fair, TradeFair

LEMMA FairStep == Fair /\ [TradeNext]_tradeVars => Fair'
<1>. SUFFICES ASSUME Fair, [TradeNext]_tradeVars PROVE Fair'
  OBVIOUS
<1>1. ASSUME NEW p \in Players, NEW q \in Players, NEW i \in Goods, RequestTrade(p, q, i)
      PROVE  Fair'
  BY <1>1, RequestStep
<1>2. ASSUME NEW p \in Players, AcceptTrade(p) PROVE Fair'
  <2>1. trader[p].state \in {"acknowledge", "initiated"}
    BY <1>2 DEF AcceptTrade
  <2>2. CASE SetAccept(p)
    BY <2>1, <2>2, SetAcceptStep
  <2>3. CASE \E removable \in BOOLEAN,
                cp \in {NoGood} \cup {b \in Boxes : Carries(place, p, b)},
                cq \in {NoGood} \cup {b \in Boxes : Carries(place, trader[p].partner, b)} :
               Exchange(p, trader[p].partner, removable, cp, cq)
    BY <2>1, <2>3, ExchangeStep
  <2>. QED
    BY <1>2, <2>2, <2>3 DEF AcceptTrade
<1>3. ASSUME NEW p \in Players, CancelTrade(p) PROVE Fair'
  BY <1>3, ClosedInPlace DEF CancelTrade
<1>4. ASSUME NEW i \in Goods, NEW to \in Players \cup Boxes \cup {Ground}, MoveGood(i, to)
      PROVE  Fair'
  BY <1>4, MoveStep
<1>5. ASSUME NEW i \in Goods, LoseGood(i) PROVE Fair'
  BY <1>5, LoseStep
<1>6. ASSUME NEW i \in Goods, ChangeGood(i) PROVE Fair'
  <2>. DEFINE ps == {p \in Players : Offer(p) # NoGood /\
                       (i = Offer(p) \/ i \in Within(place, Offer(p)))}
  <2>1. TradesClosed(ps) /\ UNCHANGED <<place, outcome>> /\ ps \in SUBSET Players
    BY <1>6 DEF ChangeGood
  <2>. HIDE DEF ps
  <2>. QED
    BY <2>1, ClosedInPlace
<1>7. CASE UNCHANGED tradeVars
  <2>1. UNCHANGED <<trader, tradeItems, place, shown, outcome>>
    BY <1>7 DEF tradeVars
  <2>2. TradeTypeOK' /\ BothOrNone' /\ ShownToAll' /\ NotAlone'
    BY <2>1 DEF Fair, TradeFair, TradeTypeOK, BothOrNone, ShownToAll, NotAlone
  <2>3. TradesMutual' /\ OffersDisjoint'
    BY <2>1 DEF Fair, TradeFair, TradesMutual, OffersDisjoint, Offer, Nested
  <2>4. OfferAsShown' /\ OffersRooted'
    BY <2>1 DEF Fair, TradeFair, OfferAsShown, OffersRooted, Offer, Snapshot, Rooted
  <2>. QED
    BY <2>2, <2>3, <2>4 DEF Fair, TradeFair
<1>. QED
  BY <1>1, <1>2, <1>3, <1>4, <1>5, <1>6, <1>7 DEF TradeNext

(* Whatever is offered, accepted, cancelled, moved, lost or changed, and   *)
(* whatever the caches of the players hold, partners point to each other,  *)
(* no item is on offer twice, an offer is as it was shown until its trade  *)
(* is closed, and accepting swaps both items or none, or puts one of them  *)
(* into what its new owner gives away (playerRequestTrade,                 *)
(* playerAcceptTrade, internalCloseTrade of Game and the hooks of Player). *)
THEOREM TradeAlwaysFair == TradeSpec => []TradeFair
<1>1. Fair => TradeFair
  BY DEF Fair
<1>. QED
  BY <1>1, FairInit, FairStep, PTL DEF TradeSpec
-----------------------------------------------------------------------------
(***************************************************************************)
(* Guild: who belongs to one and who leads it.                             *)
(***************************************************************************)

(* The inductive invariant.  A rank that waits in the database counts no   *)
(* less than one in game: a failed save brings it back.  Who is not in     *)
(* game has no Player object, and no guild has an id not given yet.        *)
RanksReal == \A p \in Players :
  /\ ranks[p] = NoRank \/ GuildExists(ranks[p].guild)
  /\ members[p].rank = NoRank \/ GuildExists(members[p].rank.guild)

IdsGiven == \A g \in GuildIds : GuildExists(g) => g <= founded

Chartered == GuildTypeOK /\ RanksReal /\ IdsGiven

SomeRank == {NoRank} \cup [guild : GuildIds, level : 1 .. 3]

LEMMA RankType ==
  ASSUME GuildTypeOK, NEW p \in Players
  PROVE  /\ ranks[p] \in SomeRank /\ members[p].rank \in SomeRank /\ Rank(p) \in SomeRank
         /\ members[p].online \in BOOLEAN /\ members[p].invites \in SUBSET GuildIds
BY DEF GuildTypeOK, SomeRank, Rank

LEMMA NoRankIs ==
  /\ NoRank.guild = 0 /\ 0 \notin GuildIds
  /\ \A g, l : RankOf(g, l).guild = g /\ RankOf(g, l).level = l
  /\ \A r \in SomeRank : r = NoRank <=> r.guild = 0
  /\ \A r \in SomeRank : r # NoRank => r.guild \in GuildIds /\ r.level \in 1 .. 3
BY GuildAssumption DEF NoRank, RankOf, GuildIds, SomeRank

LEMMA CharteredInit == GuildInit => Chartered
BY GuildAssumption DEF GuildInit, Chartered, GuildTypeOK, RanksReal, IdsGiven, GuildExists,
   Absent, NoRank, GuildIds
-----------------------------------------------------------------------------
(* What a step may do to who leads and who belongs to a guild.             *)

Leads == \A g \in GuildIds : GuildExists(g) /\ GuildExists(g)' /\ Led(g) => Led(g)'
Belongs == \A p \in Players : Rank(p)'.guild \in {0, Rank(p).guild}
OthersBelong(p) == \A q \in Players : q = p \/ Rank(q)'.guild = Rank(q).guild

(* Ranks that count for what they did, and guilds that stay.               *)
LEMMA RanksStay ==
  ASSUME UNCHANGED owners, \A p \in Players : Rank(p)' = Rank(p)
  PROVE  Leads /\ Belongs
BY DEF Leads, Belongs, Led, GuildExists

LEMMA LoginStep ==
  ASSUME Chartered, NEW p \in Players, GuildLogin(p)
  PROVE  Chartered' /\ Leads /\ Belongs
<1>. USE DEF Chartered
<1>1. /\ members' = [members EXCEPT ![p] = [online |-> TRUE, rank |-> ranks[p],
                       invites |-> IF ranks[p] = NoRank THEN invites[p] ELSE {}]]
      /\ UNCHANGED <<founded, owners, ranks, invites>>
  BY NoRankIs, RankType DEF GuildLogin, RanksReal, TablesStay, GuildExists
<1>2. GuildTypeOK'
  BY <1>1 DEF GuildTypeOK
<1>3. \A q \in Players : Rank(q)' = Rank(q)
  BY <1>1 DEF Rank, GuildTypeOK, GuildLogin
<1>4. RanksReal' /\ IdsGiven'
  BY <1>1 DEF RanksReal, IdsGiven, GuildExists, GuildTypeOK
<1>. QED
  BY <1>1, <1>2, <1>3, <1>4, RanksStay

(* A save that succeeds writes the rank in game. *)
LEMMA SavedIs ==
  ASSUME Chartered, NEW p \in Players, Saved(p)
  PROVE  /\ IF Savable(p)
            THEN /\ ranks' = [ranks EXCEPT ![p] = members[p].rank]
                 /\ invites' = [invites EXCEPT ![p] = members[p].invites]
            ELSE UNCHANGED <<ranks, invites>>
         /\ UNCHANGED <<founded, owners>>
<1>1. SavedRank(p) = members[p].rank
  BY NoRankIs, RankType DEF Chartered, RanksReal, SavedRank, GuildExists
<1>. QED
  BY <1>1 DEF Saved

LEMMA SaveStep ==
  ASSUME Chartered, NEW p \in Players, SavePlayer(p)
  PROVE  Chartered' /\ Leads /\ Belongs
<1>. USE DEF Chartered
<1>1. Saved(p) /\ UNCHANGED members /\ members[p].online
  BY DEF SavePlayer
<1>2. GuildTypeOK'
  BY <1>1, SavedIs, RankType DEF GuildTypeOK, SomeRank
<1>3. \A q \in Players : Rank(q)' = Rank(q)
  BY <1>1, SavedIs DEF Rank, GuildTypeOK
<1>4. RanksReal' /\ IdsGiven'
  BY <1>1, SavedIs DEF RanksReal, IdsGiven, GuildExists, GuildTypeOK
<1>. QED
  BY <1>1, <1>2, <1>3, <1>4, SavedIs, RanksStay

(* Only a logout whose save fails loses anything. *)
LEMMA LogoutStep ==
  ASSUME Chartered, NEW p \in Players, GuildLogout(p)
  PROVE  /\ Chartered'
         /\ (Leads /\ Belongs) \/ LostOnLogout(p)
         /\ OthersBelong(p)
<1>. USE DEF Chartered
<1>1. Saved(p) /\ members' = [members EXCEPT ![p] = Absent] /\ members[p].online
  BY DEF GuildLogout
<1>2. GuildTypeOK'
  <2>1. Absent \in [online : BOOLEAN, rank : SomeRank, invites : SUBSET GuildIds]
    BY DEF Absent, SomeRank
  <2>2. members' \in [Players -> [online : BOOLEAN, rank : SomeRank, invites : SUBSET GuildIds]]
    BY <1>1, <2>1 DEF GuildTypeOK, SomeRank
  <2>3. /\ ranks' \in [Players -> SomeRank]
        /\ invites' \in [Players -> SUBSET GuildIds]
    BY <1>1, SavedIs, RankType DEF GuildTypeOK, SomeRank
  <2>. QED
    BY <1>1, <2>2, <2>3, SavedIs DEF GuildTypeOK, SomeRank
<1>3. ASSUME Savable(p), NEW q \in Players PROVE Rank(q)' = Rank(q)
  BY <1>1, <1>3, SavedIs DEF Rank, GuildTypeOK, Absent
<1>4. RanksReal' /\ IdsGiven'
  <2>1. owners' = owners /\ founded' = founded
    BY <1>1, SavedIs
  <2>2. ASSUME NEW q \in Players
        PROVE  /\ ranks'[q] = ranks[q] \/ ranks'[q] = members[q].rank
               /\ members'[q].rank = members[q].rank \/ members'[q].rank = NoRank
    BY <1>1, SavedIs DEF GuildTypeOK, Absent
  <2>3. RanksReal'
    BY <2>1, <2>2 DEF RanksReal, GuildExists
  <2>. QED
    BY <2>1, <2>3 DEF IdsGiven, GuildExists
<1>5. OthersBelong(p)
  BY <1>1, SavedIs DEF OthersBelong, Rank, GuildTypeOK
<1>. QED
  BY <1>1, <1>2, <1>3, <1>4, <1>5, SavedIs, RanksStay DEF LostOnLogout

(* Nobody is in game, and in the tables nobody has a rank he had not. *)
LEMMA CrashStep ==
  ASSUME Chartered, Crashes
  PROVE  Chartered'
<1>. USE DEF Chartered
<1>. DEFINE Down == /\ UNCHANGED <<founded, owners, invites>>
                    /\ members' = [p \in Players |-> Absent]
                    /\ ranks' \in [Players -> SomeRank]
                    /\ \A p \in Players : ranks'[p] \in {ranks[p], NoRank}
<1>1. Down
  <2>1. CASE CrashAll
    BY <2>1 DEF CrashAll, TablesStay, GuildTypeOK, SomeRank
  <2>2. ASSUME NEW p \in Players, CrashInDisband(p)
        PROVE  Down
    BY <2>2 DEF CrashInDisband, GuildTypeOK, SomeRank
  <2>. QED
    BY <2>1, <2>2 DEF Crashes
<1>2. GuildTypeOK'
  BY <1>1 DEF GuildTypeOK, Absent, SomeRank
<1>3. RanksReal' /\ IdsGiven'
  BY <1>1 DEF RanksReal, IdsGiven, GuildExists, Absent
<1>. QED
  BY <1>2, <1>3
-----------------------------------------------------------------------------
(* The commands.                                                           *)

(* Who gives them has a rank in a guild that there is. *)
LEMMA HasLevelIs ==
  ASSUME Chartered, NEW p \in Players, NEW Levels, HasLevel(p, Levels)
  PROVE  /\ members[p].online /\ Rank(p) = members[p].rank /\ members[p].rank.level \in Levels
         /\ members[p].rank.guild \in GuildIds /\ GuildExists(members[p].rank.guild)
BY DEF HasLevel, GuildExists, Rank

(* Invitations touch no rank. *)
LEMMA InviteStep ==
  ASSUME Chartered, NEW p \in Players, NEW q \in Players,
         InviteToGuild(p, q) \/ RevokeFromGuild(p, q)
  PROVE  Chartered' /\ Leads /\ Belongs
<1>. USE DEF Chartered
<1>. DEFINE g == members[p].rank.guild
<1>1. g \in GuildIds
  BY HasLevelIs DEF InviteToGuild, RevokeFromGuild
<1>2. PICK S \in SUBSET GuildIds, T \in SUBSET GuildIds :
        /\ \/ members' = [members EXCEPT ![q].invites = S] /\ UNCHANGED invites
           \/ invites' = [invites EXCEPT ![q] = T] /\ UNCHANGED members
        /\ UNCHANGED <<founded, owners, ranks>>
  <2>. HIDE DEF g
  <2>1. /\ members[q].invites \cup {g} \in SUBSET GuildIds
        /\ members[q].invites \ {g} \in SUBSET GuildIds
        /\ invites[q] \cup {g} \in SUBSET GuildIds
        /\ invites[q] \ {g} \in SUBSET GuildIds
    BY <1>1, RankType DEF GuildTypeOK
  <2>2. \/ /\ \/ members' = [members EXCEPT ![q].invites = @ \cup {g}] /\ UNCHANGED invites
              \/ invites' = [invites EXCEPT ![q] = @ \cup {g}] /\ UNCHANGED members
           /\ UNCHANGED <<founded, owners, ranks>>
        \/ /\ \/ members' = [members EXCEPT ![q].invites = @ \ {g}] /\ UNCHANGED invites
              \/ invites' = [invites EXCEPT ![q] = @ \ {g}] /\ UNCHANGED members
           /\ UNCHANGED <<founded, owners, ranks>>
    BY DEF InviteToGuild, RevokeFromGuild, g
  <2>. QED
    BY <2>1, <2>2
<1>3. GuildTypeOK'
  BY <1>2, RankType DEF GuildTypeOK, SomeRank
<1>4. \A x \in Players : Rank(x)' = Rank(x)
  BY <1>2 DEF Rank, GuildTypeOK
<1>5. \A x \in Players : members'[x].rank = members[x].rank
  BY <1>2 DEF GuildTypeOK
<1>6. ranks' = ranks /\ owners' = owners /\ founded' = founded
  BY <1>2
<1>7. RanksReal'
  BY <1>5, <1>6 DEF RanksReal, GuildExists
<1>8. IdsGiven'
  BY <1>6 DEF IdsGiven, GuildExists
<1>. QED
  BY <1>2, <1>3, <1>4, <1>7, <1>8, RanksStay

(* setGuildLevel and the like change the rank of one player. *)
LEMMA SetRankIs ==
  ASSUME Chartered, NEW q \in Players, NEW r \in SomeRank,
         r = NoRank \/ GuildExists(r.guild),
         SetRank(q, r), UNCHANGED <<founded, owners, invites>>
  PROVE  /\ Chartered'
         /\ \A x \in Players : Rank(x)' = IF x = q THEN r ELSE Rank(x)
<1>. USE DEF Chartered
<1>1. \/ members' = [members EXCEPT ![q].rank = r] /\ UNCHANGED ranks /\ members[q].online
      \/ ranks' = [ranks EXCEPT ![q] = r] /\ UNCHANGED members /\ ~members[q].online
  BY DEF SetRank
<1>2. GuildTypeOK'
  <2>1. CASE members' = [members EXCEPT ![q].rank = r] /\ UNCHANGED ranks
    <3>1. [members[q] EXCEPT !.rank = r] \in
            [online : BOOLEAN, invites : SUBSET GuildIds, rank : SomeRank]
      BY DEF GuildTypeOK, SomeRank
    <3>2. members' \in [Players -> [online : BOOLEAN, invites : SUBSET GuildIds, rank : SomeRank]]
      BY <2>1, <3>1 DEF GuildTypeOK, SomeRank
    <3>. QED
      BY <2>1, <3>2 DEF GuildTypeOK, SomeRank
  <2>2. CASE ranks' = [ranks EXCEPT ![q] = r] /\ UNCHANGED members
    BY <2>2 DEF GuildTypeOK, SomeRank
  <2>. QED
    BY <1>1, <2>1, <2>2
<1>3. \A x \in Players : Rank(x)' = IF x = q THEN r ELSE Rank(x)
  BY <1>1 DEF Rank, GuildTypeOK
<1>4. RanksReal' /\ IdsGiven'
  BY <1>1 DEF RanksReal, IdsGiven, GuildExists, GuildTypeOK
<1>. QED
  BY <1>2, <1>3, <1>4

LEMMA RegradeStep ==
  ASSUME Chartered, NEW p \in Players, NEW q \in Players, Promote(p, q) \/ Demote(p, q)
  PROVE  Chartered' /\ Leads /\ Belongs
<1>. DEFINE g == members[p].rank.guild
<1>. DEFINE Moves(from, to) ==
        /\ Rank(q) = RankOf(g, from) /\ SetRank(q, RankOf(g, to))
        /\ UNCHANGED <<founded, owners, invites>>
<1>1. /\ HasLevel(p, {LeaderLevel})
      /\ Moves(MemberLevel, ViceLevel) \/ Moves(ViceLevel, MemberLevel)
  BY DEF Promote, Demote, Regrade
<1>2. g \in GuildIds /\ GuildExists(g)
  BY <1>1, HasLevelIs
<1>3. PICK from \in 1 .. 2, to \in 1 .. 2 : Moves(from, to)
  <2>. HIDE DEF Moves
  <2>. QED
    BY <1>1 DEF MemberLevel, ViceLevel
<1>. HIDE DEF g
<1>4. RankOf(g, to) \in SomeRank /\ RankOf(g, to).guild = g
  BY <1>2 DEF SomeRank, RankOf
<1>5. Chartered' /\ \A x \in Players : Rank(x)' = IF x = q THEN RankOf(g, to) ELSE Rank(x)
  BY <1>2, <1>3, <1>4, SetRankIs
<1>6. Leads
  BY <1>3, <1>5 DEF Leads, Led, RankOf, LeaderLevel
<1>7. Belongs
  BY <1>3, <1>5 DEF Belongs, RankOf
<1>. QED
  BY <1>5, <1>6, <1>7

(* Who loses his rank by a command did not lead the guild, as its leader   *)
(* is in game.                                                             *)
LEMMA OutStep ==
  ASSUME Chartered, NEW p \in Players, NEW q \in Players, Kick(p, q) \/ (p = q /\ LeaveGuild(p))
  PROVE  Chartered' /\ Leads /\ Belongs
<1>1. SetRank(q, NoRank) /\ UNCHANGED <<founded, owners, invites>>
  BY DEF Kick, LeaveGuild
<1>2. Chartered' /\ \A x \in Players : Rank(x)' = IF x = q THEN NoRank ELSE Rank(x)
  BY <1>1, SetRankIs DEF SomeRank
<1>3. Belongs
  BY <1>2, NoRankIs DEF Belongs
<1>4. ASSUME NEW g \in GuildIds, Led(g), owners[g] # NoPlayer, owners[g] = q
      PROVE  FALSE
  <2>1. Rank(q) = RankOf(g, LeaderLevel)
    BY <1>4 DEF Led
  <2>2. CASE Kick(p, q)
    <3>1. /\ members[p].online /\ Rank(p) = members[p].rank
          /\ members[p].rank.level = LeaderLevel
      BY <2>2, HasLevelIs DEF Kick
    <3>2. members[p].rank.guild = g
      BY <2>1, <2>2 DEF Kick, RankOf
    <3>3. Rank(p) = RankOf(g, LeaderLevel)
      <4>1. Rank(p) \in SomeRank
        BY RankType DEF Chartered
      <4>2. Rank(p).guild = g /\ Rank(p).level = LeaderLevel
        BY <3>1, <3>2
      <4>3. Rank(p) # NoRank
        BY <4>2, NoRankIs
      <4>. QED
        BY <4>1, <4>2, <4>3 DEF SomeRank, RankOf
    <3>4. p = q
      BY <1>4, <3>3 DEF Led
    <3>. QED
      BY <2>2, <3>1, <3>4 DEF Kick, LeaderLevel
  <2>3. CASE p = q /\ LeaveGuild(p)
    <3>1. Rank(p) = members[p].rank /\ members[p].rank.level \in {MemberLevel, ViceLevel}
      BY <2>3, HasLevelIs DEF LeaveGuild
    <3>. QED
      BY <2>1, <2>3, <3>1 DEF RankOf, MemberLevel, ViceLevel, LeaderLevel
  <2>. QED
    BY <2>2, <2>3
<1>5. Leads
  <2>. SUFFICES ASSUME NEW g \in GuildIds, GuildExists(g), Led(g)
                PROVE  Led(g)'
    BY DEF Leads
  <2>1. owners[g] # NoPlayer /\ owners' = owners
    BY <1>1 DEF GuildExists
  <2>2. owners[g] # q /\ NoRank # RankOf(g, LeaderLevel)
    BY <1>4, <2>1, NoRankIs DEF NoRank, RankOf
  <2>. QED
    BY <1>2, <2>1, <2>2 DEF Led
<1>. QED
  BY <1>2, <1>3, <1>5

(* The leader passes the guild to a vice who is in game. *)
LEMMA PassStep ==
  ASSUME Chartered, NEW p \in Players, NEW q \in Players, PassGuild(p, q)
  PROVE  Chartered' /\ Leads /\ Belongs
<1>. USE DEF Chartered
<1>. DEFINE g == members[p].rank.guild
<1>1. /\ members[p].online /\ members[p].rank.level = LeaderLevel
      /\ g \in GuildIds /\ GuildExists(g)
  BY HasLevelIs DEF PassGuild
<1>2. /\ members[q].online /\ members[q].rank = RankOf(g, ViceLevel)
      /\ members' = [members EXCEPT ![q].rank.level = LeaderLevel, ![p].rank.level = ViceLevel]
      /\ owners' = [owners EXCEPT ![g] = q]
      /\ UNCHANGED <<founded, ranks, invites>>
  BY DEF PassGuild
<1>. HIDE DEF g
<1>3. members[p].rank = RankOf(g, LeaderLevel) /\ p # q
  <2>1. members[p].rank # NoRank
    BY <1>1, NoRankIs DEF g
  <2>2. members[p].rank \in SomeRank
    BY RankType
  <2>. QED
    BY <1>1, <1>2, <2>1, <2>2 DEF SomeRank, RankOf, ViceLevel, LeaderLevel, g
<1>4. members' = [x \in Players |->
         IF x = q THEN [members[q] EXCEPT !.rank = RankOf(g, LeaderLevel)]
         ELSE IF x = p THEN [members[p] EXCEPT !.rank = RankOf(g, ViceLevel)] ELSE members[x]]
  <2>1. [members[q] EXCEPT !.rank.level = LeaderLevel] =
          [members[q] EXCEPT !.rank = RankOf(g, LeaderLevel)]
    BY <1>2 DEF RankOf, GuildTypeOK
  <2>2. [members[p] EXCEPT !.rank.level = ViceLevel] =
          [members[p] EXCEPT !.rank = RankOf(g, ViceLevel)]
    BY <1>3 DEF RankOf, GuildTypeOK
  <2>. QED
    BY <1>2, <1>3, <2>1, <2>2 DEF GuildTypeOK
<1>5. RankOf(g, LeaderLevel) \in SomeRank /\ RankOf(g, ViceLevel) \in SomeRank
  BY <1>1 DEF SomeRank, RankOf, LeaderLevel, ViceLevel
<1>6. GuildTypeOK'
  <2>1. \A x \in Players : members'[x] \in
          [online : BOOLEAN, invites : SUBSET GuildIds, rank : SomeRank]
    BY <1>4, <1>5 DEF GuildTypeOK, SomeRank
  <2>2. members' \in [Players -> [online : BOOLEAN, invites : SUBSET GuildIds, rank : SomeRank]]
    BY <1>4, <2>1
  <2>. QED
    BY <1>1, <1>2, <2>2 DEF GuildTypeOK, SomeRank
<1>7. \A x \in Players : Rank(x)' = IF x = q THEN RankOf(g, LeaderLevel)
                                    ELSE IF x = p THEN RankOf(g, ViceLevel) ELSE Rank(x)
  BY <1>1, <1>2, <1>3, <1>4 DEF Rank, GuildTypeOK
<1>8. \A h : (h \in GuildIds /\ owners'[h] # NoPlayer) <=> GuildExists(h)
  BY <1>1, <1>2, PeopleAssumption DEF GuildExists, GuildTypeOK
<1>9. RanksReal' /\ IdsGiven'
  <2>1. \A x \in Players : members'[x].rank = NoRank \/ GuildExists(members'[x].rank.guild)
    <3>. TAKE x \in Players
    <3>1. CASE x = q
      BY <1>1, <1>4, <3>1, NoRankIs DEF GuildTypeOK
    <3>2. CASE x = p
      BY <1>1, <1>3, <1>4, <3>2, NoRankIs DEF GuildTypeOK
    <3>3. CASE x \notin {p, q}
      BY <1>4, <3>3 DEF RanksReal
    <3>. QED
      BY <3>1, <3>2, <3>3
  <2>. QED
    BY <1>2, <1>8, <2>1 DEF RanksReal, IdsGiven, GuildExists
<1>12. Rank(p) = RankOf(g, LeaderLevel) /\ Rank(q) = RankOf(g, ViceLevel)
  BY <1>1, <1>2, <1>3 DEF Rank
<1>13. Rank(p)' = RankOf(g, ViceLevel) /\ Rank(q)' = RankOf(g, LeaderLevel)
  BY <1>3, <1>7
<1>10. Leads
  <2>. SUFFICES ASSUME NEW h \in GuildIds, GuildExists(h), Led(h)
                PROVE  Led(h)'
    BY DEF Leads
  <2>1. CASE h = g
    BY <1>1, <1>2, <1>3, <1>7, <2>1 DEF Led, Rank, RankOf, GuildTypeOK, LeaderLevel, ViceLevel
  <2>2. CASE h # g
    <3>1. owners'[h] = owners[h]
      BY <1>2, <2>2
    <3>2. \A x \in {p, q} : Rank(x) # RankOf(h, LeaderLevel) /\ Rank(x)' # RankOf(h, LeaderLevel)
      BY <1>12, <1>13, <2>2, NoRankIs
    <3>. QED
      BY <1>7, <3>1, <3>2 DEF Led
  <2>. QED
    BY <2>1, <2>2
<1>11. Belongs
  <2>. SUFFICES ASSUME NEW x \in Players PROVE Rank(x)'.guild = Rank(x).guild
    BY DEF Belongs
  <2>1. CASE x \in {p, q}
    BY <1>12, <1>13, <2>1, NoRankIs
  <2>2. CASE x \notin {p, q}
    BY <1>7, <2>2
  <2>. QED
    BY <2>1, <2>2
<1>. QED
  BY <1>6, <1>9, <1>10, <1>11

(* Passed to an absent vice, the guild keeps its old owner. *)
LEMMA AbsentStep ==
  ASSUME Chartered, NEW p \in Players, NEW q \in Players, PassToAbsent(p, q)
  PROVE  Chartered' /\ Belongs
<1>. USE DEF Chartered
<1>. DEFINE g == members[p].rank.guild
<1>1. /\ members[p].online /\ members[p].rank.level = LeaderLevel
      /\ g \in GuildIds /\ GuildExists(g)
  BY HasLevelIs DEF PassToAbsent
<1>2. /\ ~members[q].online /\ ranks[q] = RankOf(g, ViceLevel)
      /\ ranks' = [ranks EXCEPT ![q].level = LeaderLevel]
      /\ members' = [members EXCEPT ![p].rank.level = ViceLevel]
      /\ UNCHANGED <<founded, owners, invites>>
  BY DEF PassToAbsent
<1>. HIDE DEF g
<1>3. members[p].rank = RankOf(g, LeaderLevel)
  <2>1. members[p].rank # NoRank
    BY <1>1, NoRankIs DEF g
  <2>2. members[p].rank \in SomeRank
    BY RankType
  <2>. QED
    BY <1>1, <2>1, <2>2 DEF SomeRank, RankOf, g
<1>4. RankOf(g, LeaderLevel) \in SomeRank /\ RankOf(g, ViceLevel) \in SomeRank
  BY <1>1 DEF SomeRank, RankOf, LeaderLevel, ViceLevel
<1>5. /\ ranks' = [ranks EXCEPT ![q] = RankOf(g, LeaderLevel)]
      /\ members' = [members EXCEPT ![p].rank = RankOf(g, ViceLevel)]
  <2>1. [ranks[q] EXCEPT !.level = LeaderLevel] = RankOf(g, LeaderLevel)
    BY <1>2 DEF RankOf
  <2>2. [members[p].rank EXCEPT !.level = ViceLevel] = RankOf(g, ViceLevel)
    BY <1>3 DEF RankOf
  <2>. QED
    BY <1>2, <2>1, <2>2 DEF GuildTypeOK
<1>6. GuildTypeOK'
  <2>1. [members[p] EXCEPT !.rank = RankOf(g, ViceLevel)] \in
            [online : BOOLEAN, invites : SUBSET GuildIds, rank : SomeRank]
    BY <1>4 DEF GuildTypeOK, SomeRank
  <2>2. members' \in [Players -> [online : BOOLEAN, invites : SUBSET GuildIds, rank : SomeRank]]
    BY <1>5, <2>1 DEF GuildTypeOK, SomeRank
  <2>3. ranks' \in [Players -> SomeRank]
    BY <1>4, <1>5 DEF GuildTypeOK, SomeRank
  <2>. QED
    BY <1>2, <2>2, <2>3 DEF GuildTypeOK, SomeRank
<1>7. RanksReal' /\ IdsGiven'
  <2>1. \A x \in Players : members'[x].rank = NoRank \/ GuildExists(members'[x].rank.guild)
    BY <1>1, <1>5, NoRankIs DEF GuildTypeOK, RanksReal
  <2>2. \A x \in Players : ranks'[x] = NoRank \/ GuildExists(ranks'[x].guild)
    BY <1>1, <1>5, NoRankIs DEF GuildTypeOK, RanksReal
  <2>. QED
    BY <1>2, <2>1, <2>2 DEF RanksReal, IdsGiven, GuildExists
<1>8. Belongs
  BY <1>1, <1>2, <1>3, <1>5 DEF Belongs, Rank, RankOf, GuildTypeOK
<1>. QED
  BY <1>6, <1>7, <1>8

LEMMA DisbandStep ==
  ASSUME Chartered, NEW p \in Players, DisbandGuild(p)
  PROVE  Chartered' /\ Leads /\ Belongs
<1>. USE DEF Chartered
<1>. DEFINE g == members[p].rank.guild
<1>. DEFINE Out(r) == IF r.guild = g THEN NoRank ELSE r
<1>1. g \in GuildIds /\ GuildExists(g)
  BY HasLevelIs DEF DisbandGuild
<1>2. /\ ranks' = [q \in Players |-> Out(ranks[q])]
      /\ members' = [q \in Players |->
           IF members[q].rank.guild = g THEN [members[q] EXCEPT !.rank = NoRank] ELSE members[q]]
      /\ owners' = [owners EXCEPT ![g] = NoPlayer]
      /\ invites' = [q \in Players |-> invites[q] \ {g}]
      /\ UNCHANGED founded
  BY DEF DisbandGuild
<1>. HIDE DEF g
<1>3. GuildTypeOK'
  BY <1>1, <1>2 DEF GuildTypeOK
<1>4. \A q \in Players : members'[q].online = members[q].online
                         /\ members'[q].rank = Out(members[q].rank)
  BY <1>2 DEF GuildTypeOK
<1>5. \A q \in Players : Rank(q)' = Out(Rank(q))
  BY <1>2, <1>4 DEF Rank
<1>6. \A h \in GuildIds : h # g => owners'[h] = owners[h]
  BY <1>2
<1>7. RanksReal' /\ IdsGiven'
  BY <1>1, <1>2, <1>4, <1>6, NoRankIs, RankType DEF RanksReal, IdsGiven, GuildExists, GuildTypeOK
<1>8. Belongs
  BY <1>5, NoRankIs DEF Belongs
<1>9. Leads
  <2>. SUFFICES ASSUME NEW h \in GuildIds, GuildExists(h)', Led(h)
                PROVE  Led(h)'
    BY DEF Leads
  <2>1. h # g
    BY <1>1, <1>2 DEF GuildExists, GuildTypeOK
  <2>2. \A q \in Players : Rank(q)' = RankOf(h, LeaderLevel) <=> Rank(q) = RankOf(h, LeaderLevel)
    BY <1>1, <1>5, <2>1, NoRankIs DEF RankOf, NoRank
  <2>. QED
    BY <1>6, <2>1, <2>2 DEF Led
<1>. QED
  BY <1>3, <1>7, <1>8, <1>9

(* joinGuild gives a rank to one who has none, in game and in the table. *)
LEMMA JoinedIs ==
  ASSUME Chartered, NEW p \in Players, NEW r \in SomeRank, members[p].online, Joined(p, r)
  PROVE  /\ \A q \in Players : ranks'[q] = IF q = p THEN r ELSE ranks[q]
         /\ \A q \in Players : members'[q].rank = IF q = p THEN r ELSE members[q].rank
         /\ \A q \in Players : Rank(q)' = IF q = p THEN r ELSE Rank(q)
         /\ ranks' \in [Players -> SomeRank]
         /\ members' \in [Players -> [online : BOOLEAN, invites : SUBSET GuildIds, rank : SomeRank]]
<1>. USE DEF Chartered
<1>1. /\ ranks' = [ranks EXCEPT ![p] = r]
      /\ members' = [members EXCEPT ![p] = [members[p] EXCEPT !.rank = r, !.invites = {}]]
  BY DEF Joined, GuildTypeOK
<1>2. [members[p] EXCEPT !.rank = r, !.invites = {}] \in
        [online : BOOLEAN, invites : SUBSET GuildIds, rank : SomeRank]
  BY DEF GuildTypeOK, SomeRank
<1>3. /\ ranks' \in [Players -> SomeRank]
      /\ members' \in [Players -> [online : BOOLEAN, invites : SUBSET GuildIds, rank : SomeRank]]
  BY <1>1, <1>2 DEF GuildTypeOK, SomeRank
<1>4. \A q \in Players : /\ ranks'[q] = IF q = p THEN r ELSE ranks[q]
                         /\ members'[q].rank = IF q = p THEN r ELSE members[q].rank
                         /\ members'[q].online = members[q].online
  BY <1>1 DEF GuildTypeOK
<1>. QED
  BY <1>3, <1>4 DEF Rank

LEMMA JoinStep ==
  ASSUME Chartered, NEW p \in Players, NEW g \in GuildIds, JoinGuild(p, g)
  PROVE  Chartered' /\ Leads /\ OthersBelong(p)
<1>. USE DEF Chartered
<1>1. /\ members[p].online /\ Rank(p) = NoRank /\ GuildExists(g)
      /\ Joined(p, RankOf(g, MemberLevel)) /\ UNCHANGED <<founded, owners, invites>>
  BY DEF JoinGuild, Rank
<1>2. RankOf(g, MemberLevel) \in SomeRank
  BY DEF SomeRank, RankOf, MemberLevel
<1>3. GuildTypeOK'
  BY <1>1, <1>2, JoinedIs DEF GuildTypeOK, SomeRank
<1>4. RanksReal' /\ IdsGiven'
  BY <1>1, <1>2, JoinedIs, NoRankIs DEF RanksReal, IdsGiven, GuildExists
<1>5. Leads
  <2>. SUFFICES ASSUME NEW h \in GuildIds, Led(h)
                PROVE  Led(h)'
    BY DEF Leads
  <2>1. Rank(p) # RankOf(h, LeaderLevel) /\ RankOf(g, MemberLevel) # RankOf(h, LeaderLevel)
    BY <1>1, NoRankIs DEF LeaderLevel, MemberLevel
  <2>. QED
    BY <1>1, <1>2, <2>1, JoinedIs DEF Led
<1>6. OthersBelong(p)
  BY <1>1, <1>2, JoinedIs DEF OthersBelong
<1>. QED
  BY <1>3, <1>4, <1>5, <1>6

(* The id that is given is new, and the guild found by its owner is one he *)
(* did not lead.                                                           *)
LEMMA FoundStep ==
  ASSUME Chartered, NEW p \in Players, FoundGuild(p)
  PROVE  Chartered' /\ Leads /\ OthersBelong(p)
<1>. USE DEF Chartered
<1>. DEFINE new == founded + 1
<1>1. /\ members[p].online /\ Rank(p) = NoRank /\ founded < MaxGuild
      /\ founded' = new /\ owners' = [owners EXCEPT ![new] = p] /\ UNCHANGED invites
  BY DEF FoundGuild, Rank
<1>2. PICK g \in GuildIds : owners'[g] = p /\ Joined(p, RankOf(g, LeaderLevel))
  BY DEF FoundGuild
<1>3. new \in GuildIds /\ new > founded /\ ~GuildExists(new)
  BY <1>1, GuildAssumption DEF GuildTypeOK, GuildIds, IdsGiven
<1>. HIDE DEF new
<1>4. /\ \A h \in GuildIds : owners'[h] = IF h = new THEN p ELSE owners[h]
      /\ owners' \in [GuildIds -> Players \cup {NoPlayer}]
  BY <1>1, <1>3 DEF GuildTypeOK
<1>5. \A h \in GuildIds : GuildExists(h)' <=> h = new \/ GuildExists(h)
  BY <1>4, PeopleAssumption DEF GuildExists
<1>6. RankOf(g, LeaderLevel) \in SomeRank
  BY <1>2 DEF SomeRank, RankOf, LeaderLevel
<1>7. GuildTypeOK'
  <2>1. founded' \in 0 .. MaxGuild
    BY <1>1, GuildAssumption DEF GuildTypeOK, new
  <2>. QED
    BY <1>1, <1>2, <1>4, <1>6, <2>1, JoinedIs DEF GuildTypeOK, SomeRank
<1>8. RanksReal'
  <2>. DEFINE Is(h) == h \in GuildIds /\ owners'[h] # NoPlayer
  <2>1. Is(g) /\ \A h : GuildExists(h) => Is(h)
    BY <1>2, <1>4, PeopleAssumption DEF GuildExists
  <2>. HIDE DEF Is
  <2>2. \A q \in Players : /\ ranks'[q] = NoRank \/ Is(ranks'[q].guild)
                           /\ members'[q].rank = NoRank \/ Is(members'[q].rank.guild)
    BY <1>1, <1>2, <1>6, <2>1, JoinedIs, NoRankIs DEF RanksReal
  <2>. QED
    BY <2>2 DEF RanksReal, GuildExists, Is
<1>9. IdsGiven'
  BY <1>1, <1>3, <1>5, GuildAssumption DEF IdsGiven, new, GuildIds, GuildTypeOK
<1>10. Leads
  <2>. SUFFICES ASSUME NEW h \in GuildIds, GuildExists(h), Led(h)
                PROVE  Led(h)'
    BY DEF Leads
  <2>1. owners'[h] = owners[h] /\ owners[h] # p
    <3>1. h # new
      BY <1>3
    <3>2. Rank(p) # RankOf(h, LeaderLevel)
      BY <1>1, NoRankIs
    <3>. QED
      BY <1>4, <3>1, <3>2 DEF Led
  <2>2. g # h
    BY <1>2, <2>1
  <2>3. RankOf(g, LeaderLevel) # RankOf(h, LeaderLevel) /\ Rank(p) # RankOf(h, LeaderLevel)
    BY <1>1, <2>2, NoRankIs
  <2>. QED
    BY <1>1, <1>2, <1>6, <2>1, <2>3, JoinedIs DEF Led
<1>11. OthersBelong(p)
  BY <1>1, <1>2, <1>6, JoinedIs DEF OthersBelong
<1>. QED
  BY <1>7, <1>8, <1>9, <1>10, <1>11
-----------------------------------------------------------------------------

(* What StaysLed and GoneStaysGone ask of a step. *)
LedOn == \A g \in GuildIds :
  GuildExists(g) /\ GuildExists(g)' /\ Led(g) =>
    \/ Led(g)'
    \/ Crashes
    \/ \E p \in Players : LostOnLogout(p)
    \/ \E p, q \in Players : PassToAbsent(p, q)

GoneOn == \A p \in Players :
  Rank(p)'.guild \notin {0, Rank(p).guild} =>
    \/ FoundGuild(p)
    \/ \E g \in GuildIds : JoinGuild(p, g)
    \/ Crashes
    \/ LostOnLogout(p)

LEMMA GuildStep ==
  ASSUME Chartered, GuildNext
  PROVE  Chartered' /\ LedOn /\ GoneOn
<1>1. CASE Crashes
  BY <1>1, CrashStep DEF LedOn, GoneOn
<1>2. ASSUME Chartered', Leads, Belongs
      PROVE  Chartered' /\ LedOn /\ GoneOn
  BY <1>2 DEF Leads, Belongs, LedOn, GoneOn
<1>3. ASSUME NEW p \in Players,
             GuildLogin(p) \/ SavePlayer(p) \/ DisbandGuild(p) \/ LeaveGuild(p)
      PROVE  Chartered' /\ LedOn /\ GoneOn
  <2>1. CASE GuildLogin(p)
    BY <1>2, <2>1, LoginStep
  <2>2. CASE SavePlayer(p)
    BY <1>2, <2>2, SaveStep
  <2>3. CASE DisbandGuild(p)
    BY <1>2, <2>3, DisbandStep
  <2>4. CASE LeaveGuild(p)
    BY <1>2, <2>4, OutStep
  <2>. QED
    BY <1>3, <2>1, <2>2, <2>3, <2>4
<1>4. ASSUME NEW p \in Players, GuildLogout(p)
      PROVE  Chartered' /\ LedOn /\ GoneOn
  BY <1>4, LogoutStep DEF Leads, Belongs, OthersBelong, LedOn, GoneOn
<1>5. ASSUME NEW p \in Players, FoundGuild(p)
      PROVE  Chartered' /\ LedOn /\ GoneOn
  BY <1>5, FoundStep DEF Leads, OthersBelong, LedOn, GoneOn
<1>6. ASSUME NEW p \in Players, NEW g \in GuildIds, JoinGuild(p, g)
      PROVE  Chartered' /\ LedOn /\ GoneOn
  BY <1>6, JoinStep DEF Leads, OthersBelong, LedOn, GoneOn
<1>7. ASSUME NEW p \in Players, NEW q \in Players,
             \/ InviteToGuild(p, q) \/ RevokeFromGuild(p, q) \/ Kick(p, q)
             \/ Promote(p, q) \/ Demote(p, q) \/ PassGuild(p, q)
      PROVE  Chartered' /\ LedOn /\ GoneOn
  <2>1. CASE InviteToGuild(p, q) \/ RevokeFromGuild(p, q)
    BY <1>2, <2>1, InviteStep
  <2>2. CASE Kick(p, q)
    BY <1>2, <2>2, OutStep
  <2>3. CASE Promote(p, q) \/ Demote(p, q)
    BY <1>2, <2>3, RegradeStep
  <2>4. CASE PassGuild(p, q)
    BY <1>2, <2>4, PassStep
  <2>. QED
    BY <1>7, <2>1, <2>2, <2>3, <2>4
<1>8. ASSUME NEW p \in Players, NEW q \in Players, PassToAbsent(p, q)
      PROVE  Chartered' /\ LedOn /\ GoneOn
  BY <1>8, AbsentStep DEF Belongs, LedOn, GoneOn
<1>. QED
  BY <1>1, <1>3, <1>4, <1>5, <1>6, <1>7, <1>8 DEF GuildNext, Crashes

LEMMA CharteredIs == Chartered => GuildTypeOK /\ NoGhostGuilds
BY DEF Chartered, RanksReal, NoGhostGuilds, Rank

LEMMA GuildStutters == Chartered /\ UNCHANGED guildVars => Chartered'
BY DEF guildVars, Chartered, GuildTypeOK, RanksReal, IdsGiven, GuildExists

(* Whatever members, leaders and others command, in game and from the      *)
(* database, and whenever players log in and out, are saved, fail to be    *)
(* saved or lose what was in memory: nobody belongs to a guild that is     *)
(* gone, its owner alone leads a guild unless leadership was passed to an  *)
(* absent vice or ranks were lost, and nobody comes back to a guild he has *)
(* left but by joining.                                                    *)
THEOREM GuildsAlwaysKept == GuildSpec => GuildsKept
<1>1. Chartered /\ [GuildNext]_guildVars => Chartered'
  BY GuildStep, GuildStutters
<1>2. Chartered /\ [GuildNext]_guildVars => [LedOn]_guildVars /\ [GoneOn]_guildVars
  BY GuildStep
<1>. QED
  BY <1>1, <1>2, CharteredInit, CharteredIs, PTL
     DEF GuildSpec, GuildsKept, StaysLed, GoneStaysGone, LedOn, GoneOn

(***************************************************************************)
(* Parties, their members and those they invite.                           *)
(***************************************************************************)

(* A list that names nobody twice. *)
Once(s) == \A i, j \in 1 .. Len(s) : s[i] = s[j] => i = j

LEMMA SetIs ==
  ASSUME NEW s \in Seq(Players)
  PROVE  /\ ToSet(s) \subseteq Players
         /\ \A p : p \in ToSet(s) <=> \E i \in 1 .. Len(s) : s[i] = p
BY DEF ToSet

LEMMA RemoveAtIs ==
  ASSUME NEW s \in Seq(Players), NEW k \in 1 .. Len(s)
  PROVE  /\ RemoveAt(s, k) \in Seq(Players)
         /\ Len(RemoveAt(s, k)) = Len(s) - 1
         /\ \A i \in 1 .. Len(s) - 1 : RemoveAt(s, k)[i] = IF i < k THEN s[i] ELSE s[i + 1]
<1>. DEFINE a == SubSeq(s, 1, k - 1)
            b == SubSeq(s, k + 1, Len(s))
<1>1. /\ a \in Seq(Players) /\ Len(a) = k - 1
      /\ \A i \in 1 .. k - 1 : a[i] = s[i]
  OBVIOUS
<1>2. /\ b \in Seq(Players) /\ Len(b) = Len(s) - k
      /\ \A i \in 1 .. Len(s) - k : b[i] = s[i + k]
  OBVIOUS
<1>3. RemoveAt(s, k) = a \o b
  BY DEF RemoveAt
<1>. HIDE DEF a, b
<1>4. \A i \in 1 .. Len(s) - 1 : (a \o b)[i] = IF i < k THEN s[i] ELSE s[i + 1]
  <2>. TAKE i \in 1 .. Len(s) - 1
  <2>1. CASE i < k
    BY <1>1, <1>2, <2>1
  <2>2. CASE ~(i < k)
    <3>1. i - Len(a) \in 1 .. Len(s) - k /\ i - Len(a) + k = i + 1 /\ i > Len(a)
      BY <1>1, <2>2
    <3>2. (a \o b)[i] = b[i - Len(a)]
      BY <1>1, <1>2, <3>1
    <3>. QED
      BY <1>2, <2>2, <3>1, <3>2
  <2>. QED
    BY <2>1, <2>2
<1>5. a \o b \in Seq(Players) /\ Len(a \o b) = Len(s) - 1
  <2>1. \A c, d \in Seq(Players) : c \o d \in Seq(Players) /\ Len(c \o d) = Len(c) + Len(d)
    OBVIOUS
  <2>2. k \in Nat /\ Len(s) \in Nat
    OBVIOUS
  <2>3. a \in Seq(Players) /\ b \in Seq(Players) /\ Len(a) = k - 1 /\ Len(b) = Len(s) - k
    BY <1>1, <1>2
  <2>4. a \o b \in Seq(Players) /\ Len(a \o b) = Len(a) + Len(b)
    BY <2>1, <2>3
  <2>. QED
    BY <2>2, <2>3, <2>4
<1>. QED
  BY <1>3, <1>4, <1>5

(* What stays of a list without one that it named once; the others keep    *)
(* their order, so that the first one is the first of the rest.            *)
Without(s, e, r) ==
  /\ r \in Seq(Players)
  /\ Once(r)
  /\ ToSet(r) = ToSet(s) \ {e}
  /\ Len(r) = IF e \in ToSet(s) THEN Len(s) - 1 ELSE Len(s)

LEMMA RemoveFirstIs ==
  ASSUME NEW s \in Seq(Players), Once(s), NEW e
  PROVE  Without(s, e, RemoveFirst(s, e))
<1>1. CASE e \in ToSet(s)
  <2>1. PICK k \in 1 .. Len(s) : s[k] = e
    BY <1>1, SetIs
  <2>2. {i \in 1 .. Len(s) : s[i] = e} = {k}
    BY <2>1 DEF Once
  <2>3. Min({k}) = k
    BY DEF Min
  <2>4. SelectInSeq(s, LAMBDA v : v = e) = k
    BY <2>2, <2>3 DEF SelectInSeq
  <2>5. RemoveFirst(s, e) = RemoveAt(s, k)
    BY <2>1, <2>4 DEF RemoveFirst
  <2>. DEFINE r == RemoveAt(s, k)
  <2>6. /\ r \in Seq(Players) /\ Len(r) = Len(s) - 1
        /\ \A i \in 1 .. Len(s) - 1 : r[i] = IF i < k THEN s[i] ELSE s[i + 1]
    BY RemoveAtIs
  <2>. HIDE DEF r
  <2>7. Once(r)
    <3>. SUFFICES ASSUME NEW i \in 1 .. Len(r), NEW j \in 1 .. Len(r), r[i] = r[j]
                  PROVE  i = j
      BY DEF Once
    <3>. DEFINE at(n) == IF n < k THEN n ELSE n + 1
    <3>1. \A n \in 1 .. Len(r) : r[n] = s[at(n)] /\ at(n) \in 1 .. Len(s)
      BY <2>6
    <3>2. s[at(i)] = s[at(j)] /\ at(i) \in 1 .. Len(s) /\ at(j) \in 1 .. Len(s)
      BY <3>1
    <3>. HIDE DEF at
    <3>3. at(i) = at(j)
      BY <3>2 DEF Once
    <3>. QED
      BY <3>3 DEF at
  <2>8. ASSUME NEW p, p \in ToSet(r)
        PROVE  p \in ToSet(s) /\ p # e
    <3>1. PICK i \in 1 .. Len(r) : r[i] = p
      BY <2>6, <2>8, SetIs
    <3>2. i \in 1 .. Len(s) - 1 /\ i \in 1 .. Len(s) /\ i + 1 \in 1 .. Len(s)
      BY <2>6
    <3>3. \E j \in 1 .. Len(s) : s[j] = p /\ j # k
      BY <2>6, <3>1, <3>2
    <3>. QED
      BY <2>1, <3>3, SetIs DEF Once
  <2>9. ASSUME NEW p, p \in ToSet(s), p # e
        PROVE  p \in ToSet(r)
    <3>1. PICK i \in 1 .. Len(s) : s[i] = p
      BY <2>9, SetIs
    <3>2. i # k
      BY <2>1, <2>9, <3>1
    <3>3. CASE i < k
      <4>1. i \in 1 .. Len(r) /\ r[i] = p
        BY <2>6, <3>1, <3>3
      <4>. QED
        BY <2>6, <4>1, SetIs
    <3>4. CASE i > k
      <4>1. i - 1 \in 1 .. Len(r) /\ r[i - 1] = p
        BY <2>6, <3>1, <3>4
      <4>. QED
        BY <2>6, <4>1, SetIs
    <3>. QED
      BY <3>2, <3>3, <3>4
  <2>10. ToSet(r) = ToSet(s) \ {e}
    BY <2>8, <2>9
  <2>11. RemoveFirst(s, e) = r
    BY <2>5 DEF r
  <2>. QED
    BY <1>1, <2>6, <2>7, <2>10, <2>11 DEF Without
<1>2. CASE e \notin ToSet(s)
  <2>1. RemoveFirst(s, e) = s
    BY <1>2, SetIs DEF RemoveFirst
  <2>. QED
    BY <1>2, <2>1 DEF Without
<1>. QED
  BY <1>1, <1>2

(* With its leader, a list has one name more. *)
LEMMA CrewCount ==
  ASSUME NEW s \in Seq(Players), Once(s), NEW l, l \notin ToSet(s)
  PROVE  Cardinality({l} \cup ToSet(s)) = Len(s) + 1
<1>0. Len(s) \in Nat
  OBVIOUS
<1>1. IsFiniteSet(1 .. Len(s)) /\ Cardinality(1 .. Len(s)) = Len(s)
  <2>1. 1 \in Int /\ Len(s) \in Int
    BY <1>0
  <2>2. IsFiniteSet(1 .. Len(s))
        /\ Cardinality(1 .. Len(s)) = IF 1 > Len(s) THEN 0 ELSE Len(s) - 1 + 1
    BY <2>1, FS_Interval
  <2>. QED
    BY <1>0, <2>2
<1>2. s \in Bijection(1 .. Len(s), ToSet(s))
  <2>1. s \in [1 .. Len(s) -> ToSet(s)]
    BY SetIs
  <2>2. \A p \in ToSet(s) : \E i \in 1 .. Len(s) : s[i] = p
    BY SetIs
  <2>. QED
    BY <2>1, <2>2 DEF Bijection, Injection, Surjection, IsInjective, Once
<1>3. IsFiniteSet(ToSet(s)) /\ Cardinality(ToSet(s)) = Len(s)
  BY <1>1, <1>2, FS_Bijection DEF ExistsBijection
<1>4. {l} \cup ToSet(s) = ToSet(s) \cup {l}
  OBVIOUS
<1>. QED
  BY <1>0, <1>3, <1>4, FS_AddElement

-----------------------------------------------------------------------------
(* The state as the operations see it.                                     *)
Group == [leader : Players \cup {NoPlayer}, members : Seq(Players), invites : SUBSET Players]
Person == [online : BOOLEAN, linked : BOOLEAN, party : Parties \cup {NoParty},
           invitations : SUBSET Parties]

Bunches == [parties : [Parties -> Group], people : [Players -> Person],
            channel : [Parties -> SUBSET Players], lost : BOOLEAN]

Living(s, P) == s.parties[P].leader # NoPlayer

(* What holds even when a deleted party has been used: one that is deleted *)
(* has nothing, who is invited knows it, who is not in game has nothing.   *)
Sane(s) ==
  /\ s \in Bunches
  /\ \A P \in Parties : ~Living(s, P) => s.parties[P] = Nothing
  /\ \A p \in Players, P \in Parties :
       p \in s.parties[P].invites => P \in s.people[p].invitations
  /\ \A p \in Players : ~s.people[p].online => s.people[p] = Away

(* A list of members names each of them once, and not the leader.          *)
Orderly(c) == Once(c.members) /\ c.leader \notin ToSet(c.members)

Loyal(s) == \A p \in Players, P \in Parties :
  s.people[p].party = P <=> Living(s, P) /\ p \in Crew(s.parties[P])

Firm(s) ==
  /\ Loyal(s)
  /\ \A P \in Parties : Living(s, P) =>
       /\ Orderly(s.parties[P])
       /\ s.parties[P].members # <<>> \/ s.parties[P].invites # {}

(* The inductive invariant. *)
Partial == Sane(Bunch) /\ (partyLost \/ Firm(Bunch))

(* What the properties say of a step from s to t; those in X leave.        *)
NoneForgotten(s, t) == \A p \in Players, P \in Parties :
  P \in t.people[p].invitations /\ p \notin t.parties[P].invites =>
    \/ P \in s.people[p].invitations /\ p \notin s.parties[P].invites
    \/ p \in s.parties[P].invites /\ s.people[p].party = P

LongLived(s, t) == \A P \in Parties :
  Living(s, P) /\ Len(s.parties[P].members) > 1 => Living(t, P)

NoneStrays(s, t, X) == \A P \in Parties : \A p \in Players \ X :
  p \in t.channel[P] /\ t.people[p].party # P =>
    \/ p \in s.channel[P] /\ s.people[p].party # P
    \/ ~s.people[p].linked

Seemly(s, t, X) == NoneForgotten(s, t) /\ LongLived(s, t) /\ NoneStrays(s, t, X)

LEMMA GroupIs ==
  ASSUME NEW s \in Bunches
  PROVE  /\ \A P \in Parties : /\ s.parties[P] \in Group
                               /\ s.parties[P].members \in Seq(Players)
                               /\ s.parties[P].invites \in SUBSET Players
                               /\ s.parties[P].leader \in Players \cup {NoPlayer}
                               /\ s.channel[P] \in SUBSET Players
         /\ \A p \in Players : /\ s.people[p] \in Person
                               /\ s.people[p].invitations \in SUBSET Parties
                               /\ s.people[p].party \in Parties \cup {NoParty}
         /\ s.lost \in BOOLEAN
<1>1. \A P \in Parties : s.parties[P] \in Group /\ s.channel[P] \in SUBSET Players
  BY DEF Bunches
<1>2. \A p \in Players : s.people[p] \in Person
  BY DEF Bunches
<1>3. s.lost \in BOOLEAN
  BY DEF Bunches
<1>. QED
  BY <1>1, <1>2, <1>3 DEF Group, Person

LEMMA MakeBunch ==
  ASSUME NEW F, NEW G, NEW H, NEW b,
         F \in [Parties -> Group], G \in [Players -> Person],
         H \in [Parties -> SUBSET Players], b \in BOOLEAN
  PROVE  [parties |-> F, people |-> G, channel |-> H, lost |-> b] \in Bunches
  BY DEF Bunches

LEMMA BunchIs == Sane(Bunch) => PartyTypeOK
  BY DEF Sane, Bunches, Bunch, PartyTypeOK, Group, Person

LEMMA NothingIs ==
  /\ Nothing \in Group /\ Nothing.leader = NoPlayer /\ Nothing.members = <<>>
  /\ Nothing.invites = {} /\ Away \in Person /\ Away.party = NoParty /\ Away.invitations = {}
  /\ ~Away.online /\ Newcomer \in Person /\ Newcomer.online
  /\ Newcomer.party = NoParty /\ Newcomer.invitations = {}
<1>1. /\ Nothing \in Group /\ Nothing.leader = NoPlayer /\ Nothing.members = <<>>
      /\ Nothing.invites = {}
  BY DEF Nothing, Group
<1>2. /\ Newcomer \in Person /\ Newcomer.online
      /\ Newcomer.party = NoParty /\ Newcomer.invitations = {}
  BY DEF Newcomer, Person
<1>3. \A n \in Person : LET m == [n EXCEPT !.online = FALSE, !.linked = FALSE]
                       IN  m \in Person /\ m.party = n.party /\ m.invitations = n.invitations
                           /\ ~m.online
  BY DEF Person
<1>4. Away \in Person /\ Away.party = NoParty /\ Away.invitations = {} /\ ~Away.online
  BY <1>2, <1>3 DEF Away
<1>. QED
  BY <1>1, <1>2, <1>4

LEMMA CrewIs ==
  ASSUME NEW s \in Bunches, NEW P \in Parties, Living(s, P)
  PROVE  Crew(s.parties[P]) \subseteq Players /\ s.parties[P].leader \in Players
BY GroupIs, SetIs DEF Crew, Living

(* disband(), point by point. *)
Disbanded(s, t, P) ==
  /\ t \in Bunches
  /\ t.lost = s.lost
  /\ t.parties[P] = Nothing
  /\ \A Q \in Parties \ {P} : t.parties[Q] = s.parties[Q] /\ t.channel[Q] = s.channel[Q]
  /\ \A q \in Players :
       /\ t.people[q].online = s.people[q].online /\ t.people[q].linked = s.people[q].linked
       /\ t.people[q].party = IF q \in Crew(s.parties[P]) THEN NoParty ELSE s.people[q].party
       /\ t.people[q].invitations = IF q \in s.parties[P].invites
                                    THEN s.people[q].invitations \ {P}
                                    ELSE s.people[q].invitations
       /\ q \in t.channel[P] <=>
            /\ q \in s.channel[P]
            /\ ~(q \in Crew(s.parties[P]) /\ s.people[q].linked /\ s.people[q].party = P)

LEMMA DisbandIs ==
  ASSUME NEW s \in Bunches, NEW P \in Parties
  PROVE  Disbanded(s, Disband(s, P), P)
<1>. DEFINE c == s.parties[P]
            body == [p \in Players |-> [s.people[p] EXCEPT
                       !.party = IF p \in Crew(c) THEN NoParty ELSE @,
                       !.invitations = IF p \in c.invites THEN @ \ {P} ELSE @]]
            out == {p \in Crew(c) : s.people[p].linked /\ s.people[p].party = P}
            t == Disband(s, P)
<1>0. s.people \in [Players -> Person]
  BY DEF Bunches
<1>1. t = [parties |-> [s.parties EXCEPT ![P] = Nothing], people |-> body,
           channel |-> [s.channel EXCEPT ![P] = @ \ out], lost |-> s.lost]
  <2>1. s = [parties |-> s.parties, people |-> s.people, channel |-> s.channel, lost |-> s.lost]
    BY DEF Bunches
  <2>2. t = [s EXCEPT !.parties = [s.parties EXCEPT ![P] = Nothing], !.people = body,
                      !.channel = [s.channel EXCEPT ![P] = @ \ out]]
    BY <2>1 DEF Disband
  <2>. QED
    BY <2>1, <2>2
<1>2. \A p \in Players :
        /\ body[p] \in Person
        /\ body[p].online = s.people[p].online /\ body[p].linked = s.people[p].linked
        /\ body[p].party = IF p \in Crew(c) THEN NoParty ELSE s.people[p].party
        /\ body[p].invitations = IF p \in c.invites THEN s.people[p].invitations \ {P}
                                                    ELSE s.people[p].invitations
  <2>. TAKE p \in Players
  <2>. DEFINE m == s.people[p]
              f == IF p \in Crew(c) THEN NoParty ELSE m.party
              i == IF p \in c.invites THEN m.invitations \ {P} ELSE m.invitations
  <2>1. m \in Person /\ m.party \in Parties \cup {NoParty} /\ m.invitations \in SUBSET Parties
    BY GroupIs
  <2>2. body[p] = [m EXCEPT !.party = f, !.invitations = i]
    OBVIOUS
  <2>. HIDE DEF body, m
  <2>3. f \in Parties \cup {NoParty} /\ i \in SUBSET Parties
    BY <2>1
  <2>. HIDE DEF f, i
  <2>4. /\ body[p] \in Person /\ body[p].online = m.online /\ body[p].linked = m.linked
        /\ body[p].party = f /\ body[p].invitations = i
    BY <2>1, <2>2, <2>3 DEF Person
  <2>. QED
    BY <2>4 DEF m, f, i
<1>3. body \in [Players -> Person]
  BY <1>2
<1>4. s.parties \in [Parties -> Group] /\ s.channel \in [Parties -> SUBSET Players]
      /\ s.lost \in BOOLEAN
  BY DEF Bunches
<1>. HIDE DEF t, body
<1>a. /\ t.parties = [s.parties EXCEPT ![P] = Nothing] /\ t.people = body
      /\ t.channel = [s.channel EXCEPT ![P] = @ \ out] /\ t.lost = s.lost
  BY <1>1
<1>5. t.parties \in [Parties -> Group]
  BY <1>a, <1>4, NothingIs
<1>6. t.channel \in [Parties -> SUBSET Players]
  BY <1>a, <1>4
<1>7. t \in Bunches
  BY <1>1, <1>a, <1>3, <1>4, <1>5, <1>6 DEF Bunches
<1>8. \A q \in Players : q \in t.channel[P] <=> q \in s.channel[P] /\ q \notin out
  BY <1>a, <1>4
<1>9. /\ t.parties[P] = Nothing
      /\ \A Q \in Parties \ {P} : t.parties[Q] = s.parties[Q] /\ t.channel[Q] = s.channel[Q]
  BY <1>a, <1>4
<1>10. Disbanded(s, t, P)
  BY <1>a, <1>2, <1>7, <1>8, <1>9 DEF Disbanded
<1>. QED
  BY <1>10 DEF t

-----------------------------------------------------------------------------
(* An invitation is taken back: the party ends with the last one if its    *)
(* leader is alone.                                                        *)
Over(s, p, P) ==
  Living(s, P) /\ s.parties[P].members = <<>> /\ s.parties[P].invites = {p}

After(s, p, P) ==
  IF Over(s, p, P) THEN Nothing ELSE [s.parties[P] EXCEPT !.invites = @ \ {p}]

(* removeInvite(), point by point. *)
Turned(s, t, p, P) ==
  /\ t \in Bunches
  /\ t.lost = (s.lost \/ ~Living(s, P))
  /\ t.parties[P] = After(s, p, P)
  /\ \A Q \in Parties \ {P} : t.parties[Q] = s.parties[Q] /\ t.channel[Q] = s.channel[Q]
  /\ \A q \in Players :
       /\ t.people[q].online = s.people[q].online /\ t.people[q].linked = s.people[q].linked
       /\ t.people[q].party = IF Over(s, p, P) /\ q = s.parties[P].leader
                              THEN NoParty ELSE s.people[q].party
       /\ t.people[q].invitations = IF q = p /\ p \in s.parties[P].invites
                                    THEN s.people[q].invitations \ {P}
                                    ELSE s.people[q].invitations
       /\ q \in t.channel[P] <=>
            /\ q \in s.channel[P]
            /\ ~(/\ Over(s, p, P) /\ q = s.parties[P].leader
                 /\ s.people[q].linked /\ s.people[q].party = P)

LEMMA AfterIs ==
  ASSUME NEW s \in Bunches, NEW p \in Players, NEW P \in Parties
  PROVE  LET c == s.parties[P] IN
         /\ After(s, p, P) \in Group
         /\ After(s, p, P).invites = c.invites \ {p}
         /\ After(s, p, P).members = c.members
         /\ ~Over(s, p, P) => After(s, p, P).leader = c.leader
<1>. DEFINE c == s.parties[P]
<1>1. c \in Group
  BY GroupIs
<1>. HIDE DEF c
<1>2. LET d == [c EXCEPT !.invites = @ \ {p}] IN
      d \in Group /\ d.invites = c.invites \ {p} /\ d.members = c.members /\ d.leader = c.leader
  BY <1>1 DEF Group
<1>3. CASE Over(s, p, P)
  <2>1. c.invites \ {p} = {} /\ c.members = <<>>
    BY <1>3 DEF Over, c
  <2>. QED
    BY <1>3, <2>1, NothingIs DEF After, c
<1>4. CASE ~Over(s, p, P)
  BY <1>2, <1>4 DEF After, c
<1>. QED
  BY <1>3, <1>4

LEMMA TurnIs ==
  ASSUME NEW s, Sane(s), NEW p \in Players, NEW P \in Parties
  PROVE  Turned(s, RemoveInvite(s, p, P), p, P)
<1>. DEFINE c == s.parties[P]
            t == RemoveInvite(s, p, P)
<1>0. /\ s \in Bunches /\ c \in Group /\ s.lost \in BOOLEAN
      /\ s.parties \in [Parties -> Group] /\ s.people \in [Players -> Person]
      /\ ~Living(s, P) => c = Nothing
  BY GroupIs DEF Sane, Bunches
<1>1. CASE ~Living(s, P)
  <2>1. t = [s EXCEPT !.lost = TRUE]
    BY <1>1 DEF RemoveInvite, Living
  <2>2. /\ t \in Bunches /\ t.lost = TRUE
        /\ t.parties = s.parties /\ t.people = s.people /\ t.channel = s.channel
    BY <1>0, <2>1 DEF Bunches
  <2>3. ~Over(s, p, P) /\ p \notin c.invites
    BY <1>0, <1>1, NothingIs DEF Over
  <2>4. [c EXCEPT !.invites = @ \ {p}] = c
    BY <1>0, <2>3 DEF Group
  <2>5. After(s, p, P) = c
    BY <2>3, <2>4 DEF After
  <2>. QED
    BY <1>1, <2>2, <2>3, <2>5 DEF Turned
<1>2. CASE Living(s, P) /\ p \notin c.invites
  <2>1. t = s
    BY <1>2 DEF RemoveInvite, Living
  <2>2. ~Over(s, p, P)
    BY <1>2 DEF Over
  <2>3. c.invites \ {p} = c.invites
    BY <1>2
  <2>4. [c EXCEPT !.invites = @ \ {p}] = c
    BY <1>0, <2>3 DEF Group
  <2>5. After(s, p, P) = c
    BY <2>2, <2>4 DEF After
  <2>. QED
    BY <1>0, <1>2, <2>1, <2>2, <2>5 DEF Turned
<1>3. CASE Living(s, P) /\ p \in c.invites
  <2>. DEFINE d == [c EXCEPT !.invites = @ \ {p}]
              m == [s.people[p] EXCEPT !.invitations = @ \ {P}]
              u == [s EXCEPT !.parties = [s.parties EXCEPT ![P] = d],
                             !.people = [s.people EXCEPT ![p] = m]]
  <2>1. t = DisbandIfEmpty(u, P, FALSE)
    <3>1. s.parties[P].leader # NoPlayer
      BY <1>3 DEF Living
    <3>2. u = [s EXCEPT !.parties[P].invites = @ \ {p}, !.people[p].invitations = @ \ {P}]
      BY <1>0 DEF Bunches
    <3>. QED
      BY <1>3, <3>1, <3>2 DEF RemoveInvite
  <2>2. /\ d \in Group /\ d.invites = c.invites \ {p} /\ d.members = c.members
        /\ d.leader = c.leader
    BY <1>0 DEF Group
  <2>3. /\ m \in Person /\ m.online = s.people[p].online /\ m.linked = s.people[p].linked
        /\ m.party = s.people[p].party /\ m.invitations = s.people[p].invitations \ {P}
    BY <1>0 DEF Person
  <2>. HIDE DEF d, m
  <2>4. /\ u.parties = [s.parties EXCEPT ![P] = d] /\ u.people = [s.people EXCEPT ![p] = m]
        /\ u.channel = s.channel /\ u.lost = s.lost /\ u \in Bunches
    <3>1. [s.parties EXCEPT ![P] = d] \in [Parties -> Group]
      BY <1>0, <2>2
    <3>2. [s.people EXCEPT ![p] = m] \in [Players -> Person]
      BY <1>0, <2>3
    <3>. QED
      BY <1>0, <3>1, <3>2 DEF Bunches
  <2>. HIDE DEF u, t
  <2>5. /\ u.parties[P] = d
        /\ \A Q \in Parties \ {P} : u.parties[Q] = s.parties[Q]
        /\ u.people[p] = m /\ \A q \in Players \ {p} : u.people[q] = s.people[q]
    BY <1>0, <2>4
  <2>6. \A q \in Players :
          /\ u.people[q].online = s.people[q].online /\ u.people[q].linked = s.people[q].linked
          /\ u.people[q].party = s.people[q].party
          /\ u.people[q].invitations = IF q = p THEN s.people[q].invitations \ {P}
                                                ELSE s.people[q].invitations
    BY <2>3, <2>5
  <2>7. CanDisband(d) <=> Over(s, p, P)
    BY <1>3, <2>2 DEF CanDisband, Over
  <2>8. CASE ~Over(s, p, P)
    <3>1. t = u
      BY <2>1, <2>5, <2>7, <2>8 DEF DisbandIfEmpty
    <3>2. After(s, p, P) = d
      BY <2>8 DEF After, d
    <3>3. /\ t \in Bunches /\ t.lost = (s.lost \/ ~Living(s, P))
          /\ t.parties[P] = After(s, p, P) /\ t.channel = s.channel
          /\ \A Q \in Parties \ {P} : t.parties[Q] = s.parties[Q]
      BY <1>0, <1>3, <2>4, <2>5, <3>1, <3>2
    <3>4. \A q \in Players :
            /\ t.people[q].online = s.people[q].online /\ t.people[q].linked = s.people[q].linked
            /\ t.people[q].party = s.people[q].party
            /\ t.people[q].invitations = IF q = p /\ p \in s.parties[P].invites
                                         THEN s.people[q].invitations \ {P}
                                         ELSE s.people[q].invitations
      BY <1>3, <2>6, <3>1
    <3>5. Turned(s, t, p, P)
      BY <2>8, <3>3, <3>4 DEF Turned
    <3>. QED
      BY <3>5 DEF t
  <2>9. CASE Over(s, p, P)
    <3>1. t = Disband(u, P)
      BY <2>1, <2>5, <2>7, <2>9 DEF DisbandIfEmpty
    <3>2. Disbanded(u, t, P)
      BY <2>4, <3>1, DisbandIs
    <3>3. /\ d.invites = {} /\ d.members = <<>> /\ d.leader = c.leader
      BY <2>2, <2>9 DEF Over
    <3>4. Crew(d) = {c.leader}
      BY <3>3 DEF Crew, ToSet
    <3>5. After(s, p, P) = Nothing
      BY <2>9 DEF After
    <3>6. /\ t \in Bunches /\ t.lost = (s.lost \/ ~Living(s, P))
          /\ t.parties[P] = After(s, p, P)
          /\ \A Q \in Parties \ {P} : t.parties[Q] = s.parties[Q] /\ t.channel[Q] = s.channel[Q]
      BY <1>0, <1>3, <2>4, <2>5, <3>2, <3>5 DEF Disbanded
    <3>7. \A q \in Players :
            /\ t.people[q].online = u.people[q].online /\ t.people[q].linked = u.people[q].linked
            /\ t.people[q].party = IF q = c.leader THEN NoParty ELSE u.people[q].party
            /\ t.people[q].invitations = u.people[q].invitations
            /\ q \in t.channel[P] <=>
                 q \in u.channel[P] /\ ~(q = c.leader /\ u.people[q].linked /\ u.people[q].party = P)
      BY <2>5, <3>2, <3>3, <3>4 DEF Disbanded
    <3>8. \A q \in Players :
            /\ t.people[q].online = s.people[q].online /\ t.people[q].linked = s.people[q].linked
            /\ t.people[q].party = IF Over(s, p, P) /\ q = c.leader
                                   THEN NoParty ELSE s.people[q].party
            /\ t.people[q].invitations = IF q = p /\ p \in s.parties[P].invites
                                         THEN s.people[q].invitations \ {P}
                                         ELSE s.people[q].invitations
            /\ q \in t.channel[P] <=>
                 /\ q \in s.channel[P]
                 /\ ~(/\ Over(s, p, P) /\ q = c.leader
                      /\ s.people[q].linked /\ s.people[q].party = P)
      <4>. TAKE q \in Players
      <4>1. p \in s.parties[P].invites /\ u.channel[P] = s.channel[P] /\ Over(s, p, P)
        BY <1>3, <2>4, <2>9
      <4>2. /\ u.people[q].online = s.people[q].online /\ u.people[q].linked = s.people[q].linked
            /\ u.people[q].party = s.people[q].party
            /\ u.people[q].invitations = IF q = p THEN s.people[q].invitations \ {P}
                                                  ELSE s.people[q].invitations
        BY <2>6
      <4>3. /\ t.people[q].online = u.people[q].online /\ t.people[q].linked = u.people[q].linked
            /\ t.people[q].party = IF q = c.leader THEN NoParty ELSE u.people[q].party
            /\ t.people[q].invitations = u.people[q].invitations
            /\ q \in t.channel[P] <=>
                 q \in u.channel[P] /\ ~(q = c.leader /\ u.people[q].linked /\ u.people[q].party = P)
        BY <3>7
      <4>. QED
        BY <4>1, <4>2, <4>3
    <3>9. Turned(s, t, p, P)
      BY <3>6, <3>8 DEF Turned
    <3>. QED
      BY <3>9 DEF t
  <2>. QED
    BY <2>8, <2>9
<1>. QED
  BY <1>1, <1>2, <1>3

-----------------------------------------------------------------------------
(* The parties A take back their invitations of p. *)
Trimmed(s, t, p, A) ==
  /\ t \in Bunches
  /\ \A P \in Parties : t.parties[P] = IF P \in A THEN After(s, p, P) ELSE s.parties[P]
  /\ \A q \in Players :
       /\ t.people[q].online = s.people[q].online /\ t.people[q].linked = s.people[q].linked
       /\ t.people[q].party = IF \E P \in A : Over(s, p, P) /\ q = s.parties[P].leader
                              THEN NoParty ELSE s.people[q].party
       /\ t.people[q].invitations = IF q = p THEN s.people[q].invitations \ A
                                             ELSE s.people[q].invitations
  /\ \A P \in Parties, q \in Players :
       q \in t.channel[P] <=>
         /\ q \in s.channel[P]
         /\ ~(/\ P \in A /\ Over(s, p, P) /\ q = s.parties[P].leader
              /\ s.people[q].linked /\ s.people[q].party = P)

LEMMA RevokeTrims ==
  ASSUME NEW s, Sane(s), NEW p \in Players, NEW P \in Parties, p \in s.parties[P].invites
  PROVE  Trimmed(s, RemoveInvite(s, p, P), p, {P}) /\ RemoveInvite(s, p, P).lost = s.lost
<1>. DEFINE t == RemoveInvite(s, p, P)
<1>1. Turned(s, t, p, P)
  BY TurnIs
<1>2. Living(s, P)
  BY NothingIs DEF Sane
<1>3. s.lost \in BOOLEAN
  BY GroupIs DEF Sane
<1>. HIDE DEF t
<1>4. Trimmed(s, t, p, {P}) /\ t.lost = s.lost
  <2>1. /\ t \in Bunches /\ t.lost = s.lost
        /\ \A Q \in Parties : t.parties[Q] = IF Q \in {P} THEN After(s, p, Q) ELSE s.parties[Q]
    BY <1>1, <1>2, <1>3 DEF Turned
  <2>2. ASSUME NEW q \in Players
        PROVE  /\ t.people[q].online = s.people[q].online
               /\ t.people[q].linked = s.people[q].linked
               /\ t.people[q].party = IF \E Q \in {P} : Over(s, p, Q) /\ q = s.parties[Q].leader
                                      THEN NoParty ELSE s.people[q].party
               /\ t.people[q].invitations = IF q = p THEN s.people[q].invitations \ {P}
                                                     ELSE s.people[q].invitations
    BY <1>1 DEF Turned
  <2>3. ASSUME NEW Q \in Parties, NEW q \in Players
        PROVE  q \in t.channel[Q] <=>
                 /\ q \in s.channel[Q]
                 /\ ~(/\ Q \in {P} /\ Over(s, p, Q) /\ q = s.parties[Q].leader
                      /\ s.people[q].linked /\ s.people[q].party = Q)
    <3>1. CASE Q = P
      BY <1>1, <3>1 DEF Turned
    <3>2. CASE Q # P
      BY <1>1, <3>2 DEF Turned
    <3>. QED
      BY <3>1, <3>2
  <2>. QED
    BY <2>1, <2>2, <2>3 DEF Trimmed
<1>. QED
  BY <1>4 DEF t

LEMMA ClearTrims ==
  ASSUME NEW s, Sane(s), NEW p \in Players
  PROVE  /\ Trimmed(s, ClearInvitations(s, p), p, s.people[p].invitations)
         /\ s.lost => ClearInvitations(s, p).lost
<1>. DEFINE A == s.people[p].invitations
            turn(P) == RemoveInvite(s, p, P)
            body == [q \in Players |-> [s.people[q] EXCEPT
              !.party = IF \E P \in A : turn(P).people[q].party = NoParty THEN NoParty ELSE @,
              !.invitations = IF q = p THEN {} ELSE @]]
            t == ClearInvitations(s, p)
<1>0. s \in Bunches /\ A \subseteq Parties /\ s.lost \in BOOLEAN
  BY GroupIs DEF Sane
<1>1. \A P \in Parties : Turned(s, turn(P), p, P)
  BY TurnIs
<1>2. t = [parties |-> [P \in Parties |-> IF P \in A THEN turn(P).parties[P] ELSE s.parties[P]],
           people |-> body,
           channel |-> [P \in Parties |-> IF P \in A THEN turn(P).channel[P] ELSE s.channel[P]],
           lost |-> s.lost \/ \E P \in A : turn(P).lost]
  BY DEF ClearInvitations
<1>. HIDE DEF turn, t
<1>3. \A q \in Players :
        /\ body[q] \in Person
        /\ body[q].online = s.people[q].online /\ body[q].linked = s.people[q].linked
        /\ body[q].party = IF \E P \in A : turn(P).people[q].party = NoParty
                           THEN NoParty ELSE s.people[q].party
        /\ body[q].invitations = IF q = p THEN {} ELSE s.people[q].invitations
  <2>. TAKE q \in Players
  <2>. DEFINE m == s.people[q]
              f == IF \E P \in A : turn(P).people[q].party = NoParty THEN NoParty ELSE m.party
              i == IF q = p THEN {} ELSE m.invitations
  <2>1. m \in Person /\ m.party \in Parties \cup {NoParty} /\ m.invitations \in SUBSET Parties
    BY <1>0, GroupIs
  <2>2. body[q] = [m EXCEPT !.party = f, !.invitations = i]
    OBVIOUS
  <2>. HIDE DEF body, m
  <2>3. f \in Parties \cup {NoParty} /\ i \in SUBSET Parties
    BY <2>1
  <2>. HIDE DEF f, i
  <2>4. /\ body[q] \in Person /\ body[q].online = m.online /\ body[q].linked = m.linked
        /\ body[q].party = f /\ body[q].invitations = i
    BY <2>1, <2>2, <2>3 DEF Person
  <2>. QED
    BY <2>4 DEF m, f, i
<1>. HIDE DEF body
<1>4. ASSUME NEW q \in Players
      PROVE  body[q].party = IF \E P \in A : Over(s, p, P) /\ q = s.parties[P].leader
                             THEN NoParty ELSE s.people[q].party
  <2>1. \A P \in A : turn(P).people[q].party = IF Over(s, p, P) /\ q = s.parties[P].leader
                                               THEN NoParty ELSE s.people[q].party
    <3>. TAKE P \in A
    <3>1. Turned(s, turn(P), p, P)
      BY <1>0, <1>1
    <3>. QED
      BY <3>1 DEF Turned
  <2>. QED
    BY <1>3, <2>1
<1>5. \A P \in Parties : /\ turn(P).parties[P] = After(s, p, P) /\ After(s, p, P) \in Group
                         /\ turn(P).channel[P] \in SUBSET Players
  <2>. TAKE P \in Parties
  <2>1. turn(P) \in Bunches /\ turn(P).parties[P] = After(s, p, P)
    BY <1>1 DEF Turned
  <2>. QED
    BY <1>0, <2>1, AfterIs, GroupIs
<1>6. \A P \in Parties : /\ t.parties[P] = IF P \in A THEN After(s, p, P) ELSE s.parties[P]
                         /\ t.channel[P] = IF P \in A THEN turn(P).channel[P] ELSE s.channel[P]
  BY <1>2, <1>5
<1>7. t \in Bunches
  <2>1. body \in [Players -> Person]
    <3>1. body = [q \in Players |-> body[q]]
      BY DEF body
    <3>. QED
      BY <1>3, <3>1
  <2>2. [P \in Parties |-> IF P \in A THEN turn(P).parties[P] ELSE s.parties[P]] \in [Parties -> Group]
    BY <1>0, <1>5, GroupIs
  <2>3. [P \in Parties |-> IF P \in A THEN turn(P).channel[P] ELSE s.channel[P]]
          \in [Parties -> SUBSET Players]
    BY <1>0, <1>5, GroupIs
  <2>4. (s.lost \/ \E P \in A : turn(P).lost) \in BOOLEAN
    OBVIOUS
  <2>. QED
    BY <1>2, <2>1, <2>2, <2>3, <2>4 DEF Bunches
<1>8. ASSUME NEW P \in Parties, NEW q \in Players
      PROVE  q \in t.channel[P] <=>
               /\ q \in s.channel[P]
               /\ ~(/\ P \in A /\ Over(s, p, P) /\ q = s.parties[P].leader
                    /\ s.people[q].linked /\ s.people[q].party = P)
  <2>1. Turned(s, turn(P), p, P)
    BY <1>1
  <2>2. q \in turn(P).channel[P] <=>
          /\ q \in s.channel[P]
          /\ ~(/\ Over(s, p, P) /\ q = s.parties[P].leader
               /\ s.people[q].linked /\ s.people[q].party = P)
    BY <2>1 DEF Turned
  <2>. QED
    BY <1>6, <2>2
<1>9. A \ A = {} /\ t.people = body /\ t.lost = (s.lost \/ \E P \in A : turn(P).lost)
  BY <1>2
<1>10. Trimmed(s, t, p, A)
  BY <1>3, <1>4, <1>6, <1>7, <1>8, <1>9 DEF Trimmed
<1>. QED
  BY <1>9, <1>10 DEF t

LEMMA TrimmedKeeps ==
  ASSUME NEW s, Sane(s), Firm(s), NEW t, NEW p \in Players, NEW A \in SUBSET Parties,
         Trimmed(s, t, p, A)
  PROVE  Sane(t) /\ Firm(t) /\ Seemly(s, t, {})
<1>. DEFINE Ends(P) == P \in A /\ Over(s, p, P)
<1>0. s \in Bunches /\ t \in Bunches
  BY DEF Sane, Trimmed
<1>1. ASSUME NEW P \in Parties
      PROVE  /\ s.parties[P] \in Group /\ t.parties[P] \in Group
             /\ Ends(P) => t.parties[P] = Nothing
             /\ t.parties[P].members = s.parties[P].members
             /\ t.parties[P].invites = IF P \in A THEN s.parties[P].invites \ {p}
                                                  ELSE s.parties[P].invites
             /\ ~Ends(P) => t.parties[P].leader = s.parties[P].leader
             /\ Living(t, P) <=> Living(s, P) /\ ~Ends(P)
  <2>1. s.parties[P] \in Group /\ t.parties[P] \in Group
    BY <1>0, GroupIs
  <2>2. CASE P \in A
    <3>1. t.parties[P] = After(s, p, P)
      BY <2>2 DEF Trimmed
    <3>2. /\ After(s, p, P).invites = s.parties[P].invites \ {p}
          /\ After(s, p, P).members = s.parties[P].members
          /\ ~Over(s, p, P) => After(s, p, P).leader = s.parties[P].leader
      BY <1>0, AfterIs
    <3>3. Over(s, p, P) => After(s, p, P) = Nothing /\ Living(s, P)
      BY DEF After, Over
    <3>. QED
      BY <2>1, <2>2, <3>1, <3>2, <3>3, NothingIs DEF Living
  <2>3. CASE P \notin A
    BY <2>1, <2>3 DEF Trimmed, Living
  <2>. QED
    BY <2>2, <2>3
<1>2. ASSUME NEW q \in Players
      PROVE  /\ t.people[q].online = s.people[q].online
             /\ t.people[q].linked = s.people[q].linked
             /\ t.people[q].party = IF \E P \in A : Over(s, p, P) /\ q = s.parties[P].leader
                                    THEN NoParty ELSE s.people[q].party
             /\ t.people[q].invitations = IF q = p THEN s.people[q].invitations \ A
                                                   ELSE s.people[q].invitations
  BY DEF Trimmed
<1>3. ASSUME NEW q \in Players, NEW P \in Parties
      PROVE  s.people[q].party = P <=> Living(s, P) /\ q \in Crew(s.parties[P])
  BY DEF Firm, Loyal
<1>4. ASSUME NEW P \in Parties, Ends(P)
      PROVE  /\ Living(s, P) /\ Crew(s.parties[P]) = {s.parties[P].leader}
             /\ s.parties[P].leader \in Players /\ s.people[s.parties[P].leader].party = P
             /\ s.parties[P].members = <<>> /\ s.parties[P].invites = {p}
  <2>1. Living(s, P) /\ s.parties[P].members = <<>> /\ s.parties[P].invites = {p}
    BY <1>4 DEF Over
  <2>2. Crew(s.parties[P]) = {s.parties[P].leader}
    BY <2>1 DEF Crew, ToSet
  <2>3. s.parties[P].leader \in Players
    BY <1>0, <2>1, CrewIs
  <2>. QED
    BY <1>3, <2>1, <2>2, <2>3
<1>. HIDE DEF Ends
<1>5. ASSUME NEW q \in Players
      PROVE  t.people[q].party = IF \E P \in Parties : Ends(P) /\ s.people[q].party = P
                                 THEN NoParty ELSE s.people[q].party
  <2>1. (\E P \in A : Over(s, p, P) /\ q = s.parties[P].leader)
          <=> \E P \in Parties : Ends(P) /\ s.people[q].party = P
    <3>1. ASSUME NEW P \in A, Over(s, p, P), q = s.parties[P].leader
          PROVE  Ends(P) /\ s.people[q].party = P
      BY <1>4, <3>1 DEF Ends
    <3>2. ASSUME NEW P \in Parties, Ends(P), s.people[q].party = P
          PROVE  P \in A /\ Over(s, p, P) /\ q = s.parties[P].leader
      <4>1. q \in Crew(s.parties[P])
        BY <1>3, <3>2
      <4>2. Crew(s.parties[P]) = {s.parties[P].leader}
        BY <1>4, <3>2
      <4>. QED
        BY <3>2, <4>1, <4>2 DEF Ends
    <3>. QED
      BY <3>1, <3>2
  <2>. QED
    BY <1>2, <2>1
<1>6. Sane(t)
  <2>1. ASSUME NEW P \in Parties, ~Living(t, P)
        PROVE  t.parties[P] = Nothing
    <3>1. CASE Ends(P)
      BY <1>1, <3>1
    <3>2. CASE ~Ends(P)
      <4>1. ~Living(s, P) /\ s.parties[P] = Nothing
        BY <1>1, <2>1, <3>2 DEF Sane
      <4>2. t.parties[P].members = <<>> /\ t.parties[P].invites = {}
            /\ t.parties[P].leader = NoPlayer /\ t.parties[P] \in Group
        BY <1>1, <3>2, <4>1, NothingIs
      <4>. QED
        BY <4>2 DEF Group, Nothing
    <3>. QED
      BY <3>1, <3>2
  <2>2. ASSUME NEW q \in Players, NEW P \in Parties, q \in t.parties[P].invites
        PROVE  P \in t.people[q].invitations
    <3>1. q \in s.parties[P].invites /\ (P \in A => q # p)
      BY <1>1, <2>2
    <3>2. P \in s.people[q].invitations
      BY <3>1 DEF Sane
    <3>. QED
      BY <1>2, <3>1, <3>2
  <2>3. ASSUME NEW q \in Players, ~t.people[q].online
        PROVE  t.people[q] = Away
    <3>1. s.people[q] = Away
      BY <1>2, <2>3 DEF Sane
    <3>2. /\ t.people[q].online = Away.online /\ t.people[q].linked = Away.linked
          /\ t.people[q].party = Away.party /\ t.people[q].invitations = Away.invitations
      BY <1>2, <3>1, NothingIs
    <3>3. t.people[q] \in Person /\ Away \in Person
      BY <1>0, GroupIs, NothingIs
    <3>. QED
      BY <3>2, <3>3 DEF Person
  <2>. QED
    BY <1>0, <2>1, <2>2, <2>3 DEF Sane
<1>7. Loyal(t)
  <2>. SUFFICES ASSUME NEW q \in Players, NEW P \in Parties
                PROVE  t.people[q].party = P <=> Living(t, P) /\ q \in Crew(t.parties[P])
    BY DEF Loyal
  <2>0. NoParty # P
    BY PartyAssumption
  <2>1. CASE Ends(P)
    <3>1. ~Living(t, P)
      BY <1>1, <2>1
    <3>2. t.people[q].party # P
      BY <1>5, <2>0, <2>1
    <3>. QED
      BY <3>1, <3>2
  <2>2. CASE ~Ends(P)
    <3>1. t.people[q].party = P <=> s.people[q].party = P
      BY <1>5, <2>0, <2>2
    <3>2. Crew(t.parties[P]) = Crew(s.parties[P])
      BY <1>1, <2>2 DEF Crew
    <3>. QED
      BY <1>1, <1>3, <2>2, <3>1, <3>2
  <2>. QED
    BY <2>1, <2>2
<1>8. Firm(t)
  <2>1. ASSUME NEW P \in Parties, Living(t, P)
        PROVE  /\ Orderly(t.parties[P])
               /\ t.parties[P].members # <<>> \/ t.parties[P].invites # {}
    <3>1. Living(s, P) /\ ~Ends(P)
      BY <1>1, <2>1
    <3>2. Orderly(s.parties[P])
          /\ (s.parties[P].members # <<>> \/ s.parties[P].invites # {})
      BY <3>1 DEF Firm
    <3>3. Orderly(t.parties[P])
      BY <1>1, <3>1, <3>2 DEF Orderly
    <3>a. /\ t.parties[P].members = s.parties[P].members
          /\ t.parties[P].invites = IF P \in A THEN s.parties[P].invites \ {p}
                                               ELSE s.parties[P].invites
      BY <1>1
    <3>4. CASE s.parties[P].members = <<>> /\ P \in A
      <4>1. s.parties[P].invites # {p} /\ s.parties[P].invites # {}
        BY <3>1, <3>2, <3>4 DEF Ends, Over
      <4>2. s.parties[P].invites \ {p} # {}
        BY <4>1
      <4>. QED
        BY <3>3, <3>4, <3>a, <4>2
    <3>5. CASE s.parties[P].members # <<>> \/ P \notin A
      BY <3>2, <3>3, <3>5, <3>a
    <3>. QED
      BY <3>4, <3>5
  <2>. QED
    BY <1>7, <2>1 DEF Firm
<1>9. NoneForgotten(s, t)
  <2>. SUFFICES ASSUME NEW q \in Players, NEW P \in Parties,
                       P \in t.people[q].invitations, q \notin t.parties[P].invites
                PROVE  P \in s.people[q].invitations /\ q \notin s.parties[P].invites
    BY DEF NoneForgotten
  <2>1. t.people[q].invitations = IF q = p THEN s.people[q].invitations \ A
                                           ELSE s.people[q].invitations
    BY <1>2
  <2>2. t.parties[P].invites = IF P \in A THEN s.parties[P].invites \ {p}
                                          ELSE s.parties[P].invites
    BY <1>1
  <2>. QED
    BY <2>1, <2>2
<1>10. LongLived(s, t)
  <2>. SUFFICES ASSUME NEW P \in Parties, Living(s, P), Len(s.parties[P].members) > 1, Ends(P)
                PROVE  FALSE
    BY <1>1 DEF LongLived
  <2>. QED
    BY <1>4
<1>11. NoneStrays(s, t, {})
  <2>. SUFFICES ASSUME NEW P \in Parties, NEW q \in Players,
                       q \in t.channel[P], t.people[q].party # P, s.people[q].linked
                PROVE  q \in s.channel[P] /\ s.people[q].party # P
    BY DEF NoneStrays
  <2>1. q \in s.channel[P]
        /\ ~(P \in A /\ Over(s, p, P) /\ q = s.parties[P].leader /\ s.people[q].party = P)
    BY DEF Trimmed
  <2>2. ASSUME s.people[q].party = P
        PROVE  FALSE
    <3>1. Ends(P)
      BY <1>5, <2>2
    <3>2. q = s.parties[P].leader
      BY <1>3, <1>4, <2>2, <3>1
    <3>. QED
      BY <2>1, <2>2, <3>1, <3>2 DEF Ends
  <2>. QED
    BY <2>1, <2>2
<1>. QED
  BY <1>6, <1>8, <1>9, <1>10, <1>11 DEF Seemly

-----------------------------------------------------------------------------
(* A player leaves his party. *)
LEMMA HandOverIs ==
  ASSUME NEW c \in Group, Orderly(c), c.leader \in Players, NEW q \in ToSet(c.members)
  PROVE  LET d == HandOver(c, q) IN
         /\ d \in Group /\ Orderly(d) /\ d.leader = q /\ q # c.leader /\ q \in Players
         /\ d.invites = c.invites /\ Len(d.members) = Len(c.members) /\ d.members # <<>>
         /\ Crew(d) = Crew(c) /\ ToSet(d.members) = Crew(c) \ {q}
<1>. DEFINE r == RemoveFirst(c.members, q)
            m == <<c.leader>> \o r
<1>1. c.members \in Seq(Players) /\ Once(c.members) /\ c.leader \notin ToSet(c.members)
  BY DEF Group, Orderly
<1>2. Without(c.members, q, r)
  BY <1>1, RemoveFirstIs
<1>3. q \in Players /\ q # c.leader
  BY <1>1, SetIs
<1>4. /\ r \in Seq(Players) /\ Once(r) /\ ToSet(r) = ToSet(c.members) \ {q}
      /\ Len(r) = Len(c.members) - 1 /\ Len(c.members) \in Nat /\ Len(r) \in Nat
  <2>1. r \in Seq(Players) /\ Len(c.members) \in Nat
    BY <1>1, <1>2 DEF Without
  <2>. QED
    BY <1>2, <2>1 DEF Without
<1>. HIDE DEF r
<1>5. /\ m \in Seq(Players) /\ Len(m) = Len(r) + 1 /\ m[1] = c.leader
      /\ \A i \in 1 .. Len(r) : m[i + 1] = r[i]
  <2>1. <<c.leader>> \in Seq(Players) /\ Len(<<c.leader>>) = 1 /\ <<c.leader>>[1] = c.leader
    OBVIOUS
  <2>2. \A a, b \in Seq(Players) :
          /\ a \o b \in Seq(Players) /\ Len(a \o b) = Len(a) + Len(b)
          /\ \A i \in 1 .. Len(a) + Len(b) :
               (a \o b)[i] = IF i <= Len(a) THEN a[i] ELSE b[i - Len(a)]
    OBVIOUS
  <2>3. m \in Seq(Players) /\ Len(m) = 1 + Len(r)
        /\ \A i \in 1 .. 1 + Len(r) : m[i] = IF i <= 1 THEN <<c.leader>>[i] ELSE r[i - 1]
    BY <1>4, <2>1, <2>2
  <2>4. m[1] = c.leader
    BY <1>4, <2>1, <2>3
  <2>5. ASSUME NEW i \in 1 .. Len(r) PROVE m[i + 1] = r[i]
    <3>1. i + 1 \in 1 .. 1 + Len(r) /\ ~(i + 1 <= 1) /\ i + 1 - 1 = i
      BY <1>4
    <3>. QED
      BY <2>3, <3>1
  <2>. QED
    BY <1>4, <2>3, <2>4, <2>5
<1>. HIDE DEF m
<1>6. ASSUME NEW i \in 1 .. Len(m)
      PROVE  i = 1 \/ (i - 1 \in 1 .. Len(r) /\ m[i] = r[i - 1])
  BY <1>4, <1>5
<1>7. ToSet(m) = {c.leader} \cup ToSet(r)
  <2>1. ASSUME NEW x, x \in ToSet(m) PROVE x = c.leader \/ x \in ToSet(r)
    <3>1. PICK i \in 1 .. Len(m) : m[i] = x
      BY <1>5, <2>1, SetIs
    <3>. QED
      BY <1>4, <1>5, <1>6, <3>1, SetIs
  <2>2. c.leader \in ToSet(m)
    <3>1. 1 \in 1 .. Len(m)
      BY <1>4, <1>5
    <3>. QED
      BY <1>5, <3>1, SetIs
  <2>3. ASSUME NEW x, x \in ToSet(r) PROVE x \in ToSet(m)
    <3>1. PICK i \in 1 .. Len(r) : r[i] = x
      BY <1>4, <2>3, SetIs
    <3>2. i + 1 \in 1 .. Len(m) /\ m[i + 1] = x
      BY <1>4, <1>5, <3>1
    <3>. QED
      BY <1>5, <3>2, SetIs
  <2>. QED
    BY <2>1, <2>2, <2>3
<1>8. Once(m)
  <2>. SUFFICES ASSUME NEW i \in 1 .. Len(m), NEW j \in 1 .. Len(m), m[i] = m[j]
                PROVE  i = j
    BY DEF Once
  <2>1. \A k \in 1 .. Len(r) : r[k] # c.leader
    BY <1>1, <1>4, SetIs
  <2>2. CASE i = 1 \/ j = 1
    BY <1>5, <1>6, <2>1, <2>2
  <2>3. CASE i # 1 /\ j # 1
    <3>1. /\ i - 1 \in 1 .. Len(r) /\ j - 1 \in 1 .. Len(r) /\ r[i - 1] = r[j - 1]
      BY <1>6, <2>3
    <3>2. i - 1 = j - 1
      BY <1>4, <3>1 DEF Once
    <3>. QED
      BY <3>2
  <2>. QED
    BY <2>2, <2>3
<1>. DEFINE d == HandOver(c, q)
<1>9. d = [c EXCEPT !.leader = q, !.members = m]
  BY DEF HandOver, m, r
<1>. HIDE DEF d
<1>10. d \in Group /\ d.leader = q /\ d.members = m /\ d.invites = c.invites
  BY <1>3, <1>5, <1>9 DEF Group
<1>11. Crew(d) = Crew(c) /\ ToSet(d.members) = Crew(c) \ {q} /\ Orderly(d)
  BY <1>1, <1>3, <1>4, <1>7, <1>8, <1>10 DEF Crew, Orderly
<1>12. d.members # <<>> /\ Len(d.members) = Len(c.members)
  BY <1>4, <1>5, <1>10
<1>. QED
  BY <1>3, <1>10, <1>11, <1>12 DEF d

(* The party without p, and whether it ends with that. *)
Rest(c, p) == IF Passes(c, p) THEN HandOver(c, Head(c.members)) ELSE c
Remainder(c, p) ==
  [Rest(c, p) EXCEPT !.members = RemoveFirst(@, p), !.invites = @ \ {p}]
Breaks(c, p) == Rest(c, p).leader = p \/ CanDisband(Remainder(c, p))

LEMMA RemainderIs ==
  ASSUME NEW c \in Group, Orderly(c), c.leader \in Players, NEW p \in Crew(c)
  PROVE  LET d == Remainder(c, p) IN
         /\ d \in Group /\ Orderly(d) /\ d.leader \in Players
         /\ d.invites = c.invites \ {p} /\ Crew(d) \cup {p} = Crew(c)
         /\ ~Breaks(c, p) => Crew(d) = Crew(c) \ {p} /\ Len(d.members) = Len(c.members) - 1
         /\ Breaks(c, p) => Len(c.members) <= 1
<1>. DEFINE r == Rest(c, p)
            m == RemoveFirst(r.members, p)
            d == Remainder(c, p)
<1>1. /\ c.members \in Seq(Players) /\ Len(c.members) \in Nat /\ c.invites \in SUBSET Players
      /\ Once(c.members) /\ c.leader \notin ToSet(c.members)
      /\ c.members # <<>> => Head(c.members) \in ToSet(c.members)
  <2>1. c.members \in Seq(Players) /\ Len(c.members) \in Nat /\ c.invites \in SUBSET Players
    BY DEF Group
  <2>2. ASSUME c.members # <<>> PROVE Head(c.members) \in ToSet(c.members)
    <3>1. 1 \in 1 .. Len(c.members) /\ Head(c.members) = c.members[1]
      BY <2>1, <2>2
    <3>. QED
      BY <2>1, <3>1, SetIs
  <2>. QED
    BY <2>1, <2>2 DEF Orderly
<1>2. /\ r \in Group /\ Orderly(r) /\ r.leader \in Players /\ r.invites = c.invites
      /\ Len(r.members) = Len(c.members) /\ Crew(r) = Crew(c)
      /\ Passes(c, p) => r.leader # p /\ p = c.leader
      /\ ~Passes(c, p) => r = c
  <2>1. CASE Passes(c, p)
    <3>1. Head(c.members) \in ToSet(c.members) /\ p = c.leader /\ r = HandOver(c, Head(c.members))
      BY <1>1, <2>1 DEF Passes, Rest
    <3>. QED
      BY <2>1, <3>1, HandOverIs
  <2>2. CASE ~Passes(c, p)
    BY <2>2 DEF Rest
  <2>. QED
    BY <2>1, <2>2
<1>3. d = [r EXCEPT !.members = m, !.invites = @ \ {p}]
  BY DEF Remainder
<1>. HIDE DEF r
<1>4. r.members \in Seq(Players) /\ Once(r.members) /\ r.leader \notin ToSet(r.members)
  BY <1>2 DEF Group, Orderly
<1>5. Without(r.members, p, m)
  BY <1>4, RemoveFirstIs
<1>6. /\ m \in Seq(Players) /\ Once(m) /\ ToSet(m) = ToSet(r.members) \ {p}
      /\ Len(m) = IF p \in ToSet(r.members) THEN Len(r.members) - 1 ELSE Len(r.members)
      /\ Len(m) \in Nat
  <2>1. m \in Seq(Players)
    BY <1>5 DEF Without
  <2>. QED
    BY <1>5, <2>1 DEF Without
<1>. HIDE DEF m, d
<1>7. d \in Group /\ d.leader = r.leader /\ d.members = m /\ d.invites = c.invites \ {p}
  BY <1>2, <1>3, <1>6 DEF Group
<1>8. Orderly(d)
  BY <1>4, <1>6, <1>7 DEF Orderly
<1>9. p \in {r.leader} \cup ToSet(r.members) /\ Crew(c) = {r.leader} \cup ToSet(r.members)
  BY <1>2 DEF Crew
<1>10. Crew(d) = {r.leader} \cup (ToSet(r.members) \ {p})
  BY <1>6, <1>7 DEF Crew
<1>11. ASSUME r.leader # p
       PROVE  Crew(d) = Crew(c) \ {p} /\ Len(d.members) = Len(c.members) - 1
  BY <1>2, <1>6, <1>7, <1>9, <1>10, <1>11
<1>12. ~Breaks(c, p) => r.leader # p
  BY DEF Breaks, r
<1>13. ASSUME Breaks(c, p)
       PROVE  Len(c.members) <= 1
  <2>1. CASE r.leader = p
    <3>1. ~Passes(c, p) /\ r = c
      BY <1>2, <2>1
    <3>2. c.members = <<>> \/ Len(c.members) = 1
      BY <2>1, <3>1 DEF Passes
    <3>3. ASSUME NEW n, n = 0 \/ n = 1 PROVE n <= 1
      BY <3>3, SMT
    <3>4. Len(c.members) = 0 \/ Len(c.members) = 1
      BY <3>2
    <3>. QED
      BY <3>3, <3>4, Zenon
  <2>2. CASE r.leader # p
    <3>1. d.members = <<>>
      BY <1>13, <2>2 DEF Breaks, CanDisband, r, d
    <3>2. Len(d.members) = 0 /\ Len(c.members) \in Nat
      BY <1>1, <3>1
    <3>3. Len(d.members) = Len(c.members) - 1
      BY <1>11, <2>2
    <3>. QED
      BY <3>2, <3>3
  <2>. QED
    BY <2>1, <2>2
<1>14. d.leader \in Players /\ Crew(d) \cup {p} = Crew(c)
  BY <1>2, <1>7, <1>9, <1>10
<1>. QED
  BY <1>7, <1>8, <1>11, <1>12, <1>13, <1>14 DEF d

(* leave(), point by point. *)
LeftGoesOn(s, t, p, P) ==
  /\ t.parties[P] = Remainder(s.parties[P], p)
  /\ t.channel[P] = s.channel[P]
  /\ \A q \in Players :
       /\ t.people[q].party = IF q = p THEN NoParty ELSE s.people[q].party
       /\ t.people[q].invitations = s.people[q].invitations

LeftBreaks(s, t, p, P) ==
  /\ t.parties[P] = Nothing
  /\ \A q \in Players :
       /\ t.people[q].party = IF q \in Crew(s.parties[P]) THEN NoParty ELSE s.people[q].party
       /\ t.people[q].invitations = IF q \in s.parties[P].invites \ {p}
                                    THEN s.people[q].invitations \ {P}
                                    ELSE s.people[q].invitations
       /\ q # p => (q \in t.channel[P] <=>
                      q \in s.channel[P] /\ ~(q \in Crew(s.parties[P]) /\ s.people[q].linked))

Left(s, t, p, P) ==
  /\ t \in Bunches /\ t.lost = s.lost
  /\ \A Q \in Parties \ {P} : t.parties[Q] = s.parties[Q] /\ t.channel[Q] = s.channel[Q]
  /\ \A q \in Players : /\ t.people[q].online = s.people[q].online
                        /\ t.people[q].linked = s.people[q].linked
  /\ IF Breaks(s.parties[P], p) THEN LeftBreaks(s, t, p, P) ELSE LeftGoesOn(s, t, p, P)

LEMMA LeaveIs ==
  ASSUME NEW s, Sane(s), Firm(s), NEW p \in Players, s.people[p].party # NoParty
  PROVE  Left(s, LeaveParty(s, p), p, s.people[p].party)
<1>. DEFINE P == s.people[p].party
            c == s.parties[P]
            d == Remainder(c, p)
            m == [s.people[p] EXCEPT !.party = NoParty]
            u == [s EXCEPT !.parties = [s.parties EXCEPT ![P] = d],
                           !.people = [s.people EXCEPT ![p] = m]]
            t == LeaveParty(s, p)
<1>0. /\ s \in Bunches /\ P \in Parties /\ c \in Group /\ s.people[p] \in Person
      /\ s.parties \in [Parties -> Group] /\ s.people \in [Players -> Person]
  <2>1. s \in Bunches
    BY DEF Sane
  <2>2. P \in Parties
    BY <2>1, GroupIs
  <2>. QED
    BY <2>1, <2>2, GroupIs DEF Bunches
<1>1. Living(s, P) /\ p \in Crew(c) /\ Orderly(c) /\ c.leader \in Players
  <2>1. Living(s, P) /\ p \in Crew(c)
    BY <1>0 DEF Firm, Loyal
  <2>. QED
    BY <1>0, <2>1, CrewIs DEF Firm
<1>2. /\ d \in Group /\ d.invites = c.invites \ {p} /\ Crew(d) \cup {p} = Crew(c)
  BY <1>0, <1>1, RemainderIs
<1>3. t = DisbandIfEmpty(u, P, Rest(c, p).leader = p)
  <2>1. u = [s EXCEPT !.parties[P] = [Rest(c, p) EXCEPT !.members = RemoveFirst(@, p),
                                                        !.invites = @ \ {p}],
                      !.people[p].party = NoParty]
    BY <1>0 DEF Bunches, Remainder
  <2>. QED
    BY <2>1 DEF LeaveParty, Rest
<1>4. /\ m \in Person /\ m.online = s.people[p].online /\ m.linked = s.people[p].linked
      /\ m.party = NoParty /\ m.invitations = s.people[p].invitations
  BY <1>0 DEF Person
<1>. HIDE DEF m, d
<1>5. /\ u.parties = [s.parties EXCEPT ![P] = d] /\ u.people = [s.people EXCEPT ![p] = m]
      /\ u.channel = s.channel /\ u.lost = s.lost /\ u \in Bunches
  <2>1. [s.parties EXCEPT ![P] = d] \in [Parties -> Group]
    BY <1>0, <1>2
  <2>2. [s.people EXCEPT ![p] = m] \in [Players -> Person]
    BY <1>0, <1>4
  <2>. QED
    BY <1>0, <2>1, <2>2 DEF Bunches
<1>. HIDE DEF u, t, P
<1>6. /\ u.parties[P] = d
      /\ \A Q \in Parties \ {P} : u.parties[Q] = s.parties[Q]
      /\ u.people[p] = m /\ \A q \in Players \ {p} : u.people[q] = s.people[q]
  BY <1>0, <1>5
<1>7. \A q \in Players :
        /\ u.people[q].online = s.people[q].online /\ u.people[q].linked = s.people[q].linked
        /\ u.people[q].party = IF q = p THEN NoParty ELSE s.people[q].party
        /\ u.people[q].invitations = s.people[q].invitations
  BY <1>4, <1>6
<1>8. Breaks(c, p) <=> Rest(c, p).leader = p \/ CanDisband(u.parties[P])
  BY <1>6 DEF Breaks, d
<1>9. CASE ~Breaks(c, p)
  <2>1. t = u
    BY <1>3, <1>8, <1>9 DEF DisbandIfEmpty
  <2>2. LeftGoesOn(s, u, p, P)
    BY <1>5, <1>6, <1>7 DEF LeftGoesOn, d
  <2>3. Left(s, u, p, P)
    BY <1>5, <1>6, <1>7, <1>9, <2>2 DEF Left
  <2>. QED
    BY <2>1, <2>3 DEF t, P
<1>10. CASE Breaks(c, p)
  <2>1. t = Disband(u, P)
    BY <1>3, <1>8, <1>10 DEF DisbandIfEmpty
  <2>2. Disbanded(u, t, P)
    BY <1>0, <1>5, <2>1, DisbandIs
  <2>3. \A q \in Players : s.people[q].party = P <=> q \in Crew(c)
    BY <1>0, <1>1 DEF Firm, Loyal
  <2>4. P # NoParty
    BY <1>0, PartyAssumption
  <2>5. ASSUME NEW q \in Players
        PROVE  /\ t.people[q].online = s.people[q].online
               /\ t.people[q].linked = s.people[q].linked
               /\ t.people[q].party = IF q \in Crew(c) THEN NoParty ELSE s.people[q].party
               /\ t.people[q].invitations = IF q \in c.invites \ {p}
                                            THEN s.people[q].invitations \ {P}
                                            ELSE s.people[q].invitations
               /\ q # p => (q \in t.channel[P] <=>
                              q \in s.channel[P] /\ ~(q \in Crew(c) /\ s.people[q].linked))
    <3>1. /\ t.people[q].online = u.people[q].online /\ t.people[q].linked = u.people[q].linked
          /\ t.people[q].party = IF q \in Crew(d) THEN NoParty ELSE u.people[q].party
          /\ t.people[q].invitations = IF q \in d.invites
                                       THEN u.people[q].invitations \ {P}
                                       ELSE u.people[q].invitations
          /\ q \in t.channel[P] <=>
               q \in u.channel[P] /\ ~(q \in Crew(d) /\ u.people[q].linked /\ u.people[q].party = P)
      BY <1>6, <2>2 DEF Disbanded
    <3>2. q \in Crew(c) <=> q \in Crew(d) \/ q = p
      BY <1>2
    <3>3. q \in d.invites <=> q \in c.invites \ {p}
      BY <1>2
    <3>4. /\ u.people[q].online = s.people[q].online /\ u.people[q].linked = s.people[q].linked
          /\ u.people[q].party = IF q = p THEN NoParty ELSE s.people[q].party
          /\ u.people[q].invitations = s.people[q].invitations
      BY <1>7
    <3>5. s.people[q].party = P <=> q \in Crew(c)
      BY <2>3
    <3>6. u.channel[P] = s.channel[P]
      BY <1>5
    <3>. HIDE DEF c
    <3>. QED
      BY <3>1, <3>2, <3>3, <3>4, <3>5, <3>6
  <2>6. t.parties[P] = Nothing /\ t \in Bunches /\ t.lost = s.lost
        /\ \A Q \in Parties \ {P} : t.parties[Q] = s.parties[Q] /\ t.channel[Q] = s.channel[Q]
    BY <1>5, <1>6, <2>2 DEF Disbanded
  <2>7. LeftBreaks(s, t, p, P)
    BY <2>5, <2>6 DEF LeftBreaks
  <2>8. Left(s, t, p, P)
    BY <1>10, <2>5, <2>6, <2>7 DEF Left
  <2>. QED
    BY <2>8 DEF t, P
<1>. QED
  BY <1>9, <1>10

LEMMA LeftKeeps ==
  ASSUME NEW s, Sane(s), Firm(s), NEW p \in Players, NEW t, NEW P,
         P = s.people[p].party, P # NoParty, Left(s, t, p, P)
  PROVE  Sane(t) /\ Firm(t) /\ Seemly(s, t, {p}) /\ t.people[p].party = NoParty
<1>. DEFINE c == s.parties[P]
            d == Remainder(c, p)
            end == Breaks(c, p)
<1>0. /\ s \in Bunches /\ t \in Bunches /\ P \in Parties /\ c \in Group
  <2>1. s \in Bunches /\ t \in Bunches
    BY DEF Sane, Left
  <2>. QED
    BY <2>1, GroupIs
<1>1. Living(s, P) /\ p \in Crew(c) /\ Orderly(c) /\ c.leader \in Players
      /\ \A q \in Players, Q \in Parties :
           s.people[q].party = Q <=> Living(s, Q) /\ q \in Crew(s.parties[Q])
  <2>1. Living(s, P) /\ p \in Crew(c)
    BY <1>0 DEF Firm, Loyal
  <2>. QED
    BY <1>0, <2>1, CrewIs DEF Firm, Loyal
<1>2. /\ d \in Group /\ Orderly(d) /\ d.leader \in Players
      /\ d.invites = c.invites \ {p} /\ Crew(d) \cup {p} = Crew(c)
      /\ ~end => Crew(d) = Crew(c) \ {p} /\ Len(d.members) = Len(c.members) - 1
      /\ end => Len(c.members) <= 1
  BY <1>0, <1>1, RemainderIs
<1>3. ASSUME ~end PROVE LeftGoesOn(s, t, p, P)
  BY <1>3 DEF Left
<1>4. ASSUME end PROVE LeftBreaks(s, t, p, P)
  BY <1>4 DEF Left
<1>5. \A Q \in Parties \ {P} : t.parties[Q] = s.parties[Q] /\ t.channel[Q] = s.channel[Q]
  BY DEF Left
<1>6. /\ ~end => t.parties[P] = d
      /\ end => t.parties[P] = Nothing
      /\ Living(t, P) <=> ~end
      /\ \A Q \in Parties \ {P} : Living(t, Q) <=> Living(s, Q)
  <2>1. ~end => t.parties[P] = d
    BY <1>3 DEF LeftGoesOn
  <2>2. end => t.parties[P] = Nothing
    BY <1>4 DEF LeftBreaks
  <2>3. d.leader # NoPlayer
    BY <1>2, PeopleAssumption
  <2>. QED
    BY <1>5, <2>1, <2>2, <2>3, NothingIs DEF Living
<1>. HIDE DEF d, end
<1>7. ASSUME NEW q \in Players
      PROVE  /\ t.people[q].online = s.people[q].online
             /\ t.people[q].linked = s.people[q].linked
             /\ t.people[q].party = IF q = p \/ (end /\ s.people[q].party = P) THEN NoParty
                                                                        ELSE s.people[q].party
             /\ t.people[q].invitations = IF end /\ q \in c.invites \ {p}
                                          THEN s.people[q].invitations \ {P}
                                          ELSE s.people[q].invitations
  <2>1. t.people[q].online = s.people[q].online /\ t.people[q].linked = s.people[q].linked
    BY DEF Left
  <2>2. s.people[q].party = P <=> q \in Crew(c)
    BY <1>0, <1>1
  <2>3. CASE end
    BY <1>1, <1>4, <2>1, <2>2, <2>3 DEF LeftBreaks
  <2>4. CASE ~end
    BY <1>3, <2>1, <2>4 DEF LeftGoesOn
  <2>. QED
    BY <2>3, <2>4
<1>8. ASSUME NEW Q \in Parties, NEW q \in t.parties[Q].invites
      PROVE  q \in s.parties[Q].invites /\ q \in Players /\ (Q = P => q # p /\ ~end)
  <2>0. q \in Players
    BY <1>0, GroupIs
  <2>1. CASE Q = P
    BY <1>2, <1>6, <2>0, <2>1, NothingIs
  <2>2. CASE Q # P
    BY <1>5, <2>0, <2>2
  <2>. QED
    BY <2>1, <2>2
<1>9. Sane(t)
  <2>1. ASSUME NEW Q \in Parties, ~Living(t, Q)
        PROVE  t.parties[Q] = Nothing
    BY <1>5, <1>6, <2>1 DEF Sane
  <2>2. ASSUME NEW q \in Players, NEW Q \in Parties, q \in t.parties[Q].invites
        PROVE  Q \in t.people[q].invitations
    <3>1. q \in s.parties[Q].invites /\ (Q = P => q # p /\ ~end)
      BY <1>8, <2>2
    <3>2. Q \in s.people[q].invitations
      BY <3>1 DEF Sane
    <3>. QED
      BY <1>7, <3>1, <3>2
  <2>3. ASSUME NEW q \in Players, ~t.people[q].online
        PROVE  t.people[q] = Away
    <3>1. s.people[q] = Away
      BY <1>7, <2>3 DEF Sane
    <3>2. /\ t.people[q].online = Away.online /\ t.people[q].linked = Away.linked
          /\ t.people[q].party = Away.party /\ t.people[q].invitations = Away.invitations
      BY <1>7, <3>1, NothingIs
    <3>3. t.people[q] \in Person /\ Away \in Person
      BY <1>0, GroupIs, NothingIs
    <3>. QED
      BY <3>2, <3>3 DEF Person
  <2>. QED
    BY <1>0, <2>1, <2>2, <2>3 DEF Sane
<1>10. Loyal(t)
  <2>. SUFFICES ASSUME NEW q \in Players, NEW Q \in Parties
                PROVE  t.people[q].party = Q <=> Living(t, Q) /\ q \in Crew(t.parties[Q])
    BY DEF Loyal
  <2>0. NoParty # Q
    BY PartyAssumption
  <2>1. CASE Q # P
    <3>1. t.people[q].party = Q <=> s.people[q].party = Q
      BY <1>7, <2>0, <2>1
    <3>. QED
      BY <1>1, <1>5, <1>6, <2>1, <3>1
  <2>2. CASE Q = P /\ end
    BY <1>6, <1>7, <2>0, <2>2
  <2>3. CASE Q = P /\ ~end
    <3>1. t.people[q].party = P <=> q # p /\ s.people[q].party = P
      BY <1>7, <2>0, <2>3
    <3>2. s.people[q].party = P <=> q \in Crew(c)
      BY <1>0, <1>1
    <3>3. Crew(t.parties[P]) = Crew(c) \ {p}
      BY <1>2, <1>6, <2>3
    <3>. QED
      BY <1>6, <2>3, <3>1, <3>2, <3>3
  <2>. QED
    BY <2>1, <2>2, <2>3
<1>11. Firm(t)
  <2>1. ASSUME NEW Q \in Parties, Living(t, Q)
        PROVE  /\ Orderly(t.parties[Q])
               /\ t.parties[Q].members # <<>> \/ t.parties[Q].invites # {}
    <3>1. CASE Q # P
      BY <1>5, <1>6, <2>1, <3>1 DEF Firm
    <3>2. CASE Q = P
      <4>1. ~end /\ t.parties[Q] = d
        BY <1>6, <2>1, <3>2
      <4>2. ~CanDisband(d)
        BY <4>1 DEF end, d, Breaks
      <4>. QED
        BY <1>2, <4>1, <4>2 DEF CanDisband
    <3>. QED
      BY <3>1, <3>2
  <2>. QED
    BY <1>10, <2>1 DEF Firm
<1>12. NoneForgotten(s, t)
  <2>. SUFFICES ASSUME NEW q \in Players, NEW Q \in Parties,
                       Q \in t.people[q].invitations, q \notin t.parties[Q].invites
                PROVE  \/ Q \in s.people[q].invitations /\ q \notin s.parties[Q].invites
                       \/ q \in s.parties[Q].invites /\ s.people[q].party = Q
    BY DEF NoneForgotten
  <2>1. Q \in s.people[q].invitations /\ ~(Q = P /\ end /\ q \in c.invites \ {p})
    BY <1>7
  <2>2. CASE Q # P
    BY <1>5, <2>1, <2>2
  <2>3. CASE Q = P /\ q \in s.parties[Q].invites
    <3>1. q = p
      BY <1>2, <1>6, <2>1, <2>3
    <3>. QED
      BY <2>3, <3>1
  <2>. QED
    BY <2>1, <2>2, <2>3
<1>13. LongLived(s, t)
  <2>. SUFFICES ASSUME NEW Q \in Parties, Living(s, Q), Len(s.parties[Q].members) > 1
                PROVE  Living(t, Q)
    BY DEF LongLived
  <2>1. c.members \in Seq(Players) /\ Len(c.members) \in Nat
    BY <1>0 DEF Group
  <2>2. ASSUME Q = P PROVE ~end
    BY <1>2, <2>1, <2>2
  <2>. QED
    BY <1>6, <2>2
<1>14. NoneStrays(s, t, {p})
  <2>. SUFFICES ASSUME NEW Q \in Parties, NEW q \in Players \ {p},
                       q \in t.channel[Q], t.people[q].party # Q, s.people[q].linked
                PROVE  q \in s.channel[Q] /\ s.people[q].party # Q
    BY DEF NoneStrays
  <2>1. CASE Q # P
    BY <1>5, <1>7, <2>1
  <2>2. CASE Q = P /\ ~end
    <3>1. t.channel[P] = s.channel[P]
      BY <1>3, <2>2 DEF LeftGoesOn
    <3>. QED
      BY <1>7, <2>2, <3>1
  <2>3. CASE Q = P /\ end
    <3>1. q \in s.channel[P] /\ ~(q \in Crew(c))
      BY <1>4, <2>3 DEF LeftBreaks
    <3>. QED
      BY <1>0, <1>1, <2>3, <3>1
  <2>. QED
    BY <2>1, <2>2, <2>3
<1>15. t.people[p].party = NoParty
  BY <1>7
<1>. QED
  BY <1>9, <1>11, <1>12, <1>13, <1>14, <1>15 DEF Seemly

-----------------------------------------------------------------------------
(* A player drops out: his invitations first, then his party. *)
LEMMA SeemlyBoth ==
  ASSUME NEW s, NEW u, NEW t, NEW p \in Players, NEW A \in SUBSET Parties, s \in Bunches,
         Trimmed(s, u, p, A), Seemly(s, u, {}), Seemly(u, t, {p})
  PROVE  Seemly(s, t, {p})
<1>1. ASSUME NEW P \in Parties
      PROVE  /\ u.parties[P].invites \subseteq s.parties[P].invites
             /\ u.parties[P].members = s.parties[P].members
  <2>1. u.parties[P] = IF P \in A THEN After(s, p, P) ELSE s.parties[P]
    BY DEF Trimmed
  <2>. QED
    BY <2>1, AfterIs
<1>2. ASSUME NEW q \in Players
      PROVE  /\ u.people[q].linked = s.people[q].linked
             /\ \A P \in Parties : u.people[q].party = P => s.people[q].party = P
  <2>1. /\ u.people[q].linked = s.people[q].linked
        /\ u.people[q].party = NoParty \/ u.people[q].party = s.people[q].party
    BY DEF Trimmed
  <2>. QED
    BY <2>1, PartyAssumption
<1>3. NoneForgotten(s, t)
  <2>. SUFFICES ASSUME NEW q \in Players, NEW P \in Parties,
                       P \in t.people[q].invitations, q \notin t.parties[P].invites
                PROVE  \/ P \in s.people[q].invitations /\ q \notin s.parties[P].invites
                       \/ q \in s.parties[P].invites /\ s.people[q].party = P
    BY DEF NoneForgotten
  <2>1. \/ P \in u.people[q].invitations /\ q \notin u.parties[P].invites
        \/ q \in u.parties[P].invites /\ u.people[q].party = P
    BY DEF Seemly, NoneForgotten
  <2>2. P \in u.people[q].invitations /\ q \notin u.parties[P].invites =>
          \/ P \in s.people[q].invitations /\ q \notin s.parties[P].invites
          \/ q \in s.parties[P].invites /\ s.people[q].party = P
    BY DEF Seemly, NoneForgotten
  <2>. QED
    BY <1>1, <1>2, <2>1, <2>2
<1>4. LongLived(s, t)
  BY <1>1 DEF Seemly, LongLived
<1>5. NoneStrays(s, t, {p})
  <2>. SUFFICES ASSUME NEW P \in Parties, NEW q \in Players \ {p},
                       q \in t.channel[P], t.people[q].party # P, s.people[q].linked
                PROVE  q \in s.channel[P] /\ s.people[q].party # P
    BY DEF NoneStrays
  <2>1. q \in u.channel[P] /\ u.people[q].party # P
    BY <1>2 DEF Seemly, NoneStrays
  <2>. QED
    BY <2>1 DEF Seemly, NoneStrays
<1>. QED
  BY <1>3, <1>4, <1>5 DEF Seemly

(* What is left of a player who has dropped out. *)
Out(t, p) ==
  /\ Sane(t)
  /\ t.lost \/ (Firm(t) /\ t.people[p].party = NoParty)
  /\ t.people[p].invitations = {}
  /\ \A P \in Parties : p \notin t.parties[P].invites

LEMMA DropOutIs ==
  ASSUME NEW s, Sane(s), Firm(s), NEW p \in Players
  PROVE  Out(DropOut(s, p), p) /\ Seemly(s, DropOut(s, p), {p})
<1>. DEFINE u == ClearInvitations(s, p)
            A == s.people[p].invitations
            t == DropOut(s, p)
<1>1. A \in SUBSET Parties /\ s \in Bunches
  BY GroupIs DEF Sane
<1>2. Trimmed(s, u, p, A)
  BY ClearTrims
<1>. HIDE DEF u, A
<1>3. Sane(u) /\ Firm(u) /\ Seemly(s, u, {})
  BY <1>1, <1>2, TrimmedKeeps
<1>4. u.people[p].invitations = {}
  BY <1>2 DEF Trimmed, A
<1>5. \A P \in Parties : p \notin u.parties[P].invites
  BY <1>3, <1>4 DEF Sane
<1>6. t = IF u.lost \/ u.people[p].party = NoParty THEN u ELSE LeaveParty(u, p)
  BY DEF DropOut, LeaveAny, u
<1>. HIDE DEF t
<1>7. CASE u.lost \/ u.people[p].party = NoParty
  <2>1. t = u
    BY <1>6, <1>7
  <2>2. Seemly(s, t, {p})
    BY <1>3, <2>1 DEF Seemly, NoneStrays
  <2>. QED
    BY <1>3, <1>4, <1>5, <1>7, <2>1, <2>2 DEF Out, t
<1>8. CASE ~u.lost /\ u.people[p].party # NoParty
  <2>. DEFINE P == u.people[p].party
  <2>1. t = LeaveParty(u, p)
    BY <1>6, <1>8
  <2>2. Left(u, t, p, P)
    BY <1>3, <1>8, <2>1, LeaveIs
  <2>3. Sane(t) /\ Firm(t) /\ Seemly(u, t, {p}) /\ t.people[p].party = NoParty
    BY <1>3, <1>8, <2>2, LeftKeeps
  <2>4. Seemly(s, t, {p})
    BY <1>1, <1>2, <1>3, <2>3, SeemlyBoth
  <2>5. t.people[p].invitations = {}
    <3>1. CASE Breaks(u.parties[P], p)
      BY <1>4, <2>2, <3>1 DEF Left, LeftBreaks
    <3>2. CASE ~Breaks(u.parties[P], p)
      BY <1>4, <2>2, <3>2 DEF Left, LeftGoesOn
    <3>. QED
      BY <3>1, <3>2
  <2>6. \A Q \in Parties : p \notin t.parties[Q].invites
    BY <2>3, <2>5 DEF Sane
  <2>. QED
    BY <2>3, <2>4, <2>5, <2>6 DEF Out, t
<1>. QED
  BY <1>7, <1>8

LEMMA GoneIs ==
  ASSUME NEW s, NEW u, NEW p \in Players, Out(u, p), Seemly(s, u, {p}),
         NEW t, t = [OutOfChannels(u, p) EXCEPT !.people[p] = Away]
  PROVE  Sane(t) /\ (t.lost \/ Firm(t)) /\ Seemly(s, t, {})
<1>1. u \in Bunches /\ u.lost \in BOOLEAN /\ u.people \in [Players -> Person]
      /\ u.channel \in [Parties -> SUBSET Players] /\ u.parties \in [Parties -> Group]
  BY DEF Out, Sane, Bunches
<1>2. u = [parties |-> u.parties, people |-> u.people, channel |-> u.channel, lost |-> u.lost]
  BY <1>1 DEF Bunches
<1>3. t = [parties |-> u.parties, people |-> [u.people EXCEPT ![p] = Away],
           channel |-> [P \in Parties |-> u.channel[P] \ {p}], lost |-> u.lost]
  BY <1>2 DEF OutOfChannels
<1>4. [u.people EXCEPT ![p] = Away] \in [Players -> Person]
      /\ [P \in Parties |-> u.channel[P] \ {p}] \in [Parties -> SUBSET Players]
  BY <1>1, NothingIs
<1>a. u.parties \in [Parties -> Group] /\ u.lost \in BOOLEAN
  BY <1>1
<1>b. [parties |-> u.parties, people |-> [u.people EXCEPT ![p] = Away],
       channel |-> [P \in Parties |-> u.channel[P] \ {p}], lost |-> u.lost] \in Bunches
  BY <1>4, <1>a, MakeBunch
<1>c. t.parties = u.parties /\ t.lost = u.lost
  BY <1>3
<1>5. t \in Bunches /\ t.parties = u.parties /\ t.lost = u.lost
  BY <1>3, <1>b, <1>c
<1>6. /\ t.people[p] = Away /\ \A q \in Players \ {p} : t.people[q] = u.people[q]
      /\ \A P \in Parties : t.channel[P] = u.channel[P] \ {p}
  BY <1>1, <1>3
<1>7. Sane(t)
  BY <1>5, <1>6 DEF Sane, Living, Out
<1>8. ASSUME ~t.lost
      PROVE  Firm(t)
  <2>1. Firm(u) /\ u.people[p].party = NoParty
    BY <1>5, <1>8 DEF Out
  <2>2. \A q \in Players : t.people[q].party = u.people[q].party
    BY <1>6, <2>1, NothingIs
  <2>. QED
    BY <1>5, <2>1, <2>2 DEF Firm, Loyal, Living
<1>9. NoneForgotten(s, t)
  BY <1>5, <1>6, NothingIs DEF Seemly, NoneForgotten
<1>10. LongLived(s, t)
  BY <1>5 DEF Seemly, LongLived, Living
<1>11. NoneStrays(s, t, {})
  BY <1>6 DEF Seemly, NoneStrays
<1>. QED
  BY <1>7, <1>8, <1>9, <1>10, <1>11 DEF Seemly

-----------------------------------------------------------------------------
(* The handlers.  What the properties say of a step: *)
KnownOn == \A p \in Players, P \in Parties :
  /\ p \in parties'[P].invites => P \in people'[p].invitations
  /\ P \in people'[p].invitations /\ p \notin parties'[P].invites =>
       \/ Forgotten(p, P)
       \/ p \in parties[P].invites /\ people[p].party = P

LivesOn == \A P \in Parties :
  Alive(P) /\ Len(parties[P].members) > 1 => parties'[P].leader # NoPlayer

StaysOn == \A P \in Parties, p \in Players :
  p \in partyChannel'[P] /\ people'[p].party # P =>
    p \in Strays(P) \/ Leave(p) \/ Ghost(p) \/ ~people[p].linked

Conducted == KnownOn /\ LivesOn /\ StaysOn

LEMMA BunchIn ==
  ASSUME Partial, ~partyLost
  PROVE  /\ Sane(Bunch) /\ Firm(Bunch) /\ Bunch \in Bunches
         /\ Bunch.parties = parties /\ Bunch.people = people
         /\ Bunch.channel = partyChannel /\ Bunch.lost = FALSE
         /\ parties \in [Parties -> Group] /\ people \in [Players -> Person]
         /\ partyChannel \in [Parties -> SUBSET Players]
<1>1. /\ Bunch.parties = parties /\ Bunch.people = people
      /\ Bunch.channel = partyChannel /\ Bunch.lost = partyLost
  BY DEF Bunch
<1>2. Sane(Bunch) /\ Firm(Bunch) /\ partyLost \in BOOLEAN
  <2>1. Sane(Bunch) /\ Firm(Bunch)
    BY DEF Partial
  <2>. QED
    BY <1>1, <2>1, GroupIs DEF Sane
<1>3. Bunch \in Bunches
  BY <1>2 DEF Sane
<1>. QED
  BY <1>1, <1>2, <1>3 DEF Bunches

LEMMA BunchOut ==
  ASSUME Partial, ~partyLost, NEW t, Becomes(t), Sane(t), t.lost \/ Firm(t),
         NEW X, Seemly(Bunch, t, X), \A p \in X : Leave(p) \/ Ghost(p)
  PROVE  Partial' /\ Conducted
<1>1. /\ parties' = t.parties /\ people' = t.people
      /\ partyChannel' = t.channel /\ partyLost' = t.lost
  BY DEF Becomes
<1>2. Bunch' = t
  <2>1. t = [parties |-> t.parties, people |-> t.people, channel |-> t.channel, lost |-> t.lost]
    BY DEF Sane, Bunches
  <2>. QED
    BY <1>1, <2>1 DEF Bunch
<1>3. Partial'
  BY <1>1, <1>2 DEF Partial
<1>4. /\ Bunch.parties = parties /\ Bunch.people = people /\ Bunch.channel = partyChannel
  BY DEF Bunch
<1>5. KnownOn
  BY <1>1, <1>4 DEF KnownOn, Forgotten, Sane, Seemly, NoneForgotten
<1>6. LivesOn
  BY <1>1, <1>4 DEF LivesOn, Alive, Seemly, LongLived, Living
<1>7. StaysOn
  <2>. SUFFICES ASSUME NEW P \in Parties, NEW p \in Players,
                       p \in t.channel[P], t.people[p].party # P, people[p].linked, p \notin X
                PROVE  p \in Strays(P)
    BY <1>1 DEF StaysOn
  <2>1. p \in partyChannel[P] /\ people[p].party # P
    BY <1>4 DEF Seemly, NoneStrays
  <2>. QED
    BY <2>1 DEF Strays
<1>. QED
  BY <1>3, <1>5, <1>6, <1>7 DEF Conducted

(* A player gets or loses his client, or logs in.                          *)
LEMMA PersonStep ==
  ASSUME Partial, ~partyLost, NEW p \in Players, NEW m \in Person, m.online,
         m.party = people[p].party, m.invitations = people[p].invitations,
         Becomes([Bunch EXCEPT !.people[p] = m])
  PROVE  Partial' /\ Conducted
<1>. DEFINE s == Bunch
            G == [people EXCEPT ![p] = m]
            t == [parties |-> parties, people |-> G, channel |-> partyChannel, lost |-> partyLost]
<1>1. /\ Sane(s) /\ Firm(s) /\ s \in Bunches /\ s.parties = parties /\ s.people = people
      /\ s.channel = partyChannel /\ s.lost = FALSE
      /\ parties \in [Parties -> Group] /\ people \in [Players -> Person]
      /\ partyChannel \in [Parties -> SUBSET Players]
  BY BunchIn
<1>2. [Bunch EXCEPT !.people[p] = m] = t
  BY DEF Bunch
<1>. HIDE DEF s
<1>3. G \in [Players -> Person] /\ G[p] = m /\ \A q \in Players \ {p} : G[q] = people[q]
  BY <1>1
<1>. HIDE DEF G
<1>a. /\ t.parties = parties /\ t.people = G /\ t.channel = partyChannel /\ t.lost = partyLost
  OBVIOUS
<1>5. Becomes(t)
  BY <1>2
<1>b. partyLost = FALSE
  BY <1>1 DEF s, Bunch
<1>c. t \in Bunches
  BY <1>1, <1>3, <1>b, MakeBunch
<1>. HIDE DEF t
<1>4. t \in Bunches /\ t.parties = parties /\ t.people = G /\ t.channel = partyChannel
      /\ t.lost = FALSE
  BY <1>a, <1>b, <1>c
<1>6. \A q \in Players : t.people[q].party = s.people[q].party
                         /\ t.people[q].invitations = s.people[q].invitations
  BY <1>1, <1>3, <1>4
<1>7. Sane(t)
  BY <1>1, <1>3, <1>4 DEF Sane, Living
<1>8. Firm(t)
  BY <1>1, <1>4, <1>6 DEF Firm, Loyal, Living
<1>9. Seemly(s, t, {})
  BY <1>1, <1>4, <1>6 DEF Seemly, NoneForgotten, LongLived, NoneStrays, Living
<1>. QED
  BY <1>5, <1>7, <1>8, <1>9, BunchOut DEF s

(* The channels change: nobody comes into one but that of his own party.   *)
LEMMA ChannelStep ==
  ASSUME Partial, ~partyLost, NEW H \in [Parties -> SUBSET Players],
         \A P \in Parties : \A q \in H[P] : q \in partyChannel[P] \/ people[q].party = P,
         Becomes([Bunch EXCEPT !.channel = H])
  PROVE  Partial' /\ Conducted
<1>. DEFINE s == Bunch
            t == [parties |-> parties, people |-> people, channel |-> H, lost |-> partyLost]
<1>1. /\ Sane(s) /\ Firm(s) /\ s \in Bunches /\ s.parties = parties /\ s.people = people
      /\ s.channel = partyChannel /\ s.lost = FALSE
      /\ parties \in [Parties -> Group] /\ people \in [Players -> Person]
  BY BunchIn
<1>2. [Bunch EXCEPT !.channel = H] = t
  BY DEF Bunch
<1>. HIDE DEF s
<1>a. /\ t.parties = parties /\ t.people = people /\ t.channel = H /\ t.lost = partyLost
  OBVIOUS
<1>4. Becomes(t)
  BY <1>2
<1>b. partyLost = FALSE
  BY <1>1 DEF s, Bunch
<1>c. t \in Bunches
  BY <1>1, <1>b, MakeBunch
<1>. HIDE DEF t
<1>3. t \in Bunches /\ t.parties = parties /\ t.people = people /\ t.channel = H
      /\ t.lost = FALSE
  BY <1>a, <1>b, <1>c
<1>5. Sane(t)
  BY <1>1, <1>3 DEF Sane, Living
<1>6. Firm(t)
  BY <1>1, <1>3 DEF Firm, Loyal, Living
<1>7. Seemly(s, t, {})
  BY <1>1, <1>3 DEF Seemly, NoneForgotten, LongLived, NoneStrays, Living
<1>. QED
  BY <1>4, <1>5, <1>6, <1>7, BunchOut DEF s

(* The list of a party and one of its members or guests change. *)
Altered(s, t, P, d, p, m) ==
  /\ t \in Bunches /\ t.lost = FALSE /\ t.channel = s.channel
  /\ t.parties[P] = d /\ \A Q \in Parties \ {P} : t.parties[Q] = s.parties[Q]
  /\ t.people[p] = m /\ \A q \in Players \ {p} : t.people[q] = s.people[q]

LEMMA AlterIs ==
  ASSUME NEW s \in Bunches, s.lost = FALSE, NEW P \in Parties, NEW d \in Group,
         NEW p \in Players, NEW m \in Person
  PROVE  Altered(s, [s EXCEPT !.parties = [s.parties EXCEPT ![P] = d],
                              !.people = [s.people EXCEPT ![p] = m]], P, d, p, m)
<1>. DEFINE F == [s.parties EXCEPT ![P] = d]
            G == [s.people EXCEPT ![p] = m]
            t == [s EXCEPT !.parties = F, !.people = G]
<1>1. s.parties \in [Parties -> Group] /\ s.people \in [Players -> Person]
  BY DEF Bunches
<1>2. F \in [Parties -> Group] /\ F[P] = d /\ \A Q \in Parties \ {P} : F[Q] = s.parties[Q]
  BY <1>1
<1>3. G \in [Players -> Person] /\ G[p] = m /\ \A q \in Players \ {p} : G[q] = s.people[q]
  BY <1>1
<1>. HIDE DEF F, G
<1>4. t \in Bunches /\ t.parties = F /\ t.people = G /\ t.channel = s.channel /\ t.lost = FALSE
  BY <1>2, <1>3 DEF Bunches
<1>. HIDE DEF t
<1>5. Altered(s, t, P, d, p, m)
  BY <1>2, <1>3, <1>4 DEF Altered
<1>. QED
  BY <1>5 DEF t, F, G

(* One more is invited. *)
LEMMA InviteMore ==
  ASSUME Partial, ~partyLost, NEW p \in Players, NEW q \in Players, NEW P,
         P = people[p].party, P # NoParty, parties[P].leader = p, people[q].online,
         Becomes(Invited(Bunch, p, q, P))
  PROVE  Partial' /\ Conducted
<1>. DEFINE s == Bunch
            c == parties[P]
            d == [c EXCEPT !.invites = @ \cup {q}]
            m == [people[q] EXCEPT !.invitations = @ \cup {P}]
            t == Invited(Bunch, p, q, P)
<1>1. /\ Sane(s) /\ Firm(s) /\ s \in Bunches /\ s.parties = parties /\ s.people = people
      /\ s.channel = partyChannel /\ s.lost = FALSE
      /\ parties \in [Parties -> Group] /\ people \in [Players -> Person]
  BY BunchIn
<1>2. P \in Parties
  BY <1>1 DEF Person
<1>3. d \in Group /\ d.leader = c.leader /\ d.members = c.members /\ d.invites = c.invites \cup {q}
  BY <1>1, <1>2 DEF Group
<1>4. m \in Person /\ m.online = people[q].online /\ m.linked = people[q].linked
      /\ m.party = people[q].party /\ m.invitations = people[q].invitations \cup {P}
  BY <1>1, <1>2 DEF Person
<1>5. t = [s EXCEPT !.parties = [s.parties EXCEPT ![P] = d],
                    !.people = [s.people EXCEPT ![q] = m]]
  BY DEF Invited, Bunch
<1>. HIDE DEF d, m, t, s
<1>7. Altered(s, t, P, d, q, m)
  BY <1>1, <1>2, <1>3, <1>4, <1>5, AlterIs
<1>8. ASSUME NEW Q \in Parties
      PROVE  /\ t.parties[Q].leader = s.parties[Q].leader
             /\ t.parties[Q].members = s.parties[Q].members
             /\ t.parties[Q].invites = IF Q = P THEN s.parties[Q].invites \cup {q}
                                                ELSE s.parties[Q].invites
  BY <1>1, <1>3, <1>7 DEF Altered
<1>9. ASSUME NEW x \in Players
      PROVE  /\ t.people[x].online = s.people[x].online /\ t.people[x].linked = s.people[x].linked
             /\ t.people[x].party = s.people[x].party
             /\ t.people[x].invitations = IF x = q THEN s.people[x].invitations \cup {P}
                                                   ELSE s.people[x].invitations
  BY <1>1, <1>4, <1>7 DEF Altered
<1>10. Living(s, P)
  BY <1>1, PeopleAssumption DEF Living
<1>11. Sane(t)
  <2>1. ASSUME NEW Q \in Parties, ~Living(t, Q)
        PROVE  t.parties[Q] = Nothing
    <3>1. ~Living(s, Q) /\ Q # P
      BY <1>8, <1>10, <2>1 DEF Living
    <3>2. s.parties[Q] = Nothing
      BY <1>1, <3>1 DEF Sane
    <3>. QED
      BY <1>7, <3>1, <3>2 DEF Altered
  <2>2. ASSUME NEW x \in Players, NEW Q \in Parties, x \in t.parties[Q].invites
        PROVE  Q \in t.people[x].invitations
    <3>a. t.parties[Q].invites = IF Q = P THEN s.parties[Q].invites \cup {q}
                                          ELSE s.parties[Q].invites
      BY <1>8
    <3>1. x \in s.parties[Q].invites \/ (x = q /\ Q = P)
      BY <2>2, <3>a
    <3>2. x \in s.parties[Q].invites => Q \in s.people[x].invitations
      BY <1>1 DEF Sane
    <3>3. t.people[x].invitations = IF x = q THEN s.people[x].invitations \cup {P}
                                            ELSE s.people[x].invitations
      BY <1>9
    <3>. QED
      BY <3>1, <3>2, <3>3
  <2>3. ASSUME NEW x \in Players, ~t.people[x].online
        PROVE  t.people[x] = Away
    <3>1. ~s.people[x].online /\ x # q
      BY <1>1, <1>4, <1>7, <2>3 DEF Altered
    <3>2. t.people[x] = s.people[x]
      BY <1>7, <3>1 DEF Altered
    <3>. QED
      BY <1>1, <3>1, <3>2 DEF Sane
  <2>. QED
    BY <1>7, <2>1, <2>2, <2>3 DEF Sane, Altered
<1>12. Firm(t)
  <2>1. Loyal(t)
    <3>1. \A Q \in Parties : Crew(t.parties[Q]) = Crew(s.parties[Q]) /\ (Living(t, Q) <=> Living(s, Q))
      BY <1>8 DEF Crew, Living
    <3>2. \A x \in Players : t.people[x].party = s.people[x].party
      BY <1>9
    <3>. QED
      BY <1>1, <3>1, <3>2 DEF Firm, Loyal
  <2>2. ASSUME NEW Q \in Parties, Living(t, Q)
        PROVE  /\ Orderly(t.parties[Q])
               /\ t.parties[Q].members # <<>> \/ t.parties[Q].invites # {}
    <3>1. /\ t.parties[Q].leader = s.parties[Q].leader
          /\ t.parties[Q].members = s.parties[Q].members
          /\ s.parties[Q].invites \subseteq t.parties[Q].invites
      BY <1>8
    <3>2. Living(s, Q)
      BY <2>2, <3>1 DEF Living
    <3>3. Orderly(s.parties[Q])
          /\ (s.parties[Q].members # <<>> \/ s.parties[Q].invites # {})
      BY <1>1, <3>2 DEF Firm
    <3>4. Orderly(t.parties[Q])
      BY <3>1, <3>3 DEF Orderly
    <3>. QED
      BY <3>1, <3>3, <3>4
  <2>. QED
    BY <2>1, <2>2 DEF Firm
<1>13. Seemly(s, t, {})
  <2>1. NoneForgotten(s, t)
    <3>. SUFFICES ASSUME NEW x \in Players, NEW Q \in Parties,
                         Q \in t.people[x].invitations, x \notin t.parties[Q].invites
                  PROVE  Q \in s.people[x].invitations /\ x \notin s.parties[Q].invites
      BY DEF NoneForgotten
    <3>1. t.parties[Q].invites = IF Q = P THEN s.parties[Q].invites \cup {q}
                                          ELSE s.parties[Q].invites
      BY <1>8
    <3>2. x \notin s.parties[Q].invites /\ ~(x = q /\ Q = P)
      BY <3>1
    <3>3. t.people[x].invitations = IF x = q THEN s.people[x].invitations \cup {P}
                                            ELSE s.people[x].invitations
      BY <1>9
    <3>. QED
      BY <3>2, <3>3
  <2>2. LongLived(s, t)
    BY <1>8 DEF LongLived, Living
  <2>3. NoneStrays(s, t, {})
    BY <1>7, <1>9 DEF NoneStrays, Altered
  <2>. QED
    BY <2>1, <2>2, <2>3 DEF Seemly
<1>14. Becomes(t) /\ ~t.lost
  BY <1>7 DEF t, Altered
<1>. QED
  BY <1>11, <1>12, <1>13, <1>14, BunchOut DEF s

(* A party is founded with its first invitation. *)
LEMMA InviteFirst ==
  ASSUME Partial, ~partyLost, NEW p \in Players, NEW q \in Players, NEW P \in Parties,
         people[p].party = NoParty, ~Alive(P), people[p].online, people[q].online,
         Becomes(Invited([Bunch EXCEPT !.parties[P].leader = p, !.people[p].party = P], p, q, P))
  PROVE  Partial' /\ Conducted
<1>. DEFINE s == Bunch
            c == [s.parties[P] EXCEPT !.leader = p]
            m == [s.people[p] EXCEPT !.party = P]
            u == [s EXCEPT !.parties = [s.parties EXCEPT ![P] = c],
                           !.people = [s.people EXCEPT ![p] = m]]
            d == [u.parties[P] EXCEPT !.invites = @ \cup {q}]
            n == [u.people[q] EXCEPT !.invitations = @ \cup {P}]
            v == [u EXCEPT !.parties = [u.parties EXCEPT ![P] = d],
                           !.people = [u.people EXCEPT ![q] = n]]
            t == Invited([Bunch EXCEPT !.parties[P].leader = p, !.people[p].party = P], p, q, P)
<1>1. /\ Sane(s) /\ Firm(s) /\ s \in Bunches /\ s.parties = parties /\ s.people = people
      /\ s.lost = FALSE
  BY BunchIn
<1>2. t = v
  <2>1. u = [Bunch EXCEPT !.parties[P].leader = p, !.people[p].party = P]
    BY DEF Bunch
  <2>2. Invited(u, p, q, P) = v
    BY DEF Invited
  <2>. QED
    BY <2>1, <2>2
<1>3. s.parties[P] = Nothing
  BY <1>1 DEF Sane, Living, Alive
<1>. HIDE DEF s, t
<1>4. c \in Group /\ c.leader = p /\ c.members = <<>> /\ c.invites = {}
  BY <1>3, NothingIs DEF Group
<1>5. m \in Person /\ m.online = s.people[p].online /\ m.linked = s.people[p].linked
      /\ m.party = P /\ m.invitations = s.people[p].invitations
  BY <1>1, GroupIs DEF Person
<1>. HIDE DEF c, m
<1>6. Altered(s, u, P, c, p, m)
  BY <1>1, <1>4, <1>5, AlterIs
<1>. HIDE DEF u
<1>7. u \in Bunches /\ u.lost = FALSE /\ u.parties[P] = c /\ u.people[q] \in Person
  BY <1>6, GroupIs DEF Altered
<1>8. d \in Group /\ d.leader = p /\ d.members = <<>> /\ d.invites = {q}
  BY <1>4, <1>7 DEF Group
<1>9. n \in Person /\ n.online = u.people[q].online /\ n.linked = u.people[q].linked
      /\ n.party = u.people[q].party /\ n.invitations = u.people[q].invitations \cup {P}
  BY <1>7 DEF Person
<1>. HIDE DEF d, n
<1>10. Altered(u, v, P, d, q, n)
  BY <1>7, <1>8, <1>9, AlterIs
<1>. HIDE DEF v
<1>11. /\ t \in Bunches /\ t.lost = FALSE /\ t.channel = s.channel
       /\ t.parties[P] = d /\ \A Q \in Parties \ {P} : t.parties[Q] = s.parties[Q]
       /\ \A x \in Players \ {p, q} : t.people[x] = s.people[x]
  BY <1>2, <1>6, <1>10 DEF Altered
<1>12. ASSUME NEW x \in Players
       PROVE  /\ t.people[x].online = s.people[x].online /\ t.people[x].linked = s.people[x].linked
              /\ t.people[x].party = IF x = p THEN P ELSE s.people[x].party
              /\ t.people[x].invitations = IF x = q THEN s.people[x].invitations \cup {P}
                                                    ELSE s.people[x].invitations
  <2>1. /\ u.people[x].online = s.people[x].online /\ u.people[x].linked = s.people[x].linked
        /\ u.people[x].party = IF x = p THEN P ELSE s.people[x].party
        /\ u.people[x].invitations = s.people[x].invitations
    BY <1>5, <1>6 DEF Altered
  <2>2. CASE x = q
    BY <1>2, <1>9, <1>10, <2>1, <2>2 DEF Altered
  <2>3. CASE x # q
    BY <1>2, <1>10, <2>1, <2>3 DEF Altered
  <2>. QED
    BY <2>2, <2>3
<1>13. /\ ~Living(s, P) /\ Living(t, P) /\ Crew(d) = {p}
       /\ s.people[p].party = NoParty /\ s.people[p].online /\ s.people[q].online
  BY <1>1, <1>3, <1>8, <1>11, NothingIs, PeopleAssumption DEF Living, Crew, ToSet
<1>14. Sane(t)
  <2>1. ASSUME NEW Q \in Parties, ~Living(t, Q)
        PROVE  t.parties[Q] = Nothing
    BY <1>1, <1>11, <1>13, <2>1 DEF Sane, Living
  <2>2. ASSUME NEW x \in Players, NEW Q \in Parties, x \in t.parties[Q].invites
        PROVE  Q \in t.people[x].invitations
    <3>1. CASE Q = P
      BY <1>8, <1>11, <1>12, <2>2, <3>1
    <3>2. CASE Q # P
      <4>1. x \in s.parties[Q].invites
        BY <1>11, <2>2, <3>2
      <4>2. Q \in s.people[x].invitations
        BY <1>1, <4>1 DEF Sane
      <4>. QED
        BY <1>12, <4>2
    <3>. QED
      BY <3>1, <3>2
  <2>3. ASSUME NEW x \in Players, ~t.people[x].online
        PROVE  t.people[x] = Away
    <3>1. ~s.people[x].online
      BY <1>12, <2>3
    <3>2. t.people[x] = s.people[x]
      BY <1>11, <1>13, <3>1
    <3>. QED
      BY <1>1, <3>1, <3>2 DEF Sane
  <2>. QED
    BY <1>11, <2>1, <2>2, <2>3 DEF Sane
<1>15. Firm(t)
  <2>1. ASSUME NEW x \in Players, NEW Q \in Parties
        PROVE  t.people[x].party = Q <=> Living(t, Q) /\ x \in Crew(t.parties[Q])
    <3>1. s.people[x].party = Q <=> Living(s, Q) /\ x \in Crew(s.parties[Q])
      BY <1>1 DEF Firm, Loyal
    <3>2. NoParty # Q
      BY PartyAssumption
    <3>3. CASE Q = P
      BY <1>11, <1>12, <1>13, <3>1, <3>3
    <3>4. CASE Q # P
      <4>1. t.parties[Q] = s.parties[Q]
        BY <1>11, <3>4
      <4>. QED
        BY <1>12, <1>13, <3>1, <3>2, <3>4, <4>1 DEF Living
    <3>. QED
      BY <3>3, <3>4
  <2>2. ASSUME NEW Q \in Parties, Living(t, Q)
        PROVE  /\ Orderly(t.parties[Q])
               /\ t.parties[Q].members # <<>> \/ t.parties[Q].invites # {}
    <3>1. CASE Q = P
      <4>1. t.parties[Q].members = <<>> /\ t.parties[Q].invites = {q}
        BY <1>8, <1>11, <3>1
      <4>2. Once(<<>>) /\ ToSet(<<>>) = {}
        BY DEF Once, ToSet
      <4>. QED
        BY <4>1, <4>2 DEF Orderly
    <3>2. CASE Q # P
      BY <1>1, <1>11, <2>2, <3>2 DEF Firm, Living
    <3>. QED
      BY <3>1, <3>2
  <2>. QED
    BY <2>1, <2>2 DEF Firm, Loyal
<1>16. Seemly(s, t, {})
  <2>1. NoneForgotten(s, t)
    <3>. SUFFICES ASSUME NEW x \in Players, NEW Q \in Parties,
                         Q \in t.people[x].invitations, x \notin t.parties[Q].invites
                  PROVE  Q \in s.people[x].invitations /\ x \notin s.parties[Q].invites
      BY DEF NoneForgotten
    <3>1. CASE Q = P
      BY <1>3, <1>8, <1>11, <1>12, <3>1, NothingIs
    <3>2. CASE Q # P
      <4>1. t.parties[Q] = s.parties[Q]
        BY <1>11, <3>2
      <4>2. Q \in s.people[x].invitations
        BY <1>12, <3>2
      <4>. QED
        BY <4>1, <4>2
    <3>. QED
      BY <3>1, <3>2
  <2>2. LongLived(s, t)
    BY <1>11, <1>13 DEF LongLived, Living
  <2>3. NoneStrays(s, t, {})
    <3>. SUFFICES ASSUME NEW Q \in Parties, NEW x \in Players,
                         x \in t.channel[Q], t.people[x].party # Q
                  PROVE  x \in s.channel[Q] /\ s.people[x].party # Q
      BY DEF NoneStrays
    <3>1. NoParty # Q
      BY PartyAssumption
    <3>. QED
      BY <1>11, <1>12, <1>13, <3>1
  <2>. QED
    BY <2>1, <2>2, <2>3 DEF Seemly
<1>17. Becomes(t)
  BY DEF t
<1>. QED
  BY <1>14, <1>15, <1>16, <1>17, BunchOut DEF s

LEMMA AppendIs ==
  ASSUME NEW w \in Seq(Players), Once(w), NEW p \in Players, p \notin ToSet(w)
  PROVE  /\ Append(w, p) \in Seq(Players) /\ Append(w, p) # <<>> /\ Once(Append(w, p))
         /\ Len(Append(w, p)) = Len(w) + 1 /\ ToSet(Append(w, p)) = ToSet(w) \cup {p}
<1>. DEFINE v == Append(w, p)
<1>1. /\ v \in Seq(Players) /\ v # <<>> /\ Len(v) = Len(w) + 1 /\ Len(w) \in Nat
      /\ \A i \in 1 .. Len(v) : v[i] = IF i = Len(v) THEN p ELSE w[i]
  OBVIOUS
<1>. HIDE DEF v
<1>2. \A x : x \in ToSet(w) <=> \E i \in 1 .. Len(w) : w[i] = x
  BY SetIs
<1>3. \A x : x \in ToSet(v) <=> \E i \in 1 .. Len(v) : v[i] = x
  BY <1>1, SetIs
<1>4. ToSet(v) = ToSet(w) \cup {p}
  <2>1. ASSUME NEW x \in ToSet(v) PROVE x \in ToSet(w) \cup {p}
    <3>1. PICK i \in 1 .. Len(v) : v[i] = x
      BY <1>3
    <3>2. CASE i = Len(v)
      BY <1>1, <3>1, <3>2
    <3>3. CASE i # Len(v)
      <4>1. i \in 1 .. Len(w) /\ w[i] = x
        BY <1>1, <3>1, <3>3
      <4>. QED
        BY <1>2, <4>1
    <3>. QED
      BY <3>2, <3>3
  <2>2. ASSUME NEW x \in ToSet(w) PROVE x \in ToSet(v)
    <3>1. PICK i \in 1 .. Len(w) : w[i] = x
      BY <1>2
    <3>2. i \in 1 .. Len(v) /\ v[i] = x
      BY <1>1, <3>1
    <3>. QED
      BY <1>3, <3>2
  <2>3. p \in ToSet(v)
    <3>1. Len(v) \in 1 .. Len(v) /\ v[Len(v)] = p
      BY <1>1
    <3>. QED
      BY <1>3, <3>1
  <2>. QED
    BY <2>1, <2>2, <2>3
<1>5. Once(v)
  <2>. SUFFICES ASSUME NEW i \in 1 .. Len(v), NEW j \in 1 .. Len(v), v[i] = v[j]
                PROVE  i = j
    BY DEF Once
  <2>1. \A k \in 1 .. Len(w) : w[k] # p
    BY <1>2
  <2>2. \A k \in 1 .. Len(v) : k # Len(v) => k \in 1 .. Len(w) /\ v[k] = w[k]
    BY <1>1
  <2>3. v[Len(v)] = p /\ Len(v) \in 1 .. Len(v)
    BY <1>1
  <2>4. CASE i = Len(v) \/ j = Len(v)
    BY <2>1, <2>2, <2>3, <2>4
  <2>5. CASE i # Len(v) /\ j # Len(v)
    BY <2>2, <2>5 DEF Once
  <2>. QED
    BY <2>4, <2>5
<1>. QED
  BY <1>1, <1>4, <1>5 DEF v

LEMMA JoinKeeps ==
  ASSUME Partial, ~partyLost, NEW p \in Players, NEW l \in Players,
         people[p].online, Join(p, l)
  PROVE  Partial' /\ Conducted
<1>. DEFINE s == Bunch
            P == people[l].party
            c == s.parties[P]
            d == [c EXCEPT !.members = Append(@, p), !.invites = @ \ {p}]
            m == [s.people[p] EXCEPT !.party = P, !.invitations = @ \ {P}]
            t == [s EXCEPT !.parties = [s.parties EXCEPT ![P] = d],
                           !.people = [s.people EXCEPT ![p] = m]]
<1>1. /\ Sane(s) /\ Firm(s) /\ s \in Bunches /\ s.parties = parties /\ s.people = people
      /\ s.lost = FALSE
  BY BunchIn
<1>2. /\ P \in Parties /\ c.leader = l /\ p \in c.invites /\ s.people[p].party = NoParty
      /\ s.people[p].online
  <2>1. people[l].party \in Parties \cup {NoParty}
    BY <1>1, GroupIs
  <2>. QED
    BY <1>1, <2>1 DEF Join, Inviting
<1>3. Becomes(t)
  <2>1. t = [Bunch EXCEPT
               !.parties[P] = [parties[P] EXCEPT !.members = Append(@, p), !.invites = @ \ {p}],
               !.people[p] = [people[p] EXCEPT !.party = P, !.invitations = @ \ {P}]]
    <3>. HIDE DEF P
    <3>1. Bunch.parties = parties /\ Bunch.people = people
      BY DEF Bunch
    <3>. QED
      BY <3>1
  <2>. QED
    BY <2>1 DEF Join
<1>4. /\ c \in Group /\ c.members \in Seq(Players) /\ s.people[p] \in Person
      /\ Living(s, P) /\ Orderly(c) /\ Once(c.members)
  <2>1. c \in Group /\ c.members \in Seq(Players) /\ s.people[p] \in Person
    BY <1>1, <1>2, GroupIs
  <2>2. Living(s, P)
    BY <1>2, PeopleAssumption DEF Living
  <2>. QED
    BY <1>1, <1>2, <2>1, <2>2 DEF Firm, Orderly
<1>5. p \notin Crew(c)
  <2>1. P # NoParty
    BY <1>2, PartyAssumption
  <2>. QED
    BY <1>1, <1>2, <1>4, <2>1 DEF Firm, Loyal
<1>. HIDE DEF s, t, P
<1>6. d \in Group /\ d.leader = c.leader /\ d.members = Append(c.members, p)
      /\ d.invites = c.invites \ {p}
  <2>1. Append(c.members, p) \in Seq(Players)
    BY <1>4
  <2>. QED
    BY <1>4, <2>1 DEF Group
<1>7. m \in Person /\ m.online = s.people[p].online /\ m.linked = s.people[p].linked
      /\ m.party = P /\ m.invitations = s.people[p].invitations \ {P}
  BY <1>2, <1>4 DEF Person
<1>. HIDE DEF d, m
<1>8. Altered(s, t, P, d, p, m)
  BY <1>1, <1>2, <1>6, <1>7, AlterIs DEF t
<1>9. p \notin ToSet(c.members) /\ p # c.leader
  BY <1>5 DEF Crew
<1>10. /\ Orderly(d) /\ Crew(d) = Crew(c) \cup {p} /\ d.members # <<>>
       /\ Len(d.members) = Len(c.members) + 1
  BY <1>4, <1>6, <1>9, AppendIs DEF Orderly, Crew
<1>11. /\ t \in Bunches /\ t.lost = FALSE /\ t.channel = s.channel /\ Living(t, P)
       /\ t.parties[P] = d /\ \A Q \in Parties \ {P} : t.parties[Q] = s.parties[Q]
       /\ \A x \in Players \ {p} : t.people[x] = s.people[x]
  BY <1>4, <1>6, <1>8 DEF Altered, Living
<1>12. ASSUME NEW x \in Players
       PROVE  /\ t.people[x].online = s.people[x].online /\ t.people[x].linked = s.people[x].linked
              /\ t.people[x].party = IF x = p THEN P ELSE s.people[x].party
              /\ t.people[x].invitations = IF x = p THEN s.people[x].invitations \ {P}
                                                    ELSE s.people[x].invitations
  BY <1>7, <1>8 DEF Altered
<1>13. Sane(t)
  <2>1. ASSUME NEW Q \in Parties, ~Living(t, Q)
        PROVE  t.parties[Q] = Nothing
    BY <1>1, <1>11, <2>1 DEF Sane, Living
  <2>2. ASSUME NEW x \in Players, NEW Q \in Parties, x \in t.parties[Q].invites
        PROVE  Q \in t.people[x].invitations
    <3>1. x \in s.parties[Q].invites /\ ~(x = p /\ Q = P)
      BY <1>6, <1>11, <2>2
    <3>2. Q \in s.people[x].invitations
      BY <1>1, <3>1 DEF Sane
    <3>. QED
      BY <1>12, <3>1, <3>2
  <2>3. ASSUME NEW x \in Players, ~t.people[x].online
        PROVE  t.people[x] = Away
    <3>1. ~s.people[x].online /\ x # p
      BY <1>2, <1>12, <2>3
    <3>. QED
      BY <1>1, <1>11, <3>1 DEF Sane
  <2>. QED
    BY <1>11, <2>1, <2>2, <2>3 DEF Sane
<1>14. Firm(t)
  <2>1. ASSUME NEW x \in Players, NEW Q \in Parties
        PROVE  t.people[x].party = Q <=> Living(t, Q) /\ x \in Crew(t.parties[Q])
    <3>1. s.people[x].party = Q <=> Living(s, Q) /\ x \in Crew(s.parties[Q])
      BY <1>1 DEF Firm, Loyal
    <3>2. NoParty # Q
      BY PartyAssumption
    <3>3. CASE Q = P
      BY <1>4, <1>10, <1>11, <1>12, <3>1, <3>3
    <3>4. CASE Q # P
      <4>1. t.parties[Q] = s.parties[Q]
        BY <1>11, <3>4
      <4>. QED
        BY <1>2, <1>12, <3>1, <3>2, <3>4, <4>1 DEF Living
    <3>. QED
      BY <3>3, <3>4
  <2>2. ASSUME NEW Q \in Parties, Living(t, Q)
        PROVE  /\ Orderly(t.parties[Q])
               /\ t.parties[Q].members # <<>> \/ t.parties[Q].invites # {}
    BY <1>1, <1>10, <1>11, <2>2 DEF Firm, Living
  <2>. QED
    BY <2>1, <2>2 DEF Firm, Loyal
<1>15. Seemly(s, t, {})
  <2>1. NoneForgotten(s, t)
    <3>. SUFFICES ASSUME NEW x \in Players, NEW Q \in Parties,
                         Q \in t.people[x].invitations, x \notin t.parties[Q].invites
                  PROVE  Q \in s.people[x].invitations /\ x \notin s.parties[Q].invites
      BY DEF NoneForgotten
    <3>1. Q \in s.people[x].invitations /\ ~(x = p /\ Q = P)
      BY <1>12
    <3>. QED
      BY <1>6, <1>11, <3>1
  <2>2. LongLived(s, t)
    BY <1>11 DEF LongLived, Living
  <2>3. NoneStrays(s, t, {})
    <3>. SUFFICES ASSUME NEW Q \in Parties, NEW x \in Players,
                         x \in t.channel[Q], t.people[x].party # Q
                  PROVE  x \in s.channel[Q] /\ s.people[x].party # Q
      BY DEF NoneStrays
    <3>1. NoParty # Q
      BY PartyAssumption
    <3>. QED
      BY <1>2, <1>11, <1>12, <3>1
  <2>. QED
    BY <2>1, <2>2, <2>3 DEF Seemly
<1>. QED
  BY <1>3, <1>13, <1>14, <1>15, BunchOut DEF s

LEMMA PassKeeps ==
  ASSUME Partial, ~partyLost, NEW p \in Players, NEW q \in Players, PassLeadership(p, q)
  PROVE  Partial' /\ Conducted
<1>. DEFINE s == Bunch
            P == people[p].party
            c == parties[P]
            d == HandOver(c, q)
            F == [parties EXCEPT ![P] = d]
            t == [parties |-> F, people |-> people, channel |-> partyChannel, lost |-> partyLost]
<1>1. /\ Sane(s) /\ Firm(s) /\ s \in Bunches /\ s.parties = parties /\ s.people = people
      /\ s.channel = partyChannel /\ s.lost = FALSE
      /\ parties \in [Parties -> Group] /\ people \in [Players -> Person]
      /\ partyChannel \in [Parties -> SUBSET Players]
  BY BunchIn
<1>2. P \in Parties /\ c.leader = p /\ people[q].party = P /\ p # q
  <2>1. people[p].party \in Parties \cup {NoParty}
    BY <1>1, GroupIs
  <2>. QED
    BY <2>1 DEF PassLeadership
<1>3. Becomes(t)
  <2>1. t = [Bunch EXCEPT !.parties[P] = HandOver(@, q)]
    BY DEF Bunch
  <2>. QED
    BY <2>1 DEF PassLeadership
<1>. HIDE DEF s
<1>4. Living(s, P) /\ q \in ToSet(c.members) /\ c \in Group /\ Orderly(c)
  <2>1. Living(s, P) /\ q \in Crew(c)
    BY <1>1, <1>2 DEF Firm, Loyal
  <2>. QED
    BY <1>1, <1>2, <2>1 DEF Firm, Crew
<1>5. /\ d \in Group /\ Orderly(d) /\ d.leader = q /\ d.invites = c.invites
      /\ Len(d.members) = Len(c.members) /\ d.members # <<>> /\ Crew(d) = Crew(c)
  BY <1>2, <1>4, HandOverIs
<1>. HIDE DEF d
<1>6. F \in [Parties -> Group] /\ F[P] = d /\ \A Q \in Parties \ {P} : F[Q] = parties[Q]
  BY <1>1, <1>2, <1>5
<1>. HIDE DEF F
<1>a. t.parties = F /\ t.people = people /\ t.channel = partyChannel /\ t.lost = partyLost
  OBVIOUS
<1>b. partyLost = FALSE
  BY <1>1 DEF s, Bunch
<1>c. t \in Bunches
  BY <1>1, <1>6, <1>b, MakeBunch
<1>. HIDE DEF t
<1>7. /\ t \in Bunches /\ t.people = s.people /\ t.channel = s.channel /\ Living(t, P)
      /\ t.parties[P] = d /\ \A Q \in Parties \ {P} : t.parties[Q] = s.parties[Q]
      /\ s.parties[P] = c
  <2>1. q # NoPlayer
    BY PeopleAssumption
  <2>. QED
    BY <1>1, <1>5, <1>6, <1>a, <1>c, <2>1 DEF Living
<1>8. ASSUME NEW Q \in Parties
      PROVE  /\ t.parties[Q].invites = s.parties[Q].invites
             /\ Crew(t.parties[Q]) = Crew(s.parties[Q])
             /\ Living(t, Q) <=> Living(s, Q)
  <2>1. CASE Q = P
    BY <1>4, <1>5, <1>7, <2>1
  <2>2. CASE Q # P
    BY <1>7, <2>2 DEF Living
  <2>. QED
    BY <2>1, <2>2
<1>9. Sane(t)
  <2>1. ASSUME NEW Q \in Parties, ~Living(t, Q)
        PROVE  t.parties[Q] = Nothing
    BY <1>1, <1>7, <1>8, <2>1 DEF Sane
  <2>. QED
    BY <1>1, <1>7, <1>8, <2>1 DEF Sane
<1>10. Firm(t)
  <2>1. Loyal(t)
    BY <1>1, <1>7, <1>8 DEF Firm, Loyal
  <2>2. ASSUME NEW Q \in Parties, Living(t, Q)
        PROVE  /\ Orderly(t.parties[Q])
               /\ t.parties[Q].members # <<>> \/ t.parties[Q].invites # {}
    BY <1>1, <1>5, <1>7, <1>8, <2>2 DEF Firm
  <2>. QED
    BY <2>1, <2>2 DEF Firm
<1>11. Seemly(s, t, {})
  BY <1>7, <1>8 DEF Seemly, NoneForgotten, LongLived, NoneStrays
<1>. QED
  BY <1>3, <1>9, <1>10, <1>11, BunchOut DEF s

LEMMA RevokeKeeps ==
  ASSUME Partial, ~partyLost, NEW p \in Players, NEW q \in Players, Revoke(p, q)
  PROVE  Partial' /\ Conducted
<1>. DEFINE P == people[p].party
            t == RemoveInvite(Bunch, q, P)
<1>1. /\ Sane(Bunch) /\ Firm(Bunch) /\ Bunch \in Bunches /\ Bunch.parties = parties
      /\ Bunch.people = people /\ Bunch.lost = FALSE
  BY BunchIn
<1>2. P \in Parties /\ q \in Bunch.parties[P].invites
  <2>1. people[p].party \in Parties \cup {NoParty}
    BY <1>1, GroupIs
  <2>. QED
    BY <1>1, <2>1 DEF Revoke, Inviting
<1>3. Becomes(t)
  BY DEF Revoke
<1>. HIDE DEF P
<1>4. Trimmed(Bunch, t, q, {P}) /\ t.lost = Bunch.lost
  BY <1>1, <1>2, RevokeTrims
<1>. HIDE DEF t
<1>5. Sane(t) /\ Firm(t) /\ Seemly(Bunch, t, {})
  BY <1>1, <1>2, <1>4, TrimmedKeeps
<1>. QED
  BY <1>3, <1>5, BunchOut

LEMMA LeaveKeeps ==
  ASSUME Partial, ~partyLost, NEW p \in Players, Leave(p)
  PROVE  Partial' /\ Conducted
<1>. DEFINE P == Bunch.people[p].party
            t == LeaveParty(Bunch, p)
<1>1. Sane(Bunch) /\ Firm(Bunch) /\ Bunch.people = people
  BY BunchIn
<1>2. P # NoParty /\ Becomes(t)
  BY <1>1 DEF Leave
<1>3. Left(Bunch, t, p, P)
  BY <1>1, <1>2, LeaveIs
<1>. HIDE DEF P, t
<1>4. Sane(t) /\ Firm(t) /\ Seemly(Bunch, t, {p})
  BY <1>1, <1>2, <1>3, LeftKeeps DEF P
<1>. QED
  BY <1>2, <1>4, BunchOut

LEMMA GhostKeeps ==
  ASSUME Partial, ~partyLost, NEW p \in Players, Ghost(p)
  PROVE  Partial' /\ Conducted
<1>. DEFINE t == DropOut(Bunch, p)
<1>1. Sane(Bunch) /\ Firm(Bunch)
  BY BunchIn
<1>2. Becomes(t)
  BY DEF Ghost
<1>3. Out(t, p) /\ Seemly(Bunch, t, {p})
  BY <1>1, DropOutIs
<1>. HIDE DEF t
<1>4. Sane(t) /\ (t.lost \/ Firm(t))
  BY <1>3 DEF Out
<1>. QED
  BY <1>2, <1>3, <1>4, BunchOut

LEMMA LogoutKeeps ==
  ASSUME Partial, ~partyLost, NEW p \in Players, Logout(p)
  PROVE  Partial' /\ Conducted
<1>. DEFINE u == DropOut(Bunch, p)
            t == [OutOfChannels(u, p) EXCEPT !.people[p] = Away]
<1>1. Sane(Bunch) /\ Firm(Bunch)
  BY BunchIn
<1>2. Becomes(t)
  BY DEF Logout
<1>3. Out(u, p) /\ Seemly(Bunch, u, {p})
  BY <1>1, DropOutIs
<1>. HIDE DEF u
<1>4. Sane(t) /\ (t.lost \/ Firm(t)) /\ Seemly(Bunch, t, {})
  BY <1>3, GoneIs
<1>. HIDE DEF t
<1>. QED
  BY <1>2, <1>4, BunchOut

LEMMA InviteKeeps ==
  ASSUME Partial, ~partyLost, NEW p \in Players, NEW q \in Players, people[p].online,
         people[q].online, Invite(p, q)
  PROVE  Partial' /\ Conducted
<1>1. \/ \E P \in Parties :
           /\ people[p].party = NoParty /\ ~Alive(P)
           /\ Becomes(Invited([Bunch EXCEPT !.parties[P].leader = p,
                                            !.people[p].party = P], p, q, P))
      \/ /\ people[p].party # NoParty
         /\ parties[people[p].party].leader = p
         /\ Becomes(Invited(Bunch, p, q, people[p].party))
  BY DEF Invite
<1>2. ASSUME NEW P \in Parties, people[p].party = NoParty, ~Alive(P),
             Becomes(Invited([Bunch EXCEPT !.parties[P].leader = p,
                                           !.people[p].party = P], p, q, P))
      PROVE  Partial' /\ Conducted
  BY <1>2, InviteFirst
<1>3. CASE /\ people[p].party # NoParty
           /\ parties[people[p].party].leader = p
           /\ Becomes(Invited(Bunch, p, q, people[p].party))
  BY <1>3, InviteMore
<1>. QED
  BY <1>1, <1>2, <1>3

LEMMA LoginKeeps ==
  ASSUME Partial, ~partyLost, NEW p \in Players, ~people[p].online, Login(p)
  PROVE  Partial' /\ Conducted
<1>1. Sane(Bunch) /\ Bunch.people = people
  BY BunchIn
<1>2. people[p] = Away
  BY <1>1 DEF Sane
<1>3. /\ Newcomer \in Person /\ Newcomer.online /\ Newcomer.party = people[p].party
      /\ Newcomer.invitations = people[p].invitations
  BY <1>2, NothingIs
<1>4. Becomes([Bunch EXCEPT !.people[p] = Newcomer])
  BY DEF Login
<1>. QED
  BY <1>3, <1>4, PersonStep

LEMMA ClientKeeps ==
  ASSUME Partial, ~partyLost, NEW p \in Players, people[p].online,
         LoseClient(p) \/ Reconnect(p)
  PROVE  Partial' /\ Conducted
<1>1. people[p] \in Person /\ Bunch.people = people
  BY BunchIn
<1>2. PICK b \in BOOLEAN : Becomes([Bunch EXCEPT !.people[p].linked = b])
  BY DEF LoseClient, Reconnect
<1>. DEFINE m == [people[p] EXCEPT !.linked = b]
<1>3. [Bunch EXCEPT !.people[p].linked = b] = [Bunch EXCEPT !.people[p] = m]
  BY <1>1
<1>4. /\ m \in Person /\ m.online = people[p].online /\ m.party = people[p].party
      /\ m.invitations = people[p].invitations
  BY <1>1 DEF Person
<1>5. Becomes([Bunch EXCEPT !.people[p] = m])
  BY <1>2, <1>3
<1>. HIDE DEF m
<1>. QED
  BY <1>4, <1>5, PersonStep

LEMMA ChannelKeeps ==
  ASSUME Partial, ~partyLost, NEW p \in Players,
         OpenChannel(p) \/ CloseChannel(p) \/ AskReplace(p)
  PROVE  Partial' /\ Conducted
<1>. DEFINE P == people[p].party
<1>1. /\ partyChannel \in [Parties -> SUBSET Players] /\ Bunch.channel = partyChannel
      /\ P \in Parties \cup {NoParty}
  BY BunchIn, GroupIs
<1>2. CASE OpenChannel(p)
  <2>. DEFINE H == [partyChannel EXCEPT ![P] = @ \cup {p}]
  <2>1. P \in Parties
    BY <1>1, <1>2 DEF OpenChannel
  <2>2. [Bunch EXCEPT !.channel = H] = [Bunch EXCEPT !.channel[P] = @ \cup {p}]
    BY <1>1
  <2>3. Becomes([Bunch EXCEPT !.channel = H])
    BY <1>2, <2>2 DEF OpenChannel
  <2>4. H \in [Parties -> SUBSET Players]
        /\ \A Q \in Parties : \A q \in H[Q] : q \in partyChannel[Q] \/ people[q].party = Q
    BY <1>1, <2>1
  <2>. HIDE DEF H
  <2>. QED
    BY <2>3, <2>4, ChannelStep
<1>3. CASE CloseChannel(p)
  <2>. DEFINE H == [partyChannel EXCEPT ![P] = @ \ {p}]
  <2>1. P \in Parties
    BY <1>1, <1>3 DEF CloseChannel
  <2>2. [Bunch EXCEPT !.channel = H] = [Bunch EXCEPT !.channel[P] = @ \ {p}]
    BY <1>1
  <2>3. Becomes([Bunch EXCEPT !.channel = H])
    BY <1>3, <2>2 DEF CloseChannel
  <2>4. H \in [Parties -> SUBSET Players]
        /\ \A Q \in Parties : \A q \in H[Q] : q \in partyChannel[Q]
    BY <1>1, <2>1
  <2>. HIDE DEF H
  <2>. QED
    BY <2>3, <2>4, ChannelStep
<1>4. CASE AskReplace(p)
  <2>. DEFINE H == [Q \in Parties |-> partyChannel[Q] \ {p}]
  <2>1. [Bunch EXCEPT !.channel = H] = OutOfChannels(Bunch, p)
    BY <1>1 DEF OutOfChannels
  <2>2. Becomes([Bunch EXCEPT !.channel = H])
    BY <1>4, <2>1 DEF AskReplace
  <2>3. H \in [Parties -> SUBSET Players]
        /\ \A Q \in Parties : \A q \in H[Q] : q \in partyChannel[Q]
    BY <1>1
  <2>. HIDE DEF H
  <2>. QED
    BY <2>2, <2>3, ChannelStep
<1>. QED
  BY <1>2, <1>3, <1>4

-----------------------------------------------------------------------------
(* The theorem. *)
LEMMA PartyStarts == PartyInit => Partial
<1>. SUFFICES ASSUME PartyInit PROVE Partial
  OBVIOUS
<1>1. /\ parties \in [Parties -> Group] /\ people \in [Players -> Person]
      /\ partyChannel \in [Parties -> SUBSET Players] /\ partyLost = FALSE
      /\ \A P \in Parties : parties[P] = Nothing
      /\ \A p \in Players : people[p] = Away
  BY NothingIs DEF PartyInit
<1>2. Bunch \in Bunches
  BY <1>1, MakeBunch DEF Bunch
<1>3. /\ Bunch.parties = parties /\ Bunch.people = people
  BY DEF Bunch
<1>4. Sane(Bunch)
  BY <1>1, <1>2, <1>3, NothingIs DEF Sane
<1>5. Firm(Bunch)
  BY <1>1, <1>3, NothingIs, PartyAssumption DEF Firm, Loyal, Living
<1>. QED
  BY <1>4, <1>5 DEF Partial

LEMMA PartyGoesOn == Partial /\ [PartyNext]_partyVars => Partial' /\ [Conducted]_partyVars
<1>. SUFFICES ASSUME Partial, PartyNext
              PROVE  Partial' /\ Conducted
  BY DEF partyVars, Partial, Bunch
<1>1. ~partyLost
  BY DEF PartyNext
<1>2. PICK p \in Players :
        \/ ~people[p].online /\ Login(p)
        \/ /\ people[p].online
           /\ \/ Leave(p) \/ Ghost(p) \/ OpenChannel(p) \/ CloseChannel(p)
              \/ Logout(p) \/ LoseClient(p) \/ Reconnect(p) \/ AskReplace(p)
              \/ \E q \in Players :
                   /\ people[q].online
                   /\ \/ Invite(p, q) \/ Join(p, q) \/ Revoke(p, q)
                      \/ PassLeadership(p, q)
  BY DEF PartyNext
<1>3. CASE ~people[p].online /\ Login(p)
  BY <1>1, <1>3, LoginKeeps
<1>4. CASE Leave(p)
  BY <1>1, <1>4, LeaveKeeps
<1>5. CASE Ghost(p)
  BY <1>1, <1>5, GhostKeeps
<1>6. CASE Logout(p)
  BY <1>1, <1>6, LogoutKeeps
<1>7. CASE OpenChannel(p) \/ CloseChannel(p) \/ AskReplace(p)
  BY <1>1, <1>7, ChannelKeeps
<1>8. CASE people[p].online /\ (LoseClient(p) \/ Reconnect(p))
  BY <1>1, <1>8, ClientKeeps
<1>9. ASSUME NEW q \in Players, people[p].online, people[q].online,
             Invite(p, q) \/ Join(p, q) \/ Revoke(p, q) \/ PassLeadership(p, q)
      PROVE  Partial' /\ Conducted
  <2>1. CASE Invite(p, q)
    BY <1>1, <1>9, <2>1, InviteKeeps
  <2>2. CASE Join(p, q)
    BY <1>1, <1>9, <2>2, JoinKeeps
  <2>3. CASE Revoke(p, q)
    BY <1>1, <2>3, RevokeKeeps
  <2>4. CASE PassLeadership(p, q)
    BY <1>1, <2>4, PassKeeps
  <2>. QED
    BY <1>9, <2>1, <2>2, <2>3, <2>4
<1>. QED
  BY <1>2, <1>3, <1>4, <1>5, <1>6, <1>7, <1>8, <1>9

LEMMA PartialShows == Partial => PartyTypeOK /\ PartyMutual /\ PartyWanted
<1>. SUFFICES ASSUME Partial PROVE PartyTypeOK /\ PartyMutual /\ PartyWanted
  OBVIOUS
<1>1. PartyTypeOK
  BY BunchIs DEF Partial
<1>2. ASSUME ~partyLost
      PROVE  /\ Firm(Bunch) /\ Bunch \in Bunches
             /\ Bunch.parties = parties /\ Bunch.people = people
  BY <1>2, BunchIn
<1>3. ASSUME ~partyLost, NEW P \in Parties, Alive(P)
      PROVE  Cardinality(Crew(parties[P])) = Len(parties[P].members) + 1
  <2>1. Living(Bunch, P)
    BY <1>2, <1>3 DEF Living, Alive
  <2>2. Orderly(parties[P]) /\ parties[P].members \in Seq(Players)
    BY <1>2, <1>3, <2>1, GroupIs DEF Firm
  <2>. QED
    BY <2>2, CrewCount DEF Orderly, Crew
<1>4. PartyMutual
  BY <1>2, <1>3 DEF PartyMutual, Firm, Loyal, Living, Alive
<1>5. PartyWanted
  BY <1>2 DEF PartyWanted, Firm, Living, Alive
<1>. QED
  BY <1>1, <1>4, <1>5

(* PartyKept: whatever the players do, parties and players agree on who    *)
(* belongs to whom and on who is invited, a party that nobody can join is  *)
(* disbanded, a leader's leaving does not take it away from two others,    *)
(* and only who leaves it goes on listening to its channel.                *)
THEOREM PartyAlwaysKept == PartySpec => PartyKept
<1>1. PartySpec => []Partial
  <2>1. Partial /\ [PartyNext]_partyVars => Partial'
    BY PartyGoesOn
  <2>. QED
    BY <2>1, PartyStarts, PTL DEF PartySpec
<1>2. PartySpec => [][Conducted]_partyVars
  BY <1>1, PartyGoesOn, PTL DEF PartySpec
<1>3. [Conducted]_partyVars =>
        [\A p \in Players, P \in Parties :
           /\ (p \in parties[P].invites)' => (P \in people[p].invitations)'
           /\ Forgotten(p, P)' =>
                \/ Forgotten(p, P)
                \/ p \in parties[P].invites /\ people[p].party = P]_partyVars
  BY DEF Conducted, KnownOn, Forgotten
<1>4. [Conducted]_partyVars =>
        [\A P \in Parties : Alive(P) /\ Len(parties[P].members) > 1
                              => parties[P].leader' # NoPlayer]_partyVars
  BY DEF Conducted, LivesOn
<1>5. [Conducted]_partyVars =>
        [\A P \in Parties, p \in Players : p \notin Strays(P) /\ p \in Strays(P)' =>
           Leave(p) \/ Ghost(p) \/ ~people[p].linked]_partyVars
  BY DEF Conducted, StaysOn, Strays
<1>6. PartySpec => InvitationsMutual
  BY <1>2, <1>3, PTL DEF InvitationsMutual
<1>7. PartySpec => PartyOutlivesLeader
  BY <1>2, <1>4, PTL DEF PartyOutlivesLeader
<1>8. PartySpec => OnlyLeaversStray
  BY <1>2, <1>5, PTL DEF OnlyLeaversStray
<1>9. PartySpec => [](PartyTypeOK /\ PartyMutual /\ PartyWanted)
  BY <1>1, PartialShows, PTL
<1>. QED
  BY <1>6, <1>7, <1>8, <1>9, PTL DEF PartyKept
=============================================================================
