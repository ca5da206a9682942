-------------------------------- MODULE Chat --------------------------------
(***************************************************************************)
(* The private channels of Chat (800/chat.cpp) and the handlers of Game    *)
(* that call it; all of it runs in the dispatcher thread.  Invitations are *)
(* kept by guid and outlive a logout, users are kept by creature.          *)
(*                                                                         *)
(* tabs are the channels a client has been told are open and has not been  *)
(* told are closed.  What is said is left out.                             *)
(***************************************************************************)
EXTENDS Naturals, FiniteSets, People

CONSTANTS
  MaxChannel,  \* bound: the code has the numbers 100 to 9999
  MaxReloads   \* bound: how often the channels are reloaded

ASSUME ChatAssumption == MaxChannel \in Nat /\ MaxReloads \in Nat

VARIABLES
  channels, \* m_privateChannels; owner = NoPlayer: the number is free
  screens,  \* of each player: whether he is in game, has a client, its tabs
  reloads,  \* how often the channels have been reloaded
  chatLost  \* an erased element of the map has been used

chatVars == <<channels, screens, reloads, chatLost>>

Numbers == 1 .. MaxChannel
FreeNumber == [owner |-> NoPlayer, invites |-> {}, users |-> {}]
NoScreen == [online |-> FALSE, linked |-> FALSE, tabs |-> {}]

ChatTypeOK ==
  /\ channels \in [Numbers -> [owner : Players \cup {NoPlayer},
                               invites : SUBSET Players, users : SUBSET Players]]
  /\ screens \in [Players -> [online : BOOLEAN, linked : BOOLEAN, tabs : SUBSET Numbers]]
  /\ chatLost \in BOOLEAN

ChatInit ==
  /\ channels = [n \in Numbers |-> FreeNumber]
  /\ screens = [p \in Players |-> NoScreen]
  /\ reloads = 0
  /\ chatLost = FALSE

Owned(p) == {n \in Numbers : channels[n].owner = p}
IsInvited(p, n) == p = channels[n].owner \/ p \in channels[n].invites

(* send*() reach the player only if he has a client. *)
Shows(p, n) == IF screens[p].linked THEN screens[p].tabs \cup {n} ELSE screens[p].tabs
-----------------------------------------------------------------------------
CreatePast(p) ==
  /\ screens[p].online
  /\ Owned(p) = {}
  /\ \E n \in 1 .. MaxChannel + 1 :
       /\ n \in Numbers => channels[n].owner = NoPlayer
       /\ \A m \in 1 .. n - 1 : channels[m].owner # NoPlayer
       /\ channels' = [channels EXCEPT ![n] = [owner |-> p, invites |-> {}, users |-> {p}]]
       /\ screens' = [screens EXCEPT ![p].tabs = Shows(p, n)]
  /\ UNCHANGED <<reloads, chatLost>>

(* playerCreatePrivateChannel; players are premium. *)
CreatePrivate(p) ==
  /\ screens[p].online
  /\ Owned(p) = {}
  /\ \E n \in Numbers :
       /\ channels[n].owner = NoPlayer
       /\ \A m \in 1 .. n - 1 : channels[m].owner # NoPlayer
       /\ channels' = [channels EXCEPT ![n] = [owner |-> p, invites |-> {}, users |-> {p}]]
       /\ screens' = [screens EXCEPT ![p].tabs = Shows(p, n)]
  /\ UNCHANGED <<reloads, chatLost>>

(* playerChannelInvite, invitePlayer *)
ChannelInvite(p, q) ==
  /\ screens[p].online /\ screens[q].online
  /\ p # q
  /\ \E n \in Owned(p) :
       channels' = [channels EXCEPT ![n].invites = @ \cup {q}]
  /\ UNCHANGED <<screens, reloads, chatLost>>

ExcludeSilently(p, q) ==
  /\ screens[p].online /\ screens[q].online
  /\ p # q
  /\ \E n \in Owned(p) :
       /\ q \in channels[n].invites
       /\ channels' = [channels EXCEPT ![n].invites = @ \ {q}]
       /\ screens' = [screens EXCEPT ![q].tabs = @ \ {n}]
  /\ UNCHANGED <<reloads, chatLost>>

(* playerChannelExclude, excludePlayer *)
ChannelExclude(p, q) ==
  /\ screens[p].online /\ screens[q].online
  /\ p # q
  /\ \E n \in Owned(p) :
       /\ q \in channels[n].invites
       /\ channels' = [channels EXCEPT ![n].invites = @ \ {q}, ![n].users = @ \ {q}]
       /\ screens' = [screens EXCEPT ![q].tabs = @ \ {n}]
  /\ UNCHANGED <<reloads, chatLost>>

(* playerOpenChannel, addUserToChannel: who is a user already gets nothing. *)
OpenPrivate(p, n) ==
  /\ screens[p].online
  /\ channels[n].owner # NoPlayer
  /\ IsInvited(p, n)
  /\ p \notin channels[n].users
  /\ channels' = [channels EXCEPT ![n].users = @ \cup {p}]
  /\ screens' = [screens EXCEPT ![p].tabs = Shows(p, n)]
  /\ UNCHANGED <<reloads, chatLost>>

OwnerStays(p, M) ==
  [n \in Numbers |-> [channels[n] EXCEPT !.users = IF n \in M THEN @ \ {p} ELSE @]]

(* p is taken out of the channels M; those he owns are deleted, and each   *)
(* user of them is told.                                                   *)
ChannelsAfter(p, M) ==
  [n \in Numbers |->
     IF n \notin M THEN channels[n]
     ELSE IF channels[n].owner = p THEN FreeNumber
     ELSE [channels[n] EXCEPT !.users = @ \ {p}]]

NobodyTold(p, M) == [screens EXCEPT ![p].tabs = @ \ M]

ScreensAfter(p, M) ==
  [q \in Players |-> [screens[q] EXCEPT !.tabs =
     @ \ {n \in M : q = p \/ (channels[n].owner = p /\ q \in channels[n].users)}]]

(* playerCloseChannel, removeUserFromChannel *)
ClosePrivate(p, n) ==
  /\ screens[p].online
  /\ channels[n].owner # NoPlayer
  /\ IsInvited(p, n)
  /\ p \in channels[n].users
  /\ channels' = ChannelsAfter(p, {n})
  /\ screens' = ScreensAfter(p, {n})
  /\ UNCHANGED <<reloads, chatLost>>

(* removeUserFromAllChannels erases the channel p owns from the map and    *)
(* then moves on from it: on to the rest, or anywhere.                     *)
OutOfAll(p) ==
  /\ channels' = ChannelsAfter(p, Numbers)
  /\ chatLost' \in IF Owned(p) = {} THEN {FALSE} ELSE BOOLEAN
  /\ UNCHANGED reloads

(* ProtocolGame::login for a player with a client, which must disconnect.  *)
TakeOver(p) ==
  /\ screens[p].linked
  /\ OutOfAll(p)
  /\ screens' = ScreensAfter(p, Numbers)

(* Player::onCreatureDisappear *)
ChatLogout(p) ==
  /\ screens[p].online
  /\ OutOfAll(p)
  /\ screens' = [ScreensAfter(p, Numbers) EXCEPT ![p] = NoScreen]

ClientGone(p) ==
  /\ screens[p].linked
  /\ screens' = [screens EXCEPT ![p].linked = FALSE, ![p].tabs = {}]
  /\ UNCHANGED <<channels, reloads, chatLost>>

(* A login, or a client that comes back for a player without one. *)
ClientComes(p) ==
  /\ ~screens[p].linked
  /\ screens' = [screens EXCEPT ![p].online = TRUE, ![p].linked = TRUE]
  /\ UNCHANGED <<channels, reloads, chatLost>>

(* reload(), clear(): nobody is told. *)
ReloadChannels ==
  /\ reloads < MaxReloads
  /\ channels' = [n \in Numbers |-> FreeNumber]
  /\ reloads' = reloads + 1
  /\ UNCHANGED <<screens, chatLost>>

ChatNext ==
  /\ ~chatLost
  /\ \/ ReloadChannels
     \/ \E p \in Players :
          \/ CreatePrivate(p) \/ TakeOver(p) \/ ChatLogout(p)
          \/ ClientGone(p) \/ ClientComes(p)
          \/ \E q \in Players : ChannelInvite(p, q) \/ ChannelExclude(p, q)
          \/ \E n \in Numbers : OpenPrivate(p, n) \/ ClosePrivate(p, n)

ChatSpec == ChatInit /\ [][ChatNext]_chatVars
-----------------------------------------------------------------------------
(* Properties.                                                             *)

(* Nobody listens to a private channel who is not in game, or who is       *)
(* neither its owner nor invited: exclusion, logout and takeover reach     *)
(* every channel, also one whose number has had another owner.             *)
ListenersInvited ==
  \A n \in Numbers : \A p \in channels[n].users :
    screens[p].online /\ IsInvited(p, n)

(* A channel lives only as long as its owner is in it, and nobody owns     *)
(* two, so that the numbers cannot run out.                                *)
OwnerListens ==
  \A n, m \in Numbers :
    channels[n].owner # NoPlayer =>
      /\ channels[n].owner \in channels[n].users
      /\ channels[m].owner = channels[n].owner => m = n

Deaf(p, n) == n \in screens[p].tabs /\ p \notin channels[n].users

(* What a client shows as open he hears: a tab goes deaf only when the     *)
(* channels are reloaded.                                                  *)
TabsAreServed ==
  [][\A p \in Players, n \in Numbers :
       Deaf(p, n)' => Deaf(p, n) \/ ReloadChannels]_chatVars

(* Who listens to a private channel may, who owns one does, and what a     *)
(* client shows is heard.                                                  *)
ChannelsKept == [](ChatTypeOK /\ ListenersInvited /\ OwnerListens) /\ TabsAreServed
=============================================================================
