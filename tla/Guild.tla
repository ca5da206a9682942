-------------------------------- MODULE Guild --------------------------------
(***************************************************************************)
(* Guilds: the commands of the guild channel (800/chat.cpp), the talk      *)
(* actions that found and join (800/talkaction.cpp), IOGuild               *)
(* (800/ioguild.cpp), and what a login loads and savePlayer writes         *)
(* (800/iologindata.cpp), on the tables of 800/schemas/mysql.sql.          *)
(*                                                                         *)
(* The rank of a player in game is in memory and reaches the database when *)
(* he is saved; the rank of the others is in the database.  Names, nicks   *)
(* and the message of the day are left out; levels and premium days        *)
(* suffice.  The dispatcher thread runs all of it; it may crash.           *)
(***************************************************************************)
EXTENDS Naturals, FiniteSets, People

CONSTANT MaxGuild  \* bound: how many guilds are founded, ever

ASSUME GuildAssumption == MaxGuild \in Nat

VARIABLES
  founded,    \* the last id of table guilds
  owners,     \* column ownerid of guilds; NoPlayer: no such row
  ranks,      \* column rank_id of players, as guild and level
  invites,    \* table guild_invites, by player
  members     \* the Player objects

guildVars == <<founded, owners, ranks, invites, members>>

GuildIds == 1 .. MaxGuild
MemberLevel == 1
ViceLevel == 2
LeaderLevel == 3
NoRank == [guild |-> 0, level |-> 0]
RankOf(g, l) == [guild |-> g, level |-> l]
Absent == [online |-> FALSE, rank |-> NoRank, invites |-> {}]

GuildTypeOK ==
  /\ founded \in 0 .. MaxGuild
  /\ owners \in [GuildIds -> Players \cup {NoPlayer}]
  /\ ranks \in [Players -> {NoRank} \cup [guild : GuildIds, level : 1 .. 3]]
  /\ invites \in [Players -> SUBSET GuildIds]
  /\ members \in [Players -> [online : BOOLEAN, invites : SUBSET GuildIds,
                              rank : {NoRank} \cup [guild : GuildIds, level : 1 .. 3]]]

GuildInit ==
  /\ founded = 0
  /\ owners = [g \in GuildIds |-> NoPlayer]
  /\ ranks = [p \in Players |-> NoRank]
  /\ invites = [p \in Players |-> {}]
  /\ members = [p \in Players |-> Absent]

GuildExists(g) == g \in GuildIds /\ owners[g] # NoPlayer

(* The rank that counts. *)
Rank(p) == IF members[p].online THEN members[p].rank ELSE ranks[p]

TablesStay == UNCHANGED <<founded, owners, ranks, invites>>
-----------------------------------------------------------------------------
(* Login, saving and logout.                                               *)

(* loadPlayer reads the invitations of those without a rank. *)
GuildLogin(p) ==
  /\ ~members[p].online
  /\ members' = [members EXCEPT ![p] =
       [online |-> TRUE,
        rank |-> IF GuildExists(ranks[p].guild) THEN ranks[p] ELSE NoRank,
        invites |-> IF ranks[p] = NoRank THEN invites[p] ELSE {}]]
  /\ TablesStay

(* getRankIdByLevel finds no rank of a guild that is gone. *)
SavedIfRanked(p) == IF GuildExists(members[p].rank.guild) THEN members[p].rank ELSE ranks[p]
SavedRank(p) == IF GuildExists(members[p].rank.guild) THEN members[p].rank ELSE NoRank

(* An invitation to a guild that is gone violates the foreign key of       *)
(* guild_invites: savePlayer fails and its transaction is rolled back.     *)
Savable(p) == \A g \in members[p].invites : GuildExists(g)

Saved(p) ==
  /\ IF Savable(p)
     THEN /\ ranks' = [ranks EXCEPT ![p] = SavedRank(p)]
          /\ invites' = [invites EXCEPT ![p] = members[p].invites]
     ELSE UNCHANGED <<ranks, invites>>
  /\ UNCHANGED <<founded, owners>>

SavePlayer(p) == members[p].online /\ Saved(p) /\ UNCHANGED members

GuildLogout(p) ==
  /\ members[p].online
  /\ Saved(p)
  /\ members' = [members EXCEPT ![p] = Absent]

CrashAll == members' = [p \in Players |-> Absent] /\ TablesStay
-----------------------------------------------------------------------------
(* The commands.                                                           *)

(* setGuildLevel, leaveGuild or resetGuildInformation, where the rank is.  *)
SetRank(p, r) ==
  IF members[p].online
  THEN members' = [members EXCEPT ![p].rank = r] /\ UNCHANGED ranks
  ELSE ranks' = [ranks EXCEPT ![p] = r] /\ UNCHANGED members

HasLevel(p, Levels) ==
  members[p].online /\ GuildExists(members[p].rank.guild) /\ members[p].rank.level \in Levels

InviteToGuild(p, q) ==
  LET g == members[p].rank.guild IN
  /\ HasLevel(p, {ViceLevel, LeaderLevel})
  /\ Rank(q) = NoRank
  /\ IF members[q].online
     THEN members' = [members EXCEPT ![q].invites = @ \cup {g}] /\ UNCHANGED invites
     ELSE invites' = [invites EXCEPT ![q] = @ \cup {g}] /\ UNCHANGED members
  /\ UNCHANGED <<founded, owners, ranks>>

RevokeFromGuild(p, q) ==
  LET g == members[p].rank.guild IN
  /\ HasLevel(p, {ViceLevel, LeaderLevel})
  /\ IF members[q].online
     THEN /\ Rank(q) = NoRank
          /\ members' = [members EXCEPT ![q].invites = @ \ {g}] /\ UNCHANGED invites
     ELSE invites' = [invites EXCEPT ![q] = @ \ {g}] /\ UNCHANGED members
  /\ UNCHANGED <<founded, owners, ranks>>

Regrade(p, q, from, to) ==
  LET g == members[p].rank.guild IN
  /\ HasLevel(p, {LeaderLevel})
  /\ Rank(q) = RankOf(g, from)
  /\ SetRank(q, RankOf(g, to))
  /\ UNCHANGED <<founded, owners, invites>>

Promote(p, q) == Regrade(p, q, MemberLevel, ViceLevel)
Demote(p, q) == Regrade(p, q, ViceLevel, MemberLevel)

LeaderStays(p, q) ==
  LET g == members[p].rank.guild IN
  /\ HasLevel(p, {LeaderLevel})
  /\ members[q].online
  /\ members[q].rank = RankOf(g, ViceLevel)
  /\ members' = [members EXCEPT ![q].rank.level = LeaderLevel]
  /\ owners' = [owners EXCEPT ![g] = q]
  /\ UNCHANGED <<founded, ranks, invites>>

PassGuild(p, q) ==
  LET g == members[p].rank.guild IN
  /\ HasLevel(p, {LeaderLevel})
  /\ members[q].online
  /\ members[q].rank = RankOf(g, ViceLevel)
  /\ members' = [members EXCEPT ![q].rank.level = LeaderLevel, ![p].rank.level = ViceLevel]
  /\ owners' = [owners EXCEPT ![g] = q]
  /\ UNCHANGED <<founded, ranks, invites>>

(* Of an absent vice only the rank is written, not the owner. *)
PassToAbsent(p, q) ==
  LET g == members[p].rank.guild IN
  /\ HasLevel(p, {LeaderLevel})
  /\ ~members[q].online
  /\ ranks[q] = RankOf(g, ViceLevel)
  /\ ranks' = [ranks EXCEPT ![q].level = LeaderLevel]
  /\ members' = [members EXCEPT ![p].rank.level = ViceLevel]
  /\ UNCHANGED <<founded, owners, invites>>

(* Of absent members the level is not looked at. *)
Kick(p, q) ==
  /\ HasLevel(p, {LeaderLevel})
  /\ Rank(q).guild = members[p].rank.guild
  /\ members[q].online => members[q].rank.level < LeaderLevel
  /\ SetRank(q, NoRank)
  /\ UNCHANGED <<founded, owners, invites>>

LeaveHalf(p) ==
  /\ HasLevel(p, {MemberLevel, ViceLevel})
  /\ members' = [members EXCEPT ![p].rank.guild = 0]
  /\ TablesStay

LeaveGuild(p) ==
  /\ HasLevel(p, {MemberLevel, ViceLevel})
  /\ SetRank(p, NoRank)
  /\ UNCHANGED <<founded, owners, invites>>

RowsOnly(p) ==
  LET g == members[p].rank.guild IN
  /\ HasLevel(p, {LeaderLevel})
  /\ ranks' = [q \in Players |-> IF ranks[q].guild = g THEN NoRank ELSE ranks[q]]
  /\ members' = [members EXCEPT ![p].rank = NoRank]
  /\ owners' = [owners EXCEPT ![g] = NoPlayer]
  /\ invites' = [q \in Players |-> invites[q] \ {g}]
  /\ UNCHANGED founded

(* disbandGuild; invitations in memory stay. *)
DisbandGuild(p) ==
  LET g == members[p].rank.guild IN
  /\ HasLevel(p, {LeaderLevel})
  /\ ranks' = [q \in Players |-> IF ranks[q].guild = g THEN NoRank ELSE ranks[q]]
  /\ members' = [q \in Players |->
       IF members[q].rank.guild = g THEN [members[q] EXCEPT !.rank = NoRank] ELSE members[q]]
  /\ owners' = [owners EXCEPT ![g] = NoPlayer]
  /\ invites' = [q \in Players |-> invites[q] \ {g}]
  /\ UNCHANGED founded

(* There is no transaction: a crash after the first query leaves the guild *)
(* with an owner and without members.  Deleting the guild takes the rest   *)
(* along (its triggers and foreign keys), so a later crash is CrashAll.    *)
CrashInDisband(p) ==
  LET g == members[p].rank.guild IN
  /\ HasLevel(p, {LeaderLevel})
  /\ ranks' = [q \in Players |-> IF ranks[q].guild = g THEN NoRank ELSE ranks[q]]
  /\ members' = [q \in Players |-> Absent]
  /\ UNCHANGED <<founded, owners, invites>>

(* joinGuild *)
Joined(p, r) ==
  /\ ranks' = [ranks EXCEPT ![p] = r]
  /\ members' = [members EXCEPT ![p].rank = r, ![p].invites = {}]

JoinGuild(p, g) ==
  /\ members[p].online
  /\ members[p].rank = NoRank
  /\ GuildExists(g)
  /\ g \in members[p].invites
  /\ Joined(p, RankOf(g, MemberLevel))
  /\ UNCHANGED <<founded, owners, invites>>

(* createGuild finds the new row by its owner, who may own another one.    *)
FoundGuild(p) ==
  /\ members[p].online
  /\ members[p].rank = NoRank
  /\ founded < MaxGuild
  /\ founded' = founded + 1
  /\ owners' = [owners EXCEPT ![founded + 1] = p]
  /\ \E g \in GuildIds : owners'[g] = p /\ Joined(p, RankOf(g, LeaderLevel))
  /\ UNCHANGED invites

GuildNext ==
  \/ CrashAll
  \/ \E p \in Players :
       \/ GuildLogin(p) \/ SavePlayer(p) \/ GuildLogout(p)
       \/ FoundGuild(p) \/ LeaveGuild(p)
       \/ DisbandGuild(p) \/ CrashInDisband(p)
       \/ \E g \in GuildIds : JoinGuild(p, g)
       \/ \E q \in Players :
            \/ InviteToGuild(p, q) \/ RevokeFromGuild(p, q) \/ Kick(p, q)
            \/ Promote(p, q) \/ Demote(p, q) \/ PassGuild(p, q) \/ PassToAbsent(p, q)

GuildSpec == GuildInit /\ [][GuildNext]_guildVars
-----------------------------------------------------------------------------
(* Properties.                                                             *)

(* Nobody belongs to a guild that has been disbanded, in game or not.      *)
NoGhostGuilds == \A p \in Players : Rank(p) = NoRank \/ GuildExists(Rank(p).guild)

(* What is lost when p goes: savePlayer has failed. *)
LostOnLogout(p) == GuildLogout(p) /\ ~Savable(p)

(* Its owner and nobody else leads the guild. *)
Led(g) == \A p \in Players : Rank(p) = RankOf(g, LeaderLevel) <=> owners[g] = p

(* The server goes down, and what was only in memory is lost. *)
Crashes == CrashAll \/ \E p \in Players : CrashInDisband(p)

(* A guild that is led so stays so, through promotions, passing on,        *)
(* logins and logouts, unless leadership is passed to an absent vice, or   *)
(* ranks that were only in memory are lost.                                *)
StaysLed ==
  [][\A g \in GuildIds :
       GuildExists(g) /\ GuildExists(g)' /\ Led(g) =>
         \/ Led(g)'
         \/ Crashes
         \/ \E p \in Players : LostOnLogout(p)
         \/ \E p, q \in Players : PassToAbsent(p, q)]_guildVars

(* Who has left a guild or was kicked comes back only by an invitation:    *)
(* neither saving nor loading gives a membership back that was given up,   *)
(* unless the database never heard of that.                                *)
GoneStaysGone ==
  [][\A p \in Players :
       Rank(p)'.guild \notin {0, Rank(p).guild} =>
         \/ FoundGuild(p)
         \/ \E g \in GuildIds : JoinGuild(p, g)
         \/ Crashes
         \/ LostOnLogout(p)]_guildVars

(* Memory and tables agree on the guilds, who leads them and who is in     *)
(* them, also after a failed save and a crash, but for what these lose.    *)
GuildsKept == [](GuildTypeOK /\ NoGhostGuilds) /\ StaysLed /\ GoneStaysGone
=============================================================================
