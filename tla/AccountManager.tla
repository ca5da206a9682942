--------------------------- MODULE AccountManager ---------------------------
(***************************************************************************)
(* The account manager: Player::manageAccount (800/player.cpp), a dialogue *)
(* that creates accounts, creates and deletes characters and renames       *)
(* locked ones, over the functions of IOLoginData it calls                 *)
(* (800/iologindata.cpp) and the tables of 800/schemas/mysql.sql.          *)
(*                                                                         *)
(* Several players may talk to the account manager at once, also for the   *)
(* same account; every text is handled in one task of the dispatcher.      *)
(* talkState is the set of the indices that are true.  The wording is left *)
(* out, and so are the dialogues that change the password or the recovery  *)
(* key of an account and end in the menu (talkState 4, 5 and 10), and      *)
(* generateAccountNumber, which config.lua sets to false.  A text or a     *)
(* name that is not read again before it is replaced is forgotten.         *)
(***************************************************************************)
EXTENDS Naturals, FiniteSets

CONSTANTS
  Clients, Names, NoName,
  AccountIds, NoAccount,
  MaxCharacters,  \* the 15 of the code
  MaxRows,        \* bound: rows table players ever has
  Texts,          \* bound: what clients say, besides names and numbers
  ChooseVocation  \* newPlayerChooseVoc

ASSUME AccountManagerAssumption ==
  /\ NoName \notin Names /\ NoAccount \notin AccountIds
  /\ MaxCharacters \in Nat /\ MaxRows \in Nat /\ ChooseVocation \in BOOLEAN

VARIABLES
  talks,      \* the Player objects that talk to the account manager
  rows,       \* table players
  accounts,   \* table accounts, and whether one of them has no name
  guidCache,  \* guidCacheMap: name to row
  playing     \* rows whose characters are in game

managerVars == <<talks, rows, accounts, guidCache, playing>>

RowIds == 1 .. MaxRows
NoRow == [name |-> NoName, account |-> NoAccount, deleted |-> FALSE,
          locked |-> FALSE, made |-> {}]
Silent == [mode |-> "off", talk |-> {}, account |-> NoAccount, name |-> NoName,
           victim |-> NoName, number |-> NoAccount, chosen |-> {}]
Menu == {1}

AccountTypeOK ==
  /\ talks \in [Clients ->
       [mode : {"off", "lock", "account", "new"}, talk : SUBSET (1 .. 12),
        account : AccountIds \cup {NoAccount}, name : Names \cup {NoName},
        victim : Names \cup {NoName}, number : AccountIds \cup {NoAccount},
        chosen : SUBSET {"sex", "vocation"}]]
  /\ rows \in [RowIds ->
       {NoRow} \cup [name : Names, account : AccountIds, deleted : BOOLEAN,
                     locked : BOOLEAN, made : SUBSET {"sex", "vocation"}]]
  /\ accounts \in [ids : SUBSET AccountIds, unnamed : BOOLEAN]
  /\ guidCache \in [Names -> RowIds \cup {0}]
  /\ playing \subseteq RowIds
  /\ \A q \in RowIds : \A r \in RowIds \ {q} :    \* UNIQUE (name, deleted)
       rows[q] # NoRow => <<rows[q].name, rows[q].deleted>> # <<rows[r].name, rows[r].deleted>>

ManagerInit ==
  /\ talks = [c \in Clients |-> Silent]
  /\ \E ids \in SUBSET AccountIds :
       Cardinality(ids) <= 1 /\ accounts = [ids |-> ids, unnamed |-> FALSE]
  /\ rows = [r \in RowIds |-> NoRow]
  /\ guidCache = [n \in Names |-> 0]
  /\ playing = {}

------------------------------------------------------------------------------
Live(r) == rows[r] # NoRow /\ ~rows[r].deleted
LiveNamed(n) == {r \in RowIds : Live(r) /\ rows[r].name = n}
CharList(a) == {r \in RowIds : Live(r) /\ rows[r].account = a}

(* playerExists and getGuidByName look in the cache first, where the names *)
(* of deleted characters stay, and remember what they find.                *)
GuidOfCached(n) == guidCache[n]    \* mutant: the table is not asked

GuidOf(n) == IF guidCache[n] # 0 THEN guidCache[n]
             ELSE IF LiveNamed(n) = {} THEN 0 ELSE CHOOSE r \in LiveNamed(n) : TRUE
PlayerExists(n) == GuidOf(n) # 0
CacheWith(n) == [guidCache EXCEPT ![n] = GuidOf(n)]

FirstFree == CHOOSE r \in RowIds : rows[r] = NoRow /\ \A q \in 1 .. r - 1 : rows[q] # NoRow

(* createCharacter: the row refers to an account that must exist. *)
CreateCharacter(m) ==
  IF PlayerExists(m.name) \/ m.account \notin accounts.ids THEN rows
  ELSE [rows EXCEPT ![FirstFree] = [name |-> m.name, account |-> m.account, deleted |-> FALSE,
                                    locked |-> FALSE, made |-> m.chosen]]

MayDeleteOnline(m, r) ==    \* mutant: who plays is not asked
  /\ m.victim = rows[r].name /\ Live(r) /\ rows[r].account = m.account
  /\ \A q \in RowIds : rows[q].name = rows[r].name => ~rows[q].deleted

(* deleteCharacter: getPlayerByName, the account, and in the UPDATE the    *)
(* name of an earlier deleted character.                                   *)
MayDelete(m, r) ==
  /\ m.victim = rows[r].name /\ Live(r) /\ rows[r].account = m.account
  /\ \A q \in playing : rows[q].name # m.victim
  /\ \A q \in RowIds : rows[q].name = rows[r].name => ~rows[q].deleted

------------------------------------------------------------------------------
(* What a text does to the dialogue: the first branch whose condition      *)
(* holds.  A dialogue m goes to one of the branch; clear resets 2 to 12.   *)
Asked(m, question, answers, t) == question \in m.talk /\ t \in answers
To(m, out, in) == [m EXCEPT !.talk = (@ \ out) \cup in]
AtMenu(m) ==
  [m EXCEPT !.talk = Menu, !.victim = NoName, !.name = NoName, !.chosen = {}]

First(branches) ==
  IF \E i \in DOMAIN branches : branches[i][1]
  THEN branches[CHOOSE i \in DOMAIN branches :
                  branches[i][1] /\ \A j \in 1 .. i - 1 : ~branches[j][1]][2]
  ELSE "other"

AfterSexCreate == "create"    \* mutant: the vocation is not asked for

AfterSex == IF ChooseVocation THEN "askVocation" ELSE "create"

AccountBranch(m, t) ==
  First(<< <<t = "cancel" \/ (t = "account" /\ 1 \notin m.talk), "menu">>,
           <<Asked(m, 1, {"delete"}, t), "askDelete">>,
           <<2 \in m.talk, "nameDelete">>,
           <<Asked(m, 3, {"yes"}, t), "delete">>,
           <<Asked(m, 3, {"no"}, t), "keep">>,
           <<Asked(m, 1, {"character"}, t), "askName">>,
           <<6 \in m.talk, "name">>,
           <<Asked(m, 7, {"no"}, t), "renameNew">>,
           <<Asked(m, 7, {"yes"}, t), "askSex">>,
           <<Asked(m, 8, {"male"}, t), "sex">>,
           <<Asked(m, 9, {"no"}, t), "resex">>,
           <<Asked(m, 9, {"yes"}, t), AfterSex>>,
           <<11 \in m.talk, "vocation">>,
           <<Asked(m, 12, {"yes"}, t), "create">>,
           <<Asked(m, 12, {"no"}, t), "revocation">> >>)

NewBranch(m, t) ==
  First(<< <<t = "account" /\ 1 \notin m.talk, "start">>,
           <<2 \in m.talk, "password">>,
           <<Asked(m, 3, {"yes"}, t), "askNumber">>,
           <<Asked(m, 3, {"no"}, t), "repassword">>,
           <<4 \in m.talk, "number">>,
           <<Asked(m, 5, {"yes"}, t), "found">>,
           <<Asked(m, 5, {"no"}, t), "renumber">>,
           <<t = "recover" /\ 6 \notin m.talk, "recover">>,
           <<7 \in m.talk, "recoverNumber">>,
           <<8 \in m.talk, "recoverKey">> >>)

(* The dialogue itself, where neither a table nor the cache is involved. *)
Answered(m, t) ==
  LET b == IF m.mode = "account" THEN AccountBranch(m, t) ELSE NewBranch(m, t)
  IN CASE b = "menu" -> AtMenu(m)
       [] b = "askDelete" -> To(m, {1}, {2})
       [] b = "nameDelete" /\ t \in Names -> [To(m, {2}, {3}) EXCEPT !.victim = t]
       [] b = "keep" -> [To(m, {3}, {1}) EXCEPT !.victim = NoName]
       [] b = "renameNew" -> [To(m, {7}, {6}) EXCEPT !.name = NoName]
       [] b = "askSex" -> To(m, {7}, {8})
       [] b = "sex" -> [To(m, {8}, {9}) EXCEPT !.chosen = @ \cup {"sex"}]
       [] b = "resex" -> To(m, {9}, {8})
       [] b = "askVocation" -> To(m, {9}, {11})
       [] b = "vocation" /\ t = "knight" ->
            [To(m, {11}, {12}) EXCEPT !.chosen = @ \cup {"vocation"}]
       [] b = "revocation" -> To(m, {12}, {11})
       [] b = "start" -> To(m, {}, {1, 2})
       [] b = "password" /\ t = "secret" -> To(m, {2}, {3})
       [] b = "repassword" -> To(m, {3}, {2})
       [] b = "askNumber" -> To(m, {3}, {4})
       [] b = "number" /\ t \in AccountIds -> [To(m, {4}, {5}) EXCEPT !.number = t]
       [] b = "renumber" -> [To(m, {5}, {4}) EXCEPT !.number = NoAccount]
       [] b = "recover" -> To(m, {}, {6, 7})
       [] b = "recoverNumber" -> To(m, {7}, {8})
       [] b = "recoverKey" -> To(m, {7, 8}, {})
       [] OTHER -> m

Tables == <<rows, accounts, guidCache, playing>>
Says(c, m) == talks' = [talks EXCEPT ![c] = m]

(* A text that only leads the dialogue on *)
Chat(c, t) ==
  /\ talks[c].mode \in {"account", "new"}
  /\ \E m \in {Answered(talks[c], t)} \ {talks[c]} : Says(c, m)
  /\ UNCHANGED Tables

(* "delete" confirmed; an owner of a house or a guild is kept. *)
Delete(c) ==
  LET m == talks[c]
  IN /\ m.mode = "account" /\ AccountBranch(m, "yes") = "delete"
     /\ Says(c, AtMenu(m))
     /\ \/ UNCHANGED rows
        \/ \E r \in RowIds : MayDelete(m, r) /\ rows' = [rows EXCEPT ![r].deleted = TRUE]
     /\ UNCHANGED <<accounts, guidCache, playing>>

BelowLimit(a) == Cardinality(CharList(a)) <= MaxCharacters    \* one more than the text says

AskName(c) ==
  LET m == talks[c]
  IN /\ m.mode = "account" /\ AccountBranch(m, "character") = "askName"
     /\ Says(c, IF BelowLimit(m.account) THEN To(m, {1}, {6}) ELSE AtMenu(m))
     /\ UNCHANGED Tables

NameNew(c, n) ==
  LET m == [talks[c] EXCEPT !.name = n]
  IN /\ m.mode = "account" /\ AccountBranch(m, n) = "name"
     /\ Says(c, IF PlayerExists(n) THEN talks[c] ELSE To(m, {6}, {7}))
     /\ guidCache' = CacheWith(n)
     /\ UNCHANGED <<rows, accounts, playing>>

(* The last "yes": the name may have been taken since it was chosen; then  *)
(* it is asked for again, and 12 stays.                                    *)
Create(c) ==
  LET m == talks[c]
  IN /\ m.mode = "account" /\ AccountBranch(m, "yes") = "create"
     /\ PlayerExists(m.name) \/ m.account \notin accounts.ids \/ \E r \in RowIds : rows[r] = NoRow
     /\ IF PlayerExists(m.name)
          THEN /\ Says(c, [To(m, {9}, {6}) EXCEPT !.name = NoName]) /\ UNCHANGED rows
          ELSE /\ Says(c, AtMenu(m)) /\ rows' = CreateCharacter(m)
     /\ guidCache' = CacheWith(m.name)
     /\ UNCHANGED <<accounts, playing>>

(* The number of a new account confirmed: the column name of table         *)
(* accounts is unique and createAccount leaves it empty, so only one can   *)
(* be created; realAccount is not set to it.                               *)
Found(c) ==
  LET m == talks[c]
      ok == ~accounts.unnamed
      asked == m.talk \ (2 .. 5)
  IN /\ m.mode = "new" /\ NewBranch(m, "yes") = "found"
     /\ IF m.number \in accounts.ids THEN /\ Says(c, [To(m, {5}, {4}) EXCEPT !.number = NoAccount])
                                      /\ UNCHANGED accounts
        ELSE /\ Says(c, [m EXCEPT !.talk = IF ok THEN asked \ {1} ELSE asked,
                                    !.mode = IF ok THEN "account" ELSE @, !.number = NoAccount])
             /\ accounts' = IF ok THEN [ids |-> accounts.ids \cup {m.number}, unnamed |-> TRUE]
                            ELSE accounts
     /\ UNCHANGED <<rows, guidCache, playing>>

------------------------------------------------------------------------------
(* A locked character chooses a new name. *)
ChooseNew(c, n) ==
  LET m == [talks[c] EXCEPT !.name = n]
  IN /\ m.mode = "lock" /\ 1 \notin m.talk
     /\ Says(c, IF PlayerExists(n) THEN talks[c] ELSE To(m, {}, {1, 2}))
     /\ guidCache' = CacheWith(n)
     /\ UNCHANGED <<rows, accounts, playing>>

DoubtNew(c) ==
  /\ talks[c].mode = "lock" /\ {1, 2} \subseteq talks[c].talk
  /\ Says(c, [To(talks[c], {1, 2}, {}) EXCEPT !.name = NoName])
  /\ UNCHANGED Tables

(* changeName: the cache follows only when it knows the old name. *)
CacheLeft(old, new, r) == [guidCache EXCEPT ![new] = r]    \* mutant: the old name stays

CacheRenamed(old, new, r) ==
  [n \in Names |-> IF n = old THEN 0 ELSE IF n = new THEN r ELSE guidCache[n]]

Rename(c) ==
  LET m == talks[c]
      r == GuidOf(m.victim)
      taken == PlayerExists(m.name)
      ok == ~taken /\ r # 0
              /\ \A q \in RowIds : rows[q].name = m.name => rows[q].deleted # rows[r].deleted
  IN /\ m.mode = "lock" /\ {1, 2} \subseteq m.talk
     /\ Says(c, [To(m, IF ok THEN {2} ELSE {1, 2}, {}) EXCEPT !.name = NoName])
     /\ rows' = IF ok THEN [rows EXCEPT ![r].name = m.name, ![r].locked = FALSE] ELSE rows
     /\ guidCache' = IF taken THEN CacheWith(m.name)
                     ELSE IF ok THEN CacheRenamed(m.victim, m.name, r)
                     ELSE CacheWith(m.victim)
     /\ UNCHANGED <<accounts, playing>>

------------------------------------------------------------------------------
(* Who comes to the account manager: the owner of an account, a newcomer,  *)
(* whose realAccount is not initialized, or a locked character.            *)
Comes(c, a) ==
  /\ talks[c] = Silent /\ a \in accounts.ids
  /\ Says(c, [Silent EXCEPT !.mode = "account", !.account = a])
  /\ UNCHANGED Tables

NewComes(c, a) ==
  /\ talks[c] = Silent
  /\ Says(c, [Silent EXCEPT !.mode = "new", !.account = a])
  /\ UNCHANGED Tables

(* loadPlayer puts every name it finds into the cache. *)
LockedComes(c, r) ==
  /\ talks[c] = Silent /\ Live(r) /\ rows[r].locked
  /\ Says(c, [Silent EXCEPT !.mode = "lock", !.account = rows[r].account,
                              !.victim = rows[r].name])
  /\ guidCache' = [guidCache EXCEPT ![rows[r].name] = r]
  /\ UNCHANGED <<rows, accounts, playing>>

Goes(c) == talks[c] # Silent /\ Says(c, Silent) /\ UNCHANGED Tables

Enters(r) ==
  /\ Live(r) /\ ~rows[r].locked /\ r \notin playing
  /\ playing' = playing \cup {r}
  /\ guidCache' = [guidCache EXCEPT ![rows[r].name] = r]
  /\ UNCHANGED <<talks, rows, accounts>>

Exits(r) ==
  /\ r \in playing /\ playing' = playing \ {r}
  /\ UNCHANGED <<talks, rows, accounts, guidCache>>

(* A gamemaster locks the name of a character that is not in game. *)
Lock(r) ==
  /\ Live(r) /\ ~rows[r].locked /\ r \notin playing
  /\ rows' = [rows EXCEPT ![r].locked = TRUE]
  /\ UNCHANGED <<talks, accounts, guidCache, playing>>

(* The server starts again. *)
Restart ==
  /\ talks' = [c \in Clients |-> Silent]
  /\ guidCache' = [n \in Names |-> 0] /\ playing' = {}
  /\ UNCHANGED <<rows, accounts>>

ManagerNext ==
  \/ \E c \in Clients :
       \/ \E t \in Texts \cup Names \cup AccountIds : Chat(c, t)
       \/ Delete(c) \/ AskName(c) \/ Create(c) \/ Found(c) \/ DoubtNew(c) \/ Rename(c) \/ Goes(c)
       \/ \E n \in Names : NameNew(c, n) \/ ChooseNew(c, n)
       \/ \E a \in AccountIds : Comes(c, a)
       \/ \E a \in AccountIds \cup {NoAccount} : NewComes(c, a)
       \/ \E r \in RowIds : LockedComes(c, r)
  \/ \E r \in RowIds : Enters(r) \/ Exits(r) \/ Lock(r)
  \/ Restart

ManagerSpec == ManagerInit /\ [][ManagerNext]_managerVars

------------------------------------------------------------------------------
(* The cache leads every name to the row that bears it, also after the     *)
(* character was renamed or deleted.                                       *)
CacheIsTrue == \A n \in Names : guidCache[n] # 0 => rows[guidCache[n]].name = n

(* Who is in game is not deleted, although "delete" was asked for earlier  *)
(* and the character may have come in since.                               *)
PlayersAreLive == \A r \in playing : Live(r)

(* No character is created before its sex, and its vocation where it is    *)
(* asked for, were chosen, whatever answers the dialogue got out of turn.  *)
BornComplete ==
  \A r \in RowIds : rows[r] # NoRow =>
    rows[r].made = IF ChooseVocation THEN {"sex", "vocation"} ELSE {"sex"}

(* Dialogues with several clients at once keep cache and tables true, do   *)
(* not delete who plays, and make whole characters only.                   *)
DialoguesSafe == AccountTypeOK /\ CacheIsTrue /\ PlayersAreLive /\ BornComplete
=============================================================================
