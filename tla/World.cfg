\* Two monsters and a player who commands them, two raids of two events, two
\* clients of the account manager, and two players, both gamemasters, with two
\* guilds.
SPECIFICATION Spec
CONSTANTS
  Masters = {hero}
  x1 = x1
  x2 = x2
  Beasts = {x1, x2}
  NoMaster = NoMaster
  RefTypes = {"single", "block"}
  LastEvent = 2
  Spawned = {x1, x2}
  NoRaid = NoRaid
  MaxRaidReloads = 1
  MaxChecks = 2
  SaveHours = {0, 1, 8, 23, 24}
  SaveMinutes = {0, 1, 2, 4, 5, 6, 30, 59}
  StartHours = {0, 1, 7, 8, 23}
  StartMinutes <- NearTheHour
  MaxSaves = 2
  c1 = c1
  c2 = c2
  Clients = {c1, c2}
  Names = {x1, x2}
  NoName = NoName
  AccountIds = {a1}
  NoAccount = NoAccount
  MaxCharacters = 0
  MaxRows = 2
  Texts = {"account", "cancel", "delete", "yes", "no", "character", "secret", "male", "knight"}
  ChooseVocation = TRUE
  Players = {p1, p2}
  NoPlayer = NoPlayer
  Gamemasters = {p1, p2}
  MaxGuild = 2
SYMMETRY Symmetry
INVARIANTS RaidsKept PlansKept DialoguesSafe
PROPERTIES SummonsKept ReportsKept GuildsKept
\* Every bound may be used up.
CHECK_DEADLOCK FALSE
