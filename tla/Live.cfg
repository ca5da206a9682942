\* One item that decays through three buckets, two orders of the administrator,
\* two ordinary, two premium and a privileged character who wait for two places,
\* a session of two clients, and two bags and three pieces on a body and the floor.
SPECIFICATION LiveSpec
CONSTANTS
  Things = {i1}
  Buckets = 3
  MaxDuration = 13
  BurnTime = 8
  EmberTime = 2
  MaxPlaces = 2
  MaxOrders = 2
  n1 = n1
  n2 = n2
  Names = {n1, n2, n3, n4, n5}
  Privileged = {n5}
  Premium = {n3, n4}
  PremiumSkips = FALSE
  MaxPlayers = 2
  c1 = c1
  c2 = c2
  NoClient = NoClient
  p1 = p1
  p2 = p2
  NoPlayer = NoPlayer
  Gone = Gone
  NoName = NoName
  Bags = {1, 2}
  Worlds = {{1}, {1, 2}}
  Pieces = {3, 4, 5}
  Gifts <- Gems
  MaxGiven = 1
  MaxThings = 4
  MaxStack = 2
  BagRoom = 2
  FreeWeight = 5
  Prices = {3}
  Floor = Floor
  Body = Body
  Back = Back
  Hand = Hand
  Void = Void
PROPERTIES DecayKept StateKept SavesContinue TurnsRespected PatienceIsRewarded
  GoneIsDeleted GoodsConserved
\* The server may shut down.
CHECK_DEADLOCK FALSE
