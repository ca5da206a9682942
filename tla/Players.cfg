\* Three players, two parties, a bag, a box and a coin to trade, two channels.
SPECIFICATION Spec
CONSTANTS
  p1 = p1
  p2 = p2
  p3 = p3
  Players = {p1, p2, p3}
  NoPlayer = NoPlayer
  party1 = party1
  party2 = party2
  Parties = {party1, party2}
  NoParty = NoParty
  MaxGone = 1
  Goods = {bag, box, coin}
  NoGood = NoGood
  Boxes = {bag, box}
  Ground = Ground
  Gone = Gone
  Slots = 1
  BoxRoom = 1
  MaxChannel = 2
  MaxReloads = 1
SYMMETRY Symmetry
INVARIANTS TradeFair
PROPERTIES PartyKept ChannelsKept
\* Every bound may be used up.
CHECK_DEADLOCK FALSE
