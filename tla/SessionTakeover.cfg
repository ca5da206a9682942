\* The configuration of Session.cfg, for the comment in ProtocolGame::login.
SPECIFICATION Spec
CONSTANTS
  c1 = c1
  c2 = c2
  c3 = c3
  p1 = p1
  p2 = p2
  p3 = p3
  n1 = n1
  n2 = n2
  n3 = n3
  Clients = {c1, c2, c3}
  NoClient = NoClient
  Players = {p1, p2}
  NoPlayer = NoPlayer
  Gone = Gone
  Names = {n1, n2, n3}
  NoName = NoName
  Privileged = {n3}
  Accounts = {{n1, n2}, {n3}}
  MaxPending = 0
  GameStates = {"normal", "closed"}
SYMMETRY Symmetry
INVARIANT OneTakeover
