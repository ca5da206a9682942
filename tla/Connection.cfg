\* Three messages; everything may happen.  No symmetry, for the liveness.
SPECIFICATION FairSpec
CONSTANTS
  m1 = m1
  m2 = m2
  m3 = m3
  Msgs = {m1, m2, m3}
  NoMsg = NoMsg
  CanPlay = TRUE
  NetSends = TRUE
  WriteFails = TRUE
INVARIANTS DeletedWhenUnused OutputComplete
PROPERTIES ConnectionReleased OldMessagesLeaveWhileOpen
\* The two threads can block each other for ever: see Blocked.
CHECK_DEADLOCK FALSE
