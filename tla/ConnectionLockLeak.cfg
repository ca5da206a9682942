\* No write fails and the network thread never sends.
SPECIFICATION FairSpec
CONSTANTS
  m1 = m1
  m2 = m2
  m3 = m3
  Msgs = {m1, m2}
  NoMsg = NoMsg
  CanPlay = TRUE
  NetSends = FALSE
  WriteFails = FALSE
PROPERTY OldMessagesLeave
CHECK_DEADLOCK FALSE
