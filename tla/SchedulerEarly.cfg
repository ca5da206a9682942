\* An event comes to an empty list.
SPECIFICATION Spec
CONSTANTS
  th1 = th1
  th2 = th2
  e1 = e1
  e2 = e2
  e3 = e3
  Threads = {th1}
  Events = {e1, e2}
  NoEvent = NoEvent
  Delays = {1, 2}
  MaxId = 2
  MaxTime = 3
  Spurious = FALSE
PROPERTY RunOnlyWhenDue
CHECK_DEADLOCK FALSE
