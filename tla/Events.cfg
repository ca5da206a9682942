\* Three events of two delays, added by two threads; the ids do not wrap;
\* a character that walks two steps.
SPECIFICATION EventsSpec
CONSTANTS
  th1 = th1
  th2 = th2
  e1 = e1
  e2 = e2
  e3 = e3
  Threads = {th1, th2}
  Events = {e1, e2, e3}
  NoEvent = NoEvent
  Delays = {1, 2}
  MaxId = 3
  MaxTime = 3
  Spurious = TRUE
  MaxSteps = 2
  MaxEvents = 4
  MaxQueue = 2
SYMMETRY Symmetry
INVARIANTS EventsAccounted NoOversleep WalksKept
PROPERTIES ImplementsEventService EarlyOnlyFromEmptyWait
\* The events and the time may be used up.
CHECK_DEADLOCK FALSE
