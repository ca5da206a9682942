\* Four tasks posted by two threads and by the running task, one of them
\* expiring, one that stops and one that shuts the dispatcher down; two events
\* whose ids wrap at once.  No symmetry, for the liveness.
SPECIFICATION ThreadsSpec
CONSTANTS
  net = net
  sched = sched
  t1 = t1
  t2 = t2
  t3 = t3
  t4 = t4
  Threads = {net, sched}
  Dis = Dis
  NoThread = NoThread
  Tasks = {t1, t2, t3, t4}
  NoTask = NoTask
  Expiring = {t1, t2}
  StopTasks = {t3}
  ShutdownTasks = {t4}
  th1 = th1
  th2 = th2
  e1 = e1
  e2 = e2
  NoEvent = NoEvent
INVARIANTS TypeOK OneOwner NoLostWakeup FifoOrder
PROPERTIES AcceptedTaskEnds EventEnds
\* The process exits, and all that may happen may have happened.
CHECK_DEADLOCK FALSE
