\* Two plain tasks and one whose body is Game::shutdown.
SPECIFICATION FairSpec
CONSTANTS
  net = net
  sched = sched
  t1 = t1
  t2 = t2
  t3 = t3
  t4 = t4
  Threads = {net}
  Dis = Dis
  NoThread = NoThread
  Tasks = {t1, t2, t4}
  NoTask = NoTask
  Expiring = {}
  StopTasks = {}
  ShutdownTasks = {t4}
PROPERTY ShutdownExits
CHECK_DEADLOCK FALSE
