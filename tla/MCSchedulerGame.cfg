CONSTANTS
  t0 = t0  t1 = t1  t2 = t2  t3 = t3  q1 = q1  q2 = q2
  vi = vi  sp = sp  host = host  m1 = m1  m2 = m2
  Threads = {t0, t1, t2}
  Idle = t0
  MQs = {q1}
  Capacities <- MCOne
  Priorities <- MCTwoLevels
  EventSources = {sp}
  RequeueSources = {sp}
  HostThreads = {host}
  GameMsgs = {m1}
  Victims = {}
  MaxExternal = 2
  Null = Null
SPECIFICATION Spec
SYMMETRY Workers
INVARIANTS TypeOK OneQueue ListsSorted HighestPriorityRuns NeverOutOfThreads NoLostWakeup
PROPERTIES RequeuedEventsKept
CHECK_DEADLOCK FALSE
