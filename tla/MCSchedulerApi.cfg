CONSTANTS
  t0 = t0  t1 = t1  t2 = t2  t3 = t3  q1 = q1  q2 = q2
  vi = vi  sp = sp  host = host  m1 = m1  m2 = m2
  Threads = {t0, t1, t2}
  Idle = t0
  MQs = {q1}
  Capacities <- MCOneTwo
  Priorities <- MCPriorities
  EventSources = {}
  RequeueSources = {}
  HostThreads = {}
  GameMsgs = {m1, m2}
  Victims = {t1}
  MaxExternal = 0
  Null = Null
SPECIFICATION Spec
CHECK_DEADLOCK FALSE
SYMMETRY Messages
INVARIANTS SchedInv
PROPERTIES ImplementsFifo
