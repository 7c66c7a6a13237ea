CONSTANTS
  t1 = t1
  t2 = t2
  s1 = s1
  s2 = s2
  x1 = x1
  v1 = v1
  k1 = k1
  w1 = w1
  g1 = g1
  g2 = g2
  c1 = c1
  c2 = c2
  c3 = c3
  None = None
  Sched = Sched
  Threads = {t1, t2}
  Timers = {}
  Subs = {s1, s2}
  Services = {}
  Clients = {}
  Waitables = {}
  CoSubs = {s2}
  IntraSubs = {}
  Throws = {}
  Groups = {g1}
  MutuallyExclusive = {g1}
  GroupOf <- OneGroup
  Coros = {c1}
  StopCalls = {"cancel", "shutdown"}
  MaxMsgs = 1
  MaxAwaits = 1
  MaxSpins = 1
SPECIFICATION FairSpec
PROPERTIES
  DataIsTaken
  StopEndsSpin
CHECK_DEADLOCK FALSE
