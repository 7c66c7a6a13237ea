CONSTANTS
  t1 = t1
  t2 = t2
  s1 = s1
  s2 = s2
  x1 = x1
  v1 = v1
  k1 = k1
  w1 = w1
  g1 = g1
  g2 = g2
  c1 = c1
  c2 = c2
  c3 = c3
  None = None
  Sched = Sched
  Threads = {t1, t2}
  Timers = {x1}
  Subs = {s1}
  Services = {v1}
  Clients = {}
  Waitables = {}
  CoSubs = {s1}
  IntraSubs = {s1}
  Throws = {s1}
  Groups = {g1, g2}
  MutuallyExclusive = {g1}
  GroupOf <- TimersApart
  Coros = {c1, c2}
  StopCalls = {"cancel", "shutdown"}
  MaxMsgs = 1
  MaxAwaits = 1
  MaxSpins = 2
SPECIFICATION Spec
SYMMETRY Symmetry
INVARIANTS
  GroupExclusion
  TimerExclusion
  AssertNotTaken
  ListedOnce
  ReturnedIsErased
CHECK_DEADLOCK FALSE
