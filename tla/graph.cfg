CONSTANTS
  n1 = n1
  n2 = n2
  u1 = u1
  u2 = u2
  Nodes = {n1, n2}
  Users = {u1, u2}
  MaxEvents = 2
  MaxChanges = 1
SPECIFICATION GraphSpec
INVARIANTS
  NoDanglingNode
PROPERTIES
  EventsReachWaiters
  CallsEnd
CHECK_DEADLOCK FALSE
