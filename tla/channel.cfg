CONSTANTS
  w1 = w1
  w2 = w2
  r1 = r1
  r2 = r2
  Close = Close
  None = None
  Writers = {w1, w2}
  Readers = {r1, r2}
  Inline = {}
  Capacities = {0, 1}
SPECIFICATION FairSpec
INVARIANTS
  NobodyWaitsInVain
  ResumedOnce
PROPERTIES
  ImplementsFifo
  CloseEndsWaiting
CHECK_DEADLOCK FALSE
