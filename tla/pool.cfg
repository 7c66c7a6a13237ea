CONSTANTS
  f1 = f1
  f2 = f2
  None = None
  N = 2
  Funcs = {f1, f2}
  Kinds = {"pool", "looper"}
  StopCalls = {"wait", "all", "one"}
SPECIFICATION FairSpec
INVARIANTS
  InOrder
  NothingLeft
PROPERTIES
  AcceptedRuns
CHECK_DEADLOCK FALSE
