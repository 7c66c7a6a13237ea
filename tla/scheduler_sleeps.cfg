CONSTANTS
  i1 = i1
  i2 = i2
  i3 = i3
  None = None
  Items = {i1, i2, i3}
  Delay <- Unequal
  StopCalls = {"wait", "clear"}
  MaxTime = 1
SPECIFICATION FairSpec
PROPERTIES
  ImplementsSleeps
  AcceptedRuns
CHECK_DEADLOCK FALSE
