CONSTANTS
  ProgramNames <- AllPrograms
  MaxTicks = 2
  MaxTunings = 5
  MaxOps = 3
  Registered <- OneNode
  Graphs <- SmallGraphs
  Sizes <- SmallSizes
  HardwareThreads = 4
  Units = {40, 700}
  KernelTimes = {350, 640}
  Jitter = {10}
  Rands = {0, 9}
SPECIFICATION Spec
INVARIANTS
  WaitSeesRegistration
  ProgramsEnd
  PlanIsSound
PROPERTIES
  LastMessageArrives
  StopsOnSignal
CHECK_DEADLOCK FALSE
