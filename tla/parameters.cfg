CONSTANTS
  c1 = c1
  c2 = c2
  Clocks = {c1, c2}
  MaxClockMsgs = 1
  MaxCalls = 3
  MaxRequests = 1
  YamlFiles <- MCYamlFiles
  NodeName <- MCNodeName
  ArgOverrides <- MCArgOverrides
  Rejected <- MCRejected
  Defaults <- MCDefaults
  ParamLists <- MCParamLists
  Requests <- MCRequests
  Max64 = 31
  Max32 = 3
  Second = 4
  Scale = 3
SYMMETRY Symmetry
SPECIFICATION MCSpec
INVARIANTS
  StoreKept
  TimeFollows
  RequestsAnswered
  ArithmeticCorrect
CHECK_DEADLOCK FALSE
