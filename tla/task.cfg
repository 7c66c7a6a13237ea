CONSTANTS
  c1 = c1
  c2 = c2
  c3 = c3
  a1 = a1
  g1 = g1
  Owner = Owner
  None = None
  Flavours = {"value", "void"}
  Outcomes = {"value", "exception"}
  Callbacks = {c1, c2, c3}
  KindOf <- Kinds
  Awaiters = {a1}
  InlineExec = FALSE
  Getters = {g1}
  Sources <- MCSources
  Pipelines <- MCPipelines
SPECIFICATION MCSpec
INVARIANTS
  RunsAtMostOnce
  StreamsAreLazyLists
PROPERTIES
  CompletionReachesAll
CHECK_DEADLOCK FALSE
