CONSTANTS
  c1 = c1
  c2 = c2
  t1 = t1
  s1 = s1
  k1 = k1
  Contexts = {c1, c2}
  DefaultContext = c1
  ShutdownOnSigint = {c1}
  Callers = {t1}
  Sleepers = {s1}
  Callbacks = {k1}
  CallbackContext <- OfDefault
  MaxInits = 2
  MaxSignals = 1
  MaxSleep = 1
SPECIFICATION Spec
INVARIANTS
  CallbacksCalledOnce
  SleptWholeTime
PROPERTIES
  SignalShutsDown
  WaitersLeave
