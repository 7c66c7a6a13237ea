CONSTANTS
  p1 = p1
  s1 = s1
  s2 = s2
  m1 = m1
  m2 = m2
  t1 = t1
  t2 = t2
  Remote = Remote
  None = None
  Pubs = {p1}
  Subs = {s1, s2}
  Messages = {m1, m2}
  Takers = {t1, t2}
  PubOf <- OnePub
  CallbackOf <- Kinds
  Size = 1
SPECIFICATION Spec
INVARIANTS
  AtMostOnce
  MissedOnlyIfDisplaced
  BufferOwnership
SYMMETRY Symmetry
CHECK_DEADLOCK FALSE
