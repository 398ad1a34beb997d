\* Liveness under fairness: recovery closes paid orders, ambiguity resolves.
CONSTANTS
  o1 = o1
  o2 = o2
  w1 = w1
  w2 = w2
  m1 = m1
  m2 = m2
  m3 = m3
  c1 = c1
  None = None
  Orders = {o1}
  Workers = {w1, w2}
  Calls = {}
  Mode <- AllAuto
  NoPixKey = {}
  BadAmount = {}
  MinNotFound = 2
  MaxCrashes = 1
SPECIFICATION FairAutoSpec
CHECK_DEADLOCK FALSE
PROPERTIES
  AmbiguousResolves
