\* A race of two automatic activities, and replicas of every mode.
CONSTANTS
  o1 = o1
  o2 = o2
  w1 = w1
  w2 = w2
  c1 = c1
  m1 = m1
  m2 = m2
  m3 = m3
  None = None
  Orders = {o1, o2}
  Workers = {w1, w2, m1, m2, m3}
  Calls = {c1}
  Mode <- ModeOf
  NoPixKey = {}
  BadAmount = {o2}
  MinNotFound = 2
  MaxCrashes = 1
SPECIFICATION SpecAll
SYMMETRY PairSymmetry
CHECK_DEADLOCK FALSE
INVARIANTS
  OnePixPerOrder
  ConcludedIsPaid
  SubmissionsAreSafe
PROPERTIES
  ImplementsPromise
