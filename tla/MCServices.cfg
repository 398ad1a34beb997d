CONSTANTS
  w1 = w1  w2 = w2  w3 = w3  p1 = p1  t1 = t1  c1 = c1  c2 = c2
  v1 = v1  a1 = a1  a2 = a2  x1 = x1  g1 = g1  g2 = g2  g3 = g3  s1 = s1  s2 = s2  None = None
  Payments = {p1}
  Txs = {t1}
  Unpayable = {}
  Calls = {c1, c2}
  Workers = {w1, w2}
  RefundWorkers = {v1}
  MaxAttempts = 2
  MaxRefundAttempts = 2
  MinNotFound = 2
  Auths = {a1, a2}
  HeldBefore = {a1}
  TokenOf <- TapTokens
  Funds = 1
  Goroutines = {w1, w2, w3}
  AutoWorkers = {w1, w2}
  NoPixKey = {}
  MaxRuns = 2
  NotFoundMin = 2
  NoAuth = NoAuth
  Windows = {x1}
  Executors = {w1, w2}
  Budget = 3
  Prices = {1, 2}
  NoWindow = NoWindow
  Relays = {g1, g2, g3}
  SigOf <- OneSentTwice
  Batch = 2
SPECIFICATION SpecAll
SYMMETRY Interchangeable
INVARIANTS
  PaymentBooksAreTrue
  TapBooksAreTrue
  DcaBooksAreTrue
  RelayPaysOnce
PROPERTIES CompletedIsFinal
CHECK_DEADLOCK FALSE
