CONSTANTS
  o1 = o1  o2 = o2  w1 = w1  w2 = w2  h1 = h1  h2 = h2  bingx = bingx
  k1 = k1  k2 = k2  k3 = k3  r1 = r1  r2 = r2  r3 = r3  r4 = r4  s1 = s1  s2 = s2  s3 = s3
  d1 = d1  v1 = v1  v2 = v2  None = None
  Sends = {s1, s2, s3}
  KeyOfSend <- WithdrawalKeys
  Replicas = {v1, v2}
  Deposits = {d1}
  NoSig = NoSig
  Requests = {r1, r2, r3, r4}
  KeyOf <- RequestKeys
  Sponsored = {k1}
  Orders = {o1, o2}
  Kind <- MixedKind
  Notes <- MixedNotes
  Handlers = {h1, h2}
  Workers = {w1, w2}
  Providers = {bingx}
  Quoted <- FirstQuoted
  HotFirst = {o1, o2}
  HotPair = {o1, o2}
  Rejected = {}
  NoOrder = NoOrder
  SignerMode = "signer"
  MaxFails = 1
SPECIFICATION SpecAll
SYMMETRY Interchangeable
INVARIANTS HotWalletOnce FailedIsUndelivered DeliveredWasPaid SentIsDelivered PaymentCounts TransferMovesOnce SolanaMovesOnce
PROPERTIES SentIsFinal
CHECK_DEADLOCK FALSE
