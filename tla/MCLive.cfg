CONSTANTS
  o1 = o1  o2 = o2  w1 = w1  w2 = w2  h1 = h1  bingx = bingx
  p1 = p1  t1 = t1  c1 = c1  v1 = v1  None = None
  Orders = {o1, o2}
  Kind <- BuyKind
  Notes <- BuyNotes
  Handlers = {h1}
  Workers = {w1, w2}
  Providers = {bingx}
  Quoted <- BuyQuoted
  HotFirst = {o1}
  HotPair = {o1}
  Rejected = {}
  NoOrder = NoOrder
  SignerMode = "signer"
  MaxFails = 2
SPECIFICATION FairSpecAll
PROPERTIES PaidIsSettled PaymentsEnd BusGoesOn
CHECK_DEADLOCK FALSE
