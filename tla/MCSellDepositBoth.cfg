SPECIFICATION SpecAll
CONSTANTS
    o1 = o1
    o2 = o2
    o3 = o3
    t1 = t1
    t2 = t2
    p1 = p1
    p2 = p2
    Orders = {o1, o2}
    Txs = {t1, t2}
    Pollers = {p1, p2}
    OrderAddr <- SharedOrders
    OrderAmount <- FullAmounts
    TxAddr <- ToShared
    TxAmount <- AllFull
    Confirmations = 1
    ScanRange = 2
    Lookback = 3
    MaxLookback = 4
    MaxBlock = 3
    MaxErrors = 1
    NoTx = NoTx
    i1 = i1
    i2 = i2
    q1 = q1
    q2 = q2
    q3 = q3
    q4 = q4
    c1 = c1
    c2 = c2
    r1 = r1
    u1 = u1
    None = None
    Intents = {i1, i2}
    Cards = {i2}
    RequiredOf <- Asked
    Deposits = {t1, t2}
    AmountOf <- Carried
    Settlers = {p1, p2}
    MaxAttempts = 2
    DailyCap = 2
    Keys = {1, 2}
    Quotes = {q1, q2, q3, q4}
    Carries <- AnyQuote
    Ending = {q1, q3}
    SideOf <- Sides
    TradeOrders = {1, 2}
    Calls = {c1, c2}
    Replicas = {r1}
    Outpoints = {u1}
    Values = {1, 2}
    Expected <- Alike
    Null = Null
INVARIANT OneOrderPerTx
INVARIANT PaidByConfirmedDeposit
INVARIANT M2MPaysOnce
INVARIANT OwnDepositIsHandled
INVARIANT TradesAreSound
PROPERTY NoPayoutAfterExpiry
SYMMETRY PollerSymmetry
CHECK_DEADLOCK FALSE
