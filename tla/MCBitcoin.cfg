SPECIFICATION SpecAll
CONSTANTS
    o1 = o1
    o2 = o2
    u1 = u1
    u2 = u2
    u3 = u3
    w1 = w1
    w2 = w2
    s1 = s1
    s2 = s2
    k1 = k1
    r1 = r1
    None = None
    Sends = {s1, s2}
    Coins = {k1}
    PerSend = 1
    Trackers = {r1}
    NoOrder = NoOrder
    Orders = {o1, o2}
    Utxos = {u1, u2, u3}
    Workers = {w1, w2}
    Need <- Needs
    MinReserve = 0
    BingX = TRUE
    MaxFails = 1
INVARIANT TreasuryPaysOnce
INVARIANT InputsServeOrders
INVARIANT WalletBooksAreTrue
SYMMETRY Interchangeable
CHECK_DEADLOCK FALSE
