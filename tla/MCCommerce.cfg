SPECIFICATION SpecAll
CONSTANTS
    t1 = t1
    t2 = t2
    x1 = x1
    x2 = x2
    k1 = k1
    k2 = k2
    c1 = c1
    c2 = c2
    p1 = p1
    p2 = p2
    p3 = p3
    x3 = x3
    k3 = k3
    o1 = o1
    o2 = o2
    None = None
    Trades = {t1, t2}
    Txs = {x1, x2}
    Keys = {k1, k2}
    Calls = {c1, c2}
    Purchases = {p1, p2, p3}
    Quotes = {p3}
    Transfers = {x3}
    RequestKeys = {k3}
    Handlers = {c1, c2}
    QuotaOf <- Quota
    Limit = 2
    CreditLimit = 1
    Orders = {o1, o2}
    Onchain = {o2}
    QuoteOf <- GiftQuotes
    Funds = 2
    Workers = {c1, c2}
    NoOrder = NoOrder
    Risk = Risk
    Nothing = Nothing
INVARIANT SettlesWhatWasPaid
INVARIANT UseIsPaidOnce
INVARIANT GiftBooksAreTrue
SYMMETRY Interchangeable
CHECK_DEADLOCK FALSE
