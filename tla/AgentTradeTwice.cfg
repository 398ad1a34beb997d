SPECIFICATION Spec
CONSTANTS
    None = None
    Trades = {t1}
    Txs = {x1}
    Keys = {k1, k2}
    Calls = {c1}
INVARIANT SettledOnce
CHECK_DEADLOCK FALSE
