SPECIFICATION SpecAll
CONSTANTS
    NodeCount = 2
    Calls = {c1, c2}
    MaxFailures = 1
    HalfOpenSuccess = 2
    MaxAttempts = 5
    None = None
    r1 = r1
    r2 = r2
    s1 = s1
    k1 = k1
    k2 = k2
    k3 = k3
    b1 = b1
    b2 = b2
    b3 = b3
INVARIANTS
    ProbeIsNeverStuck
    RetriesElsewhere
    MoneyMovesOnce
    MessagesReachOnce
    CustomersAreKnown
    RoutesAreTrue
PROPERTY
    DeletionHolds
CHECK_DEADLOCK FALSE
