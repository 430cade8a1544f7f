\* Administrators act through the API and try everything it offers.
SPECIFICATION AdminSpec
CONSTANTS
    Users = {u1}
    Wids = {w1, w2}
    Keys = {k1, k2}
    Workers = {s1}
    Amounts = {2}
    MinAmount = 1
    Threshold = 2
    BatchSize = 1
    Opening <- MCOpening
    ViaApi = TRUE
    None = None
CHECK_DEADLOCK FALSE
PROPERTY
    PendingIsTakenUp
