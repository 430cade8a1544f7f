\* One worker, one administrator, both jobs.
SPECIFICATION SystemSpec
CONSTANTS
    Users = {u1}
    Wids = {w1, w2}
    Keys = {k1, k2}
    Workers = {s1}
    Amounts = {1, 2}
    MinAmount = 1
    Threshold = 2
    BatchSize = 1
    ViaApi = FALSE
    None = None
    Sales = {1}
    Admins = {a1}
    Jobs = {j1}
    Earnings = {20}
    GatewayKeeps = TRUE
CHECK_DEADLOCK FALSE
SYMMETRY MCSystemSymmetry
INVARIANTS
    SystemBooks
    ShortfallIsAdvances
    DrawnWasGranted
PROPERTIES
    WithdrawalsStayEscrow
