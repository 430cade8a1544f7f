\* An advance is drawn, the sale rejected, and the withdrawal cancelled; its owner
\* then keeps asking for the amount with the second key.
SPECIFICATION SystemFairSpec
CONSTANTS
    Users = {u1}
    Wids = {w1}
    Keys = {k1, k2}
    Workers = {s1}
    Amounts = {2}
    MinAmount = 1
    Threshold = 2
    BatchSize = 1
    ViaApi = FALSE
    None = None
    Sales = {1}
    Admins = {a1}
    Jobs = {j1}
    Earnings = {20}
    GatewayKeeps = TRUE
CHECK_DEADLOCK FALSE
PROPERTY
    BalanceFollowsLedger
