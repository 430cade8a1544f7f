\* The mock gateway forgets its keys between two runs of one process.
SPECIFICATION PayoutsSpec
CONSTANTS
    Users = {u1}
    Sales = {1, 2}
    Admins = {a1}
    Jobs = {j1}
    Earnings = {25}
    BatchSize = 2
    GatewayKeeps = FALSE
CHECK_DEADLOCK FALSE
INVARIANTS
    PaidOnce
