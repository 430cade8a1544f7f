\* An administrator reconciles a sale while the payout job has it on its page.
SPECIFICATION PayoutsSpec
CONSTANTS
    Users = {u1}
    Sales = {1}
    Admins = {a1}
    Jobs = {j1}
    Earnings = {25}
    BatchSize = 1
    GatewayKeeps = TRUE
CHECK_DEADLOCK FALSE
INVARIANTS
    SettledExactly
