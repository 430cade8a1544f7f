\* One process, two sales and pages of one row: the offset jumps over rows.
SPECIFICATION PayoutsFairSpec
CONSTANTS
    Users = {u1}
    Sales = {1, 2}
    Admins = {a1}
    Jobs = {j1}
    Earnings = {25}
    BatchSize = 1
    GatewayKeeps = TRUE
CHECK_DEADLOCK FALSE
PROPERTIES
    AdvanceComes
