\* A run of the payout job dies between the credit and the gateway.
SPECIFICATION SendingSpec
CONSTANTS
    Users = {u1}
    Sales = {1, 2}
    Admins = {a1}
    Jobs = {j1}
    Earnings = {25}
    BatchSize = 1
    GatewayKeeps = TRUE
CHECK_DEADLOCK FALSE
PROPERTIES
    PendingIsSent
