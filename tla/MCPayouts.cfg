\* Two processes run the payout job over two sales while two administrators reconcile.
SPECIFICATION PayoutsSpec
CONSTANTS
    Users = {u1, u2}
    Sales = {1, 2}
    Admins = {a1, a2}
    Jobs = {j1, j2}
    Earnings = {25}
    BatchSize = 1
    GatewayKeeps = TRUE
SYMMETRY MCPayoutSymmetry
CHECK_DEADLOCK FALSE
INVARIANTS
    PayoutsTypeOK
    AdvanceCreditedOnce
    ExcessIsOneAdvance
    BooksAgree
    PayoutTellsTruth
PROPERTIES
    ReconciliationExact
    ImplementsDisbursement
