\* Two overlapping requests, each for more than half of a user's money and large
\* enough for the ledger check.
SPECIFICATION Spec
CONSTANTS
    Users = {u1}
    Wids = {w1, w2}
    Keys = {k1, k2}
    Workers = {s1, s2}
    Amounts = {2}
    MinAmount = 1
    Threshold = 2
    BatchSize = 2
    Opening <- MCOpening
    ViaApi = TRUE
    None = None
CHECK_DEADLOCK FALSE
INVARIANT
    SecondRequestIsStopped
