\* Two workers race over two withdrawals of one user, with the recovery job and crashes.
SPECIFICATION FairSpec
CONSTANTS
    Users = {u1}
    Wids = {w1, w2}
    Keys = {k1, k2}
    Workers = {s1, s2}
    Amounts = {0, 2}
    MinAmount = 1
    Threshold = 2
    BatchSize = 2
    Opening <- MCOpening
    ViaApi = FALSE
    None = None
CHECK_DEADLOCK FALSE
INVARIANTS
    TypeOK
    SnapshotsHold
    SettledExactlyOnce
    LedgerBalancesBooks
    CacheNeverBelowLedger
    AuditReplaysStatus
    KeyUsedOnce
PROPERTIES
    DriftStartsWithOverdraft
    StatusFollowsMachine
    ImplementsEscrow
    StuckIsSettled
    OverdraftNeedsRace
