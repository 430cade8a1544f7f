\* Three threads serve first attempts and retries of two keys.
SPECIFICATION IdempotencySpec
CONSTANTS
    Keys = {k1, k2}
    Threads = {t1, t2, t3}
SYMMETRY MCIdempotencySymmetry
INVARIANTS
    IdempotencyTypeOK
    ExecutedAtMostOnce
    AnswersAgree
PROPERTIES
    ResponseIsFinal
