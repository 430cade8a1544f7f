\* One request and its retries.
SPECIFICATION IdempotencyFairSpec
CONSTANTS
    Keys = {k1}
    Threads = {t1, t2}
PROPERTIES
    KeyGetsResponse
