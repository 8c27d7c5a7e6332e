\* Three records in batches of two, of which one is refused for its token.
SPECIFICATION FirehoseSpec
CONSTANTS
    Loads = {l1, l2}
    Null = Null
    LogQueueMaxRecords = 2
    BatchSize = 2
    MaxLogged = 3
    MaxForced = 0
    MaxMishaps = 1
INVARIANT ExpiredIsRetried
CHECK_DEADLOCK FALSE
