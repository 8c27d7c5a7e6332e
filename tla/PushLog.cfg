\* Two fetches and two PUTs overlap, one request fails; three records, a cap of two.
SPECIFICATION MCSpec
CONSTANTS
    NoFetch = NoFetch
    Fetches = {f1, f2}
    Puts = {u1, u2}
    QueueDepth = 2
    QueueCap = 2
    MaxRecords = 3
    MaxCalls = 1
    MaxFailures = 1
    Loads = {l1, l2}
    Null = Null
    LogQueueMaxRecords = 2
    BatchSize = 2
    MaxLogged = 4
    MaxForced = 1
    MaxMishaps = 2
    Categories = {"net", "db"}
    LogLevels = {1, 2}
    LogAppenders = {"console", "a", "broken", "c", "d"}
    Console = "console"
    Given = {"a", "broken"}
    Throwing = {"broken"}
    Contexts <- MCContexts
    Tasks = {t1, t2, t3}
    NoLevel = 9
    MaxSettings = 2
    Deferreds = {d1, d2}
    Results = {"r1", "r2"}
INVARIANTS EachRecordOnce NobodyForgotten PutOnceInOrder RecordsAreRouted StatusIsThePromise
PROPERTY RecordsArrive
CHECK_DEADLOCK FALSE
