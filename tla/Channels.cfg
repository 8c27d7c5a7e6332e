\* Three requests of a page; three messages of a peer in every cut; four files of
\* one record, and a fifth record to overwrite the oldest.
SPECIFICATION MCSpec
CONSTANTS
    None = None
    Requests = {r1, r2, r3}
    Payloads <- MCPayloads
    Base = 2
    PrefixBytes = 2
    MaxReadLength = 2
    MaxSent = 3
    MaxThrows = 1
    NoRecord = NoRecord
    MaxFiles = 4
    MaxSize = 1
    FileQueueCap = 2
    MaxAppends = 5
    MaxFileFailures = 2
    MaxRestarts = 1
INVARIANTS SettledOnce OwnAnswer FailsClosed CloseReportsLoss KeptInOrder
PROPERTIES PromisesSettle ImplementsChannel EverythingArrives CloseEnds
CHECK_DEADLOCK FALSE
