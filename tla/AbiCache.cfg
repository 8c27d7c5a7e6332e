\* Two lookups of two accounts; bodies that just fit and that do not.
SPECIFICATION MCSpec
CONSTANTS
    Calls = {c1, c2}
    Unknown = Unknown
    MaxBytes = 3
    InitialBytes = 1
    HasAbort = TRUE
    Bodies = {3, 4}
    Accounts = {k1, k2}
    Lookups = {l1, l2}
    Sources = {s1}
    Chain = Chain
    None = None
    MaxSets = 1
    Pushes = {p1, p2}
    Forms <- MCForms
    Final = {p1}
    Keys = {"k1", "ed"}
    KeyType <- MCKeyTypes
    Nobody = "nobody"
    SecondsAhead = 1
    BlocksPerSecond = 2
    FirstBlock = 3
    MaxHead = 5
    MaxMishaps = 1
INVARIANTS TextIsBody AnswersAreTrue
PROPERTY CallsEnd
CHECK_DEADLOCK FALSE
