\* A popup that opens over a wallet sets one up.
SPECIFICATION MCPopupSpec
CONSTANTS
    None = None
    KeyIds = {k1}
    EndpointIds = {e1}
    AccountIds = {a1}
    Names = {n1}
    Calls = {c1}
    States <- MCStates
    Passwords = {p1}
    LockDuration = 1
    Horizon = 2
    MaxSetBacks = 0
    MaxEdits = 0
    MaxLost = 0
    MaxEvents = 0
PROPERTY SetupMakesANewVault
CHECK_DEADLOCK FALSE
