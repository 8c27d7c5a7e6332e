\* Two asynchronous messages overlap; the messages stop at Horizon.
SPECIFICATION MCSpec
CONSTANTS
    None = None
    KeyIds = {k1}
    EndpointIds = {}
    AccountIds = {a1}
    Names = {n1}
    Calls = {c1, c2}
    States <- MCStates
    Passwords = {p1, p2}
    LockDuration = 2
    Horizon = 3
    MaxSetBacks = 1
INVARIANTS SessionGuarded PasswordOpensVault
PROPERTIES NoServiceWhenIdle OpensOnlyByPassword LocksWhenIdle
