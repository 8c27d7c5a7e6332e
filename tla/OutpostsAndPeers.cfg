\* Two operations of an outpost's wallet; two suites of the contracts; two
\* emissions, also one within the other, and three listeners of two handlers.
SPECIFICATION MCSpec
CONSTANTS
    WalletCalls = {a, b}
    Amounts = {1, 2}
    Deployments = {"ethereum", "ethereumV2", "solana", "solanaLegacy"}
    MinDeposit = 1
    MinRequest = 1
    MaxSyndication = 2
    DepositFee = 1
    MinCredited = 0
    CreditScale = 2
    ShareSize = 2
    WithdrawDelay = 1
    MaxMoves = 1
    Contracts = {"queue", "token"}
    Implementations = {"old", "new", "newest"}
    Template <- MCTemplate
    Suites <- MCSuites
    Profiles <- MCProfiles
    MaxUpgrades = 1
    MaxFailures = 1
    Nothing = Nothing
    Handlers = {h1, h2}
    MaxListeners = 3
    MaxEmissions = 2
    MaxDepth = 2
SYMMETRY Interchangeable
INVARIANTS CallsAgree VerifiedSuiteIsLive ListenersHear
CHECK_DEADLOCK FALSE
