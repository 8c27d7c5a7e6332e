\* The parts of the SDK; a popup with two keys, an endpoint and an account.
SPECIFICATION MCSpec
CONSTANTS
    A = A
    B = B
    Chains = {A, B}
    AliasedChains = {A}
    Arguments <- MCArguments
    Signers <- MCSigners
    Contexts <- MCContexts
    ResolveTimes = {7}
    RecreateTimes = {8}
    Strings <- MCStrings
    Callbacks = {"https://other"}
    AbiSizes = {1, 2}
    RefModulus = 4
    MaxChanges = 1
    AnyChain = AnyChain
    NotGiven = NotGiven
    Refused = Refused
    Aliases <- MCAliases
    Structs <- MCStructs
    Variants <- MCVariants
    Enums <- MCEnums
    Classes = {"flags", "point"}
    MaxDepth = 5
    PayloadBits = 2
    MaxBits = 5
    ByteBase = 2
    IntWidth = 2
    Scale = 4
    HalfBits = 2
    NameBits = 5
    CharBits = 2
    SlugBase = 4
    SlugChars = 3
    SlugLetters = 1
    SlugSymbols = 2
    MaxSafeInteger = 40
    MaxPrecision = 2
    CodeLength = 2
    CodeLetters = {1, 2}
    Milli = 4
    SlotMs = 2
    EpochMs = 4
    TextBase = 3
    ByteValues = 4
    SextetBits = 3
    FeeDenominator = 5
    MaxAssetAmount = 60
    MaxYieldIndex = 7
    YieldIndexScale = 2
    Absent = Absent
    Precision = 4
    FracScale = 6
    Owners = {"ann", "bob"}
    Contents = {first, second}
    Amounts <- MCAmounts
    Slips <- MCSlips
    Unset = Unset
    Definitions <- MCDefinitions
    Wrong = Wrong
    None = None
    KeyIds = {k1, k2}
    EndpointIds = {e1}
    AccountIds = {a1}
    Names = {n1}
    Calls = {c1}
    States <- MCStates
    Passwords = {p1}
    LockDuration = 1
    Horizon = 2
    MaxSetBacks = 0
    MaxEdits = 2
    MaxLost = 1
    MaxEvents = 2
INVARIANTS ResolvedIsWhatWasAsked PayloadRecreates OpensAsMade
    DataIsFaithful ArithmeticIsExact TextsAreRead SignedIsVerified
    NothingDangles ShownIsDurable
CHECK_DEADLOCK FALSE
