INIT Unpicked
NEXT Pick
CONSTANTS
    Aliases <- MCAliases
    Structs <- MCStructs
    Variants <- MCVariants
    Enums <- MCEnums
    Classes = {"flags", "point"}
    MaxDepth = 5
    PayloadBits = 2
    MaxBits = 5
    ByteBase = 2
    IntWidth = 2
    Scale = 4
    HalfBits = 2
    NameBits = 5
    CharBits = 2
    SlugBase = 4
    SlugChars = 3
    SlugLetters = 1
    SlugSymbols = 2
    MaxSafeInteger = 40
    MaxPrecision = 2
    CodeLength = 2
    CodeLetters = {1, 2}
    Milli = 4
    SlotMs = 2
    EpochMs = 4
    TextBase = 3
    ByteValues = 4
    SextetBits = 3
    FeeDenominator = 5
    MaxAssetAmount = 60
    MaxYieldIndex = 7
    YieldIndexScale = 2
    Absent = Absent
    Precision = 4
    FracScale = 6
    Owners = {"ann"}
    Contents = {first}
    Amounts = {}
    Slips = {}
INVARIANT TruncateIsModular
CHECK_DEADLOCK FALSE
