SPECIFICATION BuildingSpec
CONSTANTS
    PipScale = 10
    AmpPrecision = 10
    TextLimit = 4
    WordLimit = 600
    ToLower <- Lower
    Fold <- MCFold
    Rank <- MCRank
    Entries <- MCEntries
    ReserveBits = 6
    LiquidityBits = 4
    GasBits = 6
    IndexBits = 8
    DefaultGas = 9
    ScaleUnit = 10
    maxStablePoolTokens = 3
    maxConcentratedTicks = 3
    MinTick <- MCMinTick
    MaxTick = 2
    NoTick = 99
    Parts = {"entries", "texts", "widths"}
    Alphabet = {"-", "+", ".", " ", "0", "1", "8"}
    MaxLength = 5
    Widths = {1, 4, 7, 10}
    MaxBits = 256
    U256Digits = 78
CHECK_DEADLOCK FALSE
INVARIANTS BuiltIffWellFormed Quotable QuotesTheRightSides
    NumbersExact
