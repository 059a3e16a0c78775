SPECIFICATION PoolsSpec
CONSTANTS
    Kinds = {"constantProduct", "stable", "concentrated"}
    MaxU256 = 255
    Reserves <- MCReserves
    Holdings <- MCHoldings
    Fees <- MCFees
    StableWidth = 32767
    FpOne = 4
    AmpPrecision = 2
    MaxIterations = 8
    Balances2 = {1, 4, 11}
    Balances3 = {4, 9}
    Amps = {1, 5}
    StablePools <- MCStablePools
    StableHoldings = {0, 6}
    Q96 = 8
    MaxU160 = 31
    MaxLiquidity = 7
    Million = 8
    MinRatio = 5
    MaxRatio = 21
    StepLimit = 3
    TickPrice <- MCTickPrice
    Pools <- ConsistentPools
    Amounts = {1, 2, 3, 4, 5, 6, 7, 8, 10, 12, 16}
CHECK_DEADLOCK FALSE
INVARIANTS NoFreeLunch NoProfitFromSwaps AmountOrError
    NeverOverconsumed OnTheCurve MovesWithTheTrade NoRoundTripProfit
PROPERTIES ValueNeverFalls
