SPECIFICATION Spec
CONSTANTS
    MaxIntermediates = 2
    MaxPoolsPerToken = 3
    MaxUint64 = 4
    KeyBase = 8
    MaxU256 = 1023
    MaxAmount = 20
    MaxOrders = 3
    DefaultMaxOrders = 3
    DefaultMaxPools = 3
    PriceUnit = 2
    Iterations = 5
    Auctions <- MCAuctions
    Configs <- MCConfigs
CHECK_DEADLOCK FALSE
INVARIANTS Settles EachOrderOnce MatchingMaximal StatsAddUp
 
