SPECIFICATION Spec
CONSTANTS
    MaxIntermediates = 2
    MaxPoolsPerToken = 3
    MaxUint64 = 3
    KeyBase = 8
    MaxU256 = 1023
    MaxPools = 4
    MaxAmount = 15
    Cases <- MCCases
INVARIANT ReturnsTheBest
