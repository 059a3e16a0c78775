SPECIFICATION SearchSpec
CONSTANTS
    MaxU256 = 63
    MaxAmount = 63
    Iterations = 6
    Pow2 <- MCPow2
    Quotes <- MCQuotes
CHECK_DEADLOCK FALSE
INVARIANTS Smallest
