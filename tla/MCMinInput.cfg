SPECIFICATION SearchSpec
CONSTANTS
    MaxAmount = 7
    Iterations = 3
    MaxOutput = 2
    Pow2 <- MCPow2
    Quotes <- MCQuotes
INVARIANTS AnswerBuys RangeExhausted SmallestIfMonotone
