--------------------------- MODULE MCMinInputPools ---------------------------
(* minInputFor over one constant-product pool in checked arithmetic. *)
EXTENDS MinInput, ConstantProduct

MCPow2 == [n \in 0 .. Iterations |-> 2 ^ n]

(* BestRoute over a single pool: its quote, or no route. *)
PoolQuote(reserveIn, reserveOut, feeNum, feeDen) ==
    [x \in 1 .. MaxAmount |->
        LET out == CPQuote(reserveIn, reserveOut, feeNum, feeDen, x)
        IN  IF out = Err THEN 0 ELSE out]

MCQuotes == { PoolQuote(a, b, 1, 4) : a \in 1 .. 8, b \in 2 .. 8 }
=============================================================================
