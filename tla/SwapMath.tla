------------------------------ MODULE SwapMath ------------------------------
(***************************************************************************)
(* The arithmetic of one step of a concentrated-liquidity swap:            *)
(* computeSwapStep of internal/amm and what it calls, in the checked       *)
(* arithmetic of U256.  Err in any part is the code's early return of the  *)
(* error.  Prices are square roots of the price, scaled by Q96.            *)
(***************************************************************************)
EXTENDS U256

CONSTANTS Q96,            \* 2^96 in the code
          MaxU160,        \* the largest price, 2^160 - 1 in the code
          MaxLiquidity,   \* 2^128 - 1 in the code
          Million         \* fees are in pips, millionths in the code

SwapMathAssumption ==
    {Q96, MaxU160, MaxLiquidity, Million} \subseteq Nat \ {0}

Lower(a, b)  == IF a > b THEN b ELSE a
Higher(a, b) == IF a > b THEN a ELSE b

(* The amount of token 0 between two prices. *)
amount0Delta(p, q, liquidity, roundUp) ==
    LET a == Lower(p, q)
        b == Higher(p, q)
        numerator1 == Fits(liquidity * Q96)
        numerator2 == subU256(b, a)
    IN  IF a <= 0 \/ liquidity < 0 \/ liquidity > MaxLiquidity THEN Err
        ELSE IF roundUp THEN divUpU256(mulDivUp(numerator1, numerator2, b), a)
                        ELSE divDownU256(mulDiv(numerator1, numerator2, b), a)

(* The amount of token 1 between two prices. *)
amount1Delta(p, q, liquidity, roundUp) ==
    LET delta == subU256(Higher(p, q), Lower(p, q))
    IN  IF roundUp THEN mulDivUp(liquidity, delta, Q96)
                   ELSE mulDiv(liquidity, delta, Q96)

(* The price an input of token 0 moves to, rounded up.  The second form is *)
(* less exact and is for a product that would not fit.                     *)
nextSqrtDown(price, liquidity, amount) ==
    LET numerator == Fits(liquidity * Q96)
        product   == amount * price
    IN  IF numerator = Err THEN Err
        ELSE IF product <= MaxU256 /\ numerator + product <= MaxU256
        THEN mulDivUp(numerator, price, numerator + product)
        ELSE divUpU256(numerator, addU256(divDownU256(numerator, price), amount))

(* The price an input of token 1 moves to, rounded down. *)
nextSqrtUp(price, liquidity, amount) ==
    LET next == addU256(price, mulDiv(amount, Q96, liquidity))
    IN  IF next > MaxU160 THEN Err ELSE next

nextSqrtFromInput(price, liquidity, amount, zeroForOne) ==
    IF amount = 0 THEN price
    ELSE IF liquidity <= 0 \/ liquidity > MaxLiquidity THEN Err
    ELSE IF zeroForOne THEN nextSqrtDown(price, liquidity, amount)
                       ELSE nextSqrtUp(price, liquidity, amount)

(* What goes in and what comes out between two prices, in the pool's favour. *)
AmountIn(from, to, liquidity, zeroForOne) ==
    IF zeroForOne THEN amount0Delta(to, from, liquidity, TRUE)
                  ELSE amount1Delta(from, to, liquidity, TRUE)

(* Mutant: the output is rounded up. *)
AmountOut_rounds_up(from, to, liquidity, zeroForOne) ==
    IF zeroForOne THEN amount1Delta(to, from, liquidity, TRUE)
                  ELSE amount0Delta(from, to, liquidity, TRUE)

AmountOut(from, to, liquidity, zeroForOne) ==
    IF zeroForOne THEN amount1Delta(to, from, liquidity, FALSE)
                  ELSE amount0Delta(from, to, liquidity, FALSE)

(* Mutant: the fee is always rounded to the next unit. *)
MaxedFee_plus_one(amountIn, feePips) == mulDiv(amountIn, feePips, Million - feePips) + 1

MaxedFee(amountIn, feePips) == mulDivUp(amountIn, feePips, Million - feePips)

(* One step from current towards target: where it ends, what it takes and  *)
(* gives.  A step that does not reach its target takes all that remains.   *)
computeSwapStep(current, target, liquidity, remaining, feePips) ==
    LET zeroForOne == current >= target
        complement == subU256(Million, feePips)
        lessFee    == mulDiv(remaining, complement, Million)
        toTarget   == AmountIn(current, target, liquidity, zeroForOne)
        next       == IF lessFee >= toTarget THEN target
                      ELSE nextSqrtFromInput(current, liquidity, lessFee, zeroForOne)
        maxed      == next = target
        amountIn   == IF maxed THEN toTarget
                      ELSE AmountIn(current, next, liquidity, zeroForOne)
        amountOut  == AmountOut(current, next, liquidity, zeroForOne)
        fee        == IF maxed THEN MaxedFee(amountIn, feePips)
                      ELSE subU256(remaining, amountIn)
    IN  IF complement <= 0 \/ Err \in {lessFee, toTarget, next, amountIn, amountOut, fee}
        THEN [next |-> Err, in |-> Err, out |-> Err, fee |-> Err]
        ELSE [next |-> next, in |-> amountIn, out |-> amountOut, fee |-> fee]
=============================================================================
