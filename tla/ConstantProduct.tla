-------------------------- MODULE ConstantProduct --------------------------
(***************************************************************************)
(* Pool.quoteConstantProduct of internal/amm: the exact-input quote of a   *)
(* two-token constant-product pool in checked arithmetic.                  *)
(***************************************************************************)
EXTENDS U256

(* Mutant: the output is rounded up. *)
CPOutput_rounds_up(reserveIn, reserveOut, feeNum, feeDen, amountIn) ==
    LET inputAfterFee == mulU256(amountIn, subU256(feeDen, feeNum))
    IN  divUpU256(mulU256(inputAfterFee, reserveOut),
                  addU256(mulU256(reserveIn, feeDen), inputAfterFee))

(***************************************************************************)
(* The arithmetic, for the reserves of the two sides and the fee fraction. *)
(***************************************************************************)
CPOutput(reserveIn, reserveOut, feeNum, feeDen, amountIn) ==
    LET keep          == subU256(feeDen, feeNum)
        inputAfterFee == mulU256(amountIn, keep)
        numerator     == mulU256(inputAfterFee, reserveOut)
        reserveTerm   == mulU256(reserveIn, feeDen)
        denominator   == addU256(reserveTerm, inputAfterFee)
    IN  IF keep > 0 /\ denominator > 0
        THEN divDownU256(numerator, denominator) ELSE Err

(***************************************************************************)
(* The quote: an output of zero, or one that would empty the pool, is no   *)
(* liquidity.                                                              *)
(***************************************************************************)
CPQuote(reserveIn, reserveOut, feeNum, feeDen, amountIn) ==
    LET output == CPOutput(reserveIn, reserveOut, feeNum, feeDen, amountIn)
    IN  IF /\ isU256(reserveIn) /\ isU256(reserveOut)
           /\ isU256(feeNum) /\ isU256(feeDen) /\ feeDen > 0
           /\ reserveIn > 0 /\ reserveOut > 0
           /\ 0 < output /\ output < reserveOut
        THEN output ELSE Err
=============================================================================
