-------------------------------- MODULE U256 --------------------------------
(***************************************************************************)
(* The checked unsigned arithmetic of internal/amm/u256.go and the         *)
(* full-precision mulDiv of amm.go, for any width: MaxU256 is 2^256 - 1 in *)
(* the code.  Err stands for a nil result with an error; it is outside the *)
(* width, so an operation on a failed operand fails, which is what the     *)
(* code's "if err != nil { return nil, err }" does.                        *)
(***************************************************************************)
EXTENDS Integers

CONSTANT MaxU256

ASSUME MaxU256Assumption == MaxU256 \in Nat \ {0}

Err == -1

isU256(v) == 0 <= v /\ v <= MaxU256

Fits(v) == IF isU256(v) THEN v ELSE Err

addU256(a, b) == IF isU256(a) /\ isU256(b) THEN Fits(a + b) ELSE Err

subU256(a, b) == IF isU256(a) /\ isU256(b) THEN Fits(a - b) ELSE Err

mulU256(a, b) == IF isU256(a) /\ isU256(b) THEN Fits(a * b) ELSE Err

DivDown(a, b) == a \div b

(* The quotient plus one when there is a remainder. *)
DivUp(a, b) == IF a % b = 0 THEN a \div b ELSE a \div b + 1

divDownU256(a, b) ==
    IF isU256(a) /\ isU256(b) /\ b # 0 THEN DivDown(a, b) ELSE Err

divUpU256(a, b) ==
    IF isU256(a) /\ isU256(b) /\ b # 0 THEN Fits(DivUp(a, b)) ELSE Err

(* The product is not truncated; only the quotient must fit. *)
mulDiv(a, b, d) ==
    IF isU256(a) /\ isU256(b) /\ isU256(d) /\ d > 0
    THEN Fits(DivDown(a * b, d)) ELSE Err

mulDivUp(a, b, d) ==
    IF isU256(a) /\ isU256(b) /\ isU256(d) /\ d > 0
    THEN Fits(DivUp(a * b, d)) ELSE Err
=============================================================================
