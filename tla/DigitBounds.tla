---------------------------- MODULE DigitBounds ----------------------------
(***************************************************************************)
(* The decimal digits of 2^bits, for every width up to the widest the code *)
(* reads, found by doubling.  A reader with a digit limit refuses before   *)
(* it converts, so a limit too low by one would refuse numbers that fit.   *)
(***************************************************************************)
EXTENDS Decimals

CONSTANTS MaxBits,     \* 256
          U256Digits   \* 78 in server.validU256 and in the contract

VARIABLES bits, digits   \* digits of 2^bits, the lowest first

Init == bits = 0 /\ digits = <<1>>

Carry(i) == IF i > 1 /\ digits[i - 1] >= 5 THEN 1 ELSE 0

Double ==
    /\ bits < MaxBits
    /\ bits' = bits + 1
    /\ LET n == Len(digits)
           low == [i \in 1 .. n |-> (2 * digits[i] + Carry(i)) % 10]
       IN  digits' = IF digits[n] >= 5 THEN Append(low, 1) ELSE low

Spec == Init /\ [][Double]_<<bits, digits>>

(* 2^bits - 1 has as many digits as 2^bits, which never ends in 0.         *)
Largest == Len(digits)

(* No number of the width is refused for its length, unsigned or signed    *)
(* (where the minus takes a place), at any width; and the fixed limit of   *)
(* 78 on a wire amount is that of 256 bits.                                *)
LimitAdmitsTheWidth ==
    /\ Largest <= maxDigits(bits)
    /\ bits = 256 => maxDigits(bits) = U256Digits /\ Largest = U256Digits
=============================================================================
