--------------------------- MODULE DecimalInputs ---------------------------
(***************************************************************************)
(* Every short text over a small alphabet, given to every reader of        *)
(* Decimals.                                                               *)
(***************************************************************************)
EXTENDS Decimals

CONSTANTS Alphabet,    \* characters
          MaxLength,   \* bound: characters of a text
          Widths       \* bit widths of the integers read

VARIABLE text

Init == text = <<>>

Type(c) == Len(text) < MaxLength /\ text' = Append(text, c)

Next == \E c \in Alphabet : Type(c)

Spec == Init /\ [][Next]_text

-----------------------------------------------------------------------------

Digits == {i \in DOMAIN text : text[i] \in DOMAIN DigitOf}
Points == {i \in DOMAIN text : text[i] = "."}
Minus  == {i \in DOMAIN text : text[i] = "-"}
Point  == IF Points = {} THEN Max({0} \cup Digits) + 1 ELSE Min(Points)

(* The place value of the digit at i, times 10^(MaxLength - 1).            *)
Place(i) ==
    10 ^ (MaxLength - 1 + (IF i < Point THEN Point - i - 1 ELSE Point - i))

Meaning ==
    LET sum[i \in 0 .. Len(text)] ==
            IF i = 0 THEN 0
            ELSE sum[i - 1] + (IF i \in Digits THEN DigitOf[text[i]] * Place(i) ELSE 0)
    IN  IF Minus = {} THEN sum[Len(text)] ELSE -sum[Len(text)]

(* A decimal that is accepted has a digit, at most one point and one minus *)
(* in front, and its rational is the number that positional notation gives *)
(* the text: nothing is lost on the way to num/den.                        *)
ReadsTheNumber ==
    LET d == WireDecimal(text)
    IN  d # Refused =>
          /\ Digits # {} /\ \A s \in {Points, Minus} : s = {} \/ s = {Min(s)}
          /\ Minus = {} \/ Inked(text) = Min(Minus) .. Max(Inked(text))
          /\ d.num * (10 ^ (MaxLength - 1) \div d.den) = Meaning

(* A fee that a pool is built with is below one, and a concentrated pool   *)
(* charges exactly it: a fee its pips cannot express is no quote.          *)
FeeExact ==
    LET fee == Fee(text)
    IN  fee # Refused =>
          /\ 0 <= fee.num /\ fee.num < fee.den /\ fee.den < WordLimit
          /\ feePips(fee) # -1 =>
               /\ feePips(fee) < PipScale
               /\ feePips(fee) * fee.den = fee.num * PipScale

(* Amplification and scaling factors are the decimal cut to the fixed      *)
(* point; one that is accepted is positive and fits a word, and none that  *)
(* would be is refused.                                                    *)
FixedPoint ==
    LET raw   == ScaledDecimal(text, AmpPrecision)
        d     == WireDecimal(text)
        exact == d.num * AmpPrecision
    IN  /\ raw \in 0 .. WordLimit - 1
        /\ raw > 0 => raw * d.den <= exact /\ exact < (raw + 1) * d.den
        /\ raw = 0 => d = Refused \/ exact < d.den \/ exact >= WordLimit * d.den

Canonical(t) == t = <<"0">> \/ (decimalDigitsOnly(t) /\ t[1] # "0")

(* An amount is read as the number it is, and every number of the width    *)
(* written without leading zeros is accepted: the digit limit refuses      *)
(* nothing that fits.                                                      *)
IntegersExact ==
    \A bits \in Widths :
        LET u == parsePositiveUnsigned(text, bits)
            s == parseSignedInteger(text, bits)
            t == IF text # <<>> /\ text[1] = "-" THEN Tail(text) ELSE text
        IN  /\ u > 0 => Digits = DOMAIN text /\ u = Number(text) /\ u < 2 ^ bits
            /\ Canonical(text) /\ Number(text) \in 1 .. (2 ^ bits - 1) => u > 0
            /\ s.ok => /\ decimalDigitsOnly(t)
                       /\ s.value = IF text = t THEN Number(t) ELSE -Number(t)
                       /\ s.value \in -(2 ^ (bits - 1)) .. (2 ^ (bits - 1) - 1)
            /\ Canonical(t) /\ (IF text = t THEN Number(t) < 2 ^ (bits - 1)
                                            ELSE Number(t) <= 2 ^ (bits - 1)) => s.ok
=============================================================================
