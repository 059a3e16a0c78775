------------------------------ MODULE Decimals ------------------------------
(***************************************************************************)
(* How buildPool reads the numbers of a liquidity entry: decimals as exact *)
(* rationals (amm.ParseDecimalRational), amounts as bounded integers       *)
(* (parsePositiveUnsigned, parseSignedInteger).  A text is a sequence of   *)
(* characters; Refused stands for any error.                               *)
(***************************************************************************)
EXTENDS Integers, Sequences, SequencesExt

CONSTANTS PipScale,      \* 1_000_000 in the code: pips of a concentrated pool
          AmpPrecision,  \* 1000 in the code: amplificationPrecision
          TextLimit,     \* 128 in the code: maxWireDecimalLength
          WordLimit      \* 2^256 in the code: the terms of a pool are below it

DigitOf == [c \in {"0", "1", "2", "3", "4", "5", "6", "7", "8", "9"} |->
              CASE c = "0" -> 0 [] c = "1" -> 1 [] c = "2" -> 2 [] c = "3" -> 3
                [] c = "4" -> 4 [] c = "5" -> 5 [] c = "6" -> 6 [] c = "7" -> 7
                [] c = "8" -> 8 [] OTHER -> 9]

Refused == [num |-> 0, den |-> 0]

decimalDigitsOnly(t) == t # <<>> /\ Range(t) \subseteq DOMAIN DigitOf

(* big.Int.SetString of digits.                                            *)
Number(t) ==
    LET upTo[n \in 0 .. Len(t)] ==
            IF n = 0 THEN 0 ELSE 10 * upTo[n - 1] + DigitOf[t[n]]
    IN  upTo[Len(t)]

Inked(t) == {i \in DOMAIN t : t[i] # " "}

TrimSpace(t) ==
    IF Inked(t) = {} THEN <<>> ELSE SubSeq(t, Min(Inked(t)), Max(Inked(t)))

(* strings.Cut at the first point.                                         *)
Cut(t) ==
    LET points == {i \in DOMAIN t : t[i] = "."}
        at     == IF points = {} THEN Len(t) + 1 ELSE Min(points)
    IN  [before |-> SubSeq(t, 1, at - 1), after |-> SubSeq(t, at + 1, Len(t))]

(* Signs other than one leading minus and exponents are not digits.        *)
ParseDecimalRational(text) ==
    LET t      == TrimSpace(text)
        minus  == t # <<>> /\ t[1] = "-"
        parts  == Cut(IF minus THEN Tail(t) ELSE t)
        whole  == IF parts.before = <<>> THEN <<"0">> ELSE parts.before
        digits == whole \o parts.after
    IN  IF t = <<>> THEN [num |-> 0, den |-> 1]
        ELSE IF Len(t) > TextLimit \/ ~decimalDigitsOnly(digits) THEN Refused
        ELSE [num |-> IF minus THEN -Number(digits) ELSE Number(digits),
              den |-> 10 ^ Len(parts.after)]

(* The texts buildPool refuses before it parses.                           *)
Blank(t) == t \in {<<>>, <<"-">>, <<".">>, <<"-", ".">>}

WireDecimal(text) ==
    IF Blank(TrimSpace(text)) THEN Refused ELSE ParseDecimalRational(TrimSpace(text))

Fee(text) ==
    LET fee == WireDecimal(text)
    IN  IF \/ fee.den <= 0 \/ fee.num < 0 \/ fee.num >= fee.den
           \/ fee.num >= WordLimit \/ fee.den >= WordLimit
        THEN Refused ELSE fee

(* Pool.feePips: -1 for a fee that is no whole number of pips below one.   *)
feePips(fee) ==
    LET pips == (fee.num * PipScale) \div fee.den
    IN  IF (fee.num * PipScale) % fee.den # 0 \/ pips >= PipScale THEN -1 ELSE pips

(* The amplification parameter and the scaling factors, in fixed point of  *)
(* unit (1000 and 10^18): 0 when refused.                                  *)
ScaledDecimal(text, unit) ==
    LET d   == WireDecimal(text)
        raw == IF d.den <= 0 THEN 0 ELSE (d.num * unit) \div d.den
    IN  IF d.num <= 0 \/ raw >= WordLimit THEN 0 ELSE raw

(* Mutant: the estimate of log10(2) is rounded down.                       *)
maxDigits_short(bits) == (bits * 300) \div 1000 + 1

(* An upper bound of the digits of 2^bits - 1.                             *)
maxDigits(bits) == (bits * 30103) \div 100000 + 1

decimalDigits(t, max) == decimalDigitsOnly(t) /\ Len(t) <= max

(* 0 when refused.                                                         *)
parsePositiveUnsigned(t, bits) ==
    IF decimalDigits(t, maxDigits(bits)) /\ Number(t) < 2 ^ bits THEN Number(t) ELSE 0

parseSignedInteger(t, bits) ==
    LET minus == t # <<>> /\ t[1] = "-"
        d     == IF minus THEN Tail(t) ELSE t
    IN  IF Len(t) <= maxDigits(bits) + 1 /\ decimalDigitsOnly(d)
        THEN LET n == IF minus THEN -Number(d) ELSE Number(d)
             IN  [ok |-> -(2 ^ (bits - 1)) <= n /\ n < 2 ^ (bits - 1), value |-> n]
        ELSE [ok |-> FALSE, value |-> 0]

(* strconv.ParseInt in base 10: either sign, any number of leading zeros.  *)
ParseInt(t, bits) ==
    LET sign == t # <<>> /\ t[1] \in {"-", "+"}
        d    == IF sign THEN Tail(t) ELSE t
    IN  IF ~decimalDigitsOnly(d) THEN [ok |-> FALSE, value |-> 0]
        ELSE LET n == IF sign /\ t[1] = "-" THEN -Number(d) ELSE Number(d)
             IN  [ok |-> -(2 ^ (bits - 1)) <= n /\ n < 2 ^ (bits - 1), value |-> n]
=============================================================================
