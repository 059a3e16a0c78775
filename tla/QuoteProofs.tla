---------------------------- MODULE QuoteProofs ----------------------------
(***************************************************************************)
(* What the engine's quotes guarantee: trading with constant-product, with *)
(* concentrated-liquidity and with stable pools, for every width of the    *)
(* arithmetic, every fee, every pool and every amount; and the search for  *)
(* the smallest input that buys a wanted amount, for every quote function. *)
(***************************************************************************)
EXTENDS PoolTrades, MinInput, Induction, FiniteSetTheorems, TLAPS

-----------------------------------------------------------------------------
(* Arithmetic. *)

(* Products of naturals, where the SMT solver needs to be told. *)
LEMMA MulNat == ASSUME NEW a \in Nat, NEW b \in Nat PROVE a * b \in Nat
  OBVIOUS

LEMMA MulMono ==
    ASSUME NEW a \in Nat, NEW b \in Nat, NEW c \in Nat, a <= b
    PROVE  a * c <= b * c
<1>1. PICK d \in Nat : b = a + d
  <2>1. b - a \in Nat /\ b = a + (b - a)
    OBVIOUS
  <2> QED BY <2>1
<1>2. b * c = a * c + d * c
  BY <1>1
<1>3. d * c \in Nat /\ a * c \in Nat
  BY MulNat
<1> QED BY <1>2, <1>3

LEMMA MulCancel ==
    ASSUME NEW a \in Nat, NEW b \in Nat, NEW c \in Nat \ {0}, a * c <= b * c
    PROVE  a <= b
<1> SUFFICES ASSUME b < a PROVE FALSE
  OBVIOUS
<1>1. (b + 1) * c <= a * c
  BY MulMono
<1>2. (b + 1) * c = b * c + c
  OBVIOUS
<1>3. a * c \in Nat /\ b * c \in Nat
  BY MulNat
<1> QED BY <1>1, <1>2, <1>3

(* The floor of a quotient of naturals. *)
LEMMA Floor ==
    ASSUME NEW n \in Nat, NEW d \in Nat \ {0}
    PROVE  /\ n \div d \in Nat
           /\ (n \div d) * d <= n
           /\ n < (n \div d) * d + d
<1>1. n \div d \in Int
  OBVIOUS
<1>2. n \div d >= 0
  OBVIOUS
<1>3. d * (n \div d) <= n
  OBVIOUS
<1>4. n < d * (n \div d) + d
  OBVIOUS
<1>5. d * (n \div d) = (n \div d) * d
  BY <1>1
<1> QED BY <1>1, <1>2, <1>3, <1>4, <1>5

LEMMA Remainder ==
    ASSUME NEW n \in Int, NEW d \in Int, d > 0
    PROVE  n = d * (n \div d) + (n % d)
  OBVIOUS

(* The quotient rounded up is the least number whose multiple is enough. *)
LEMMA Ceiling ==
    ASSUME NEW n \in Nat, NEW d \in Nat \ {0}
    PROVE  /\ DivUp(n, d) \in Nat
           /\ n <= DivUp(n, d) * d
           /\ \A m \in Nat : n <= m * d => DivUp(n, d) <= m
<1> DEFINE q == n \div d
<1>1. q \in Nat /\ q * d <= n /\ n < q * d + d
  BY Floor
<1> DEFINE r == n % d
<1>2. r \in Nat /\ n = q * d + r
  <2>1. n % d \in Nat
    OBVIOUS
  <2>2. n = d * (n \div d) + (n % d)
    BY Remainder
  <2>3. d * (n \div d) = q * d
    BY <1>1
  <2> QED BY <2>1, <2>2, <2>3
<1>3. DivUp(n, d) = IF r = 0 THEN q ELSE q + 1
  BY DEF DivUp
<1>4. q * d \in Nat /\ (q + 1) * d = q * d + d
  BY <1>1, MulNat
<1> HIDE DEF q, r
<1>5. DivUp(n, d) \in Nat /\ n <= DivUp(n, d) * d
  BY <1>1, <1>2, <1>3, <1>4
<1>6. ASSUME NEW m \in Nat, n <= m * d PROVE DivUp(n, d) <= m
  <2>1. m * d \in Nat
    BY MulNat
  <2>2. CASE r = 0
    <3>1. q * d <= m * d
      BY <1>2, <1>4, <1>6, <2>1, <2>2
    <3> QED BY <1>1, <1>3, <2>2, <3>1, MulCancel
  <2>3. CASE r # 0
    <3> SUFFICES ASSUME m <= q PROVE FALSE
      BY <1>1, <1>3, <2>3
    <3>1. m * d <= q * d
      BY <1>1, MulMono
    <3>2. r > 0 /\ r \in Nat
      BY <1>2, <2>3
    <3> QED BY <1>2, <1>4, <1>6, <2>1, <3>1, <3>2
  <2> QED BY <2>2, <2>3
<1> QED BY <1>5, <1>6

-----------------------------------------------------------------------------
(* Constant-product quotes and trading at them. *)

(* What a defined quote is: a floor of exact products, nothing truncated. *)
LEMMA CPDefined ==
    ASSUME NEW rin \in Int, NEW rout \in Int, NEW num \in Int, NEW den \in Int,
           NEW x \in Nat,
           CPQuote(rin, rout, num, den, x) # Err
    PROVE  LET keep == den - num
               q    == CPQuote(rin, rout, num, den, x)
           IN  /\ rin \in Nat \ {0} /\ rout \in Nat \ {0} /\ den \in Nat \ {0}
               /\ keep \in Nat \ {0} /\ keep <= den
               /\ q \in Nat \ {0} /\ q < rout
               /\ rin * den + x * keep \in Nat \ {0}
               /\ x * keep * rout \in Nat
               /\ q = (x * keep * rout) \div (rin * den + x * keep)
<1> USE MaxU256Assumption
<1>1. /\ isU256(rin) /\ isU256(rout) /\ isU256(num) /\ isU256(den)
      /\ den > 0 /\ rin > 0 /\ rout > 0
      /\ CPQuote(rin, rout, num, den, x) = CPOutput(rin, rout, num, den, x)
      /\ 0 < CPOutput(rin, rout, num, den, x)
      /\ CPOutput(rin, rout, num, den, x) < rout
  BY DEF CPQuote
<1> DEFINE keep  == subU256(den, num)
           after == mulU256(x, keep)
           top   == mulU256(after, rout)
           term  == mulU256(rin, den)
           bot   == addU256(term, after)
<1>2. /\ keep > 0 /\ bot > 0
      /\ CPOutput(rin, rout, num, den, x) = divDownU256(top, bot)
  BY <1>1 DEF CPOutput, Err
<1>3. /\ isU256(top) /\ isU256(bot) /\ bot # 0
      /\ divDownU256(top, bot) = top \div bot
  BY <1>1, <1>2 DEF divDownU256, DivDown, Err
<1>4. keep = den - num /\ isU256(keep)
  BY <1>1, <1>2 DEF subU256, Fits, isU256, Err
<1>5. isU256(after) /\ isU256(rout) /\ top = after * rout
  BY <1>3 DEF mulU256, Fits, isU256, Err
<1>6. after = x * keep
  BY <1>4, <1>5 DEF mulU256, Fits, isU256, Err
<1>7. isU256(term) /\ bot = term + after
  BY <1>3, <1>5 DEF addU256, Fits, isU256, Err
<1>8. term = rin * den
  BY <1>1, <1>7 DEF mulU256, Fits, isU256, Err
<1>9. rin \in Nat \ {0} /\ rout \in Nat \ {0} /\ den \in Nat \ {0} /\ keep \in Nat \ {0} /\ keep <= den
  BY <1>1, <1>2, <1>4 DEF isU256
<1>10. bot \in Nat \ {0} /\ top \in Nat /\ top \div bot \in Int
  <2>1. x * (den - num) \in Nat
    BY <1>4, <1>9, MulNat
  <2>2. rin * den \in Nat /\ (x * (den - num)) * rout \in Nat
    BY <2>1, <1>9, MulNat
  <2>3. bot \in Nat /\ top \in Nat
    BY <1>4, <1>5, <1>6, <1>7, <1>8, <2>1, <2>2
  <2>4. bot \in Nat \ {0}
    BY <1>3, <2>3
  <2> QED BY <2>3, <2>4, Floor
<1> HIDE DEF keep, after, top, term, bot
<1>11. CPQuote(rin, rout, num, den, x) = top \div bot
  BY <1>1, <1>2, <1>3
<1>12. top = x * (den - num) * rout /\ bot = rin * den + x * (den - num)
  BY <1>4, <1>5, <1>6, <1>7, <1>8
<1> QED BY <1>1, <1>4, <1>9, <1>10, <1>11, <1>12

(* The pool never loses: after a swap at the quoted output the product of  *)
(* its reserves is at least what it was, whatever rounding does.           *)
THEOREM ProductNeverDecreases ==
    ASSUME NEW rin \in Int, NEW rout \in Int, NEW num \in Int, NEW den \in Int,
           NEW x \in Nat,
           CPQuote(rin, rout, num, den, x) # Err
    PROVE  rin * rout <= (rin + x) * (rout - CPQuote(rin, rout, num, den, x))
<1> DEFINE keep == den - num
           q    == CPQuote(rin, rout, num, den, x)
           left == rout - q
<1>1. /\ rin \in Nat \ {0} /\ rout \in Nat \ {0} /\ den \in Nat \ {0}
      /\ keep \in Nat \ {0} /\ keep <= den
      /\ q \in Nat \ {0} /\ q < rout
      /\ rin * den + x * keep \in Nat \ {0}
      /\ x * keep * rout \in Nat
      /\ q = (x * keep * rout) \div (rin * den + x * keep)
  BY CPDefined
<1> HIDE DEF keep, q
<1>2. q * (rin * den + x * keep) <= x * keep * rout
  BY <1>1, Floor
<1>3. left \in Nat /\ rout = q + left
  BY <1>1
<1> HIDE DEF left
<1>4. q * (rin * den + x * keep) = (q * rin) * den + (x * keep) * q
  BY <1>1
<1>5. x * keep * rout = (x * keep) * q + (x * keep) * left
  BY <1>1, <1>3
<1>6. (q * rin) * den <= (x * keep) * left
  BY <1>1, <1>2, <1>3, <1>4, <1>5
<1>7. (x * keep) * left = keep * (x * left)
  BY <1>1, <1>3
<1>8. x * left \in Nat /\ q * rin \in Nat
  BY <1>1, <1>3, MulNat
<1>9. keep * (x * left) <= den * (x * left)
  BY <1>1, <1>8, MulMono
<1>10. (q * rin) * den <= (x * left) * den
  BY <1>1, <1>6, <1>7, <1>8, <1>9
<1>11. q * rin <= x * left
  BY <1>1, <1>8, <1>10, MulCancel
<1>12. rin * rout = q * rin + rin * left
  BY <1>1, <1>3
<1>13. (rin + x) * left = rin * left + x * left
  BY <1>1, <1>3
<1>14. rin * left \in Nat
  BY <1>1, <1>3, MulNat
<1>15. rin * rout <= (rin + x) * left
  BY <1>8, <1>11, <1>12, <1>13, <1>14
<1> QED BY <1>15 DEF left, q

(* Of two inputs the pool quotes, the larger one buys at least as much:    *)
(* the binary search over inputs only fails to be monotone where a quote   *)
(* is refused.                                                             *)
THEOREM QuoteMonotone ==
    ASSUME NEW rin \in Int, NEW rout \in Int, NEW num \in Int, NEW den \in Int,
           NEW x \in Nat, NEW y \in Nat, x <= y,
           CPQuote(rin, rout, num, den, x) # Err,
           CPQuote(rin, rout, num, den, y) # Err
    PROVE  CPQuote(rin, rout, num, den, x) <= CPQuote(rin, rout, num, den, y)
<1> DEFINE keep == den - num
           p    == CPQuote(rin, rout, num, den, x)
           q    == CPQuote(rin, rout, num, den, y)
           a    == x * keep
           b    == y * keep
           r    == rin * den
<1>1. /\ rin \in Nat \ {0} /\ rout \in Nat \ {0} /\ den \in Nat \ {0}
      /\ keep \in Nat \ {0}
      /\ p \in Nat \ {0} /\ p < rout
      /\ r + a \in Nat \ {0} /\ a * rout \in Nat
      /\ p = (a * rout) \div (r + a)
  BY CPDefined
<1>2. /\ q \in Nat \ {0}
      /\ r + b \in Nat \ {0} /\ b * rout \in Nat
      /\ q = (b * rout) \div (r + b)
  BY CPDefined
<1>3. a <= b
  BY <1>1, MulMono
<1>4. a \in Nat /\ b \in Nat /\ r \in Nat
  BY <1>1, MulNat
<1> HIDE DEF p, q, a, b, r, keep
<1>5. p * (r + a) <= a * rout
  BY <1>1, Floor
<1>6. b * rout < q * (r + b) + (r + b)
  BY <1>2, Floor
<1>7. PICK d \in Nat : b = a + d
  <2>1. b - a \in Nat /\ b = a + (b - a)
    BY <1>3, <1>4
  <2> QED BY <2>1
<1>8. p * d <= rout * d
  BY <1>1, <1>7, MulMono
<1>9. p * (r + b) = p * (r + a) + p * d
  BY <1>1, <1>4, <1>7
<1>10. b * rout = a * rout + rout * d
  BY <1>1, <1>4, <1>7
<1>11. p * (r + a) \in Nat /\ p * d \in Nat /\ rout * d \in Nat
  BY <1>1, <1>7, MulNat
<1>12. p * (r + b) <= b * rout
  BY <1>1, <1>5, <1>8, <1>9, <1>10, <1>11
<1>13. q * (r + b) + (r + b) = (q + 1) * (r + b)
  BY <1>2, <1>4
<1>14. p <= q
  <2> SUFFICES ASSUME q + 1 <= p PROVE FALSE
    BY <1>1, <1>2
  <2>1. (q + 1) * (r + b) <= p * (r + b)
    BY <1>1, <1>2, MulMono
  <2>2. (q + 1) * (r + b) \in Nat /\ p * (r + b) \in Nat
    BY <1>1, <1>2, MulNat
  <2> QED BY <1>2, <1>6, <1>12, <1>13, <2>1, <2>2
<1> QED BY <1>14 DEF p, q

-----------------------------------------------------------------------------
(* Nothing is created or lost between the pool and the trader, and the     *)
(* product of the reserves is at least what it was.  A pool with an empty  *)
(* side is never traded with: its product says nothing.                    *)
TradingInv ==
    /\ {reserveA, reserveB, holdA, holdB} \subseteq Nat
    /\ {start.ra, start.rb, start.ha, start.hb} \subseteq Nat
    /\ fee \in Nat \X (Nat \ {0})
    /\ reserveA + holdA = start.ra + start.ha
    /\ reserveB + holdB = start.rb + start.hb
    /\ start.ra * start.rb <= reserveA * reserveB
    /\ \/ reserveA = start.ra /\ reserveB = start.rb
       \/ start.ra > 0 /\ start.rb > 0

LEMMA SwapKeeps ==
    ASSUME NEW rin \in Nat, NEW rout \in Nat, NEW num \in Nat, NEW den \in Nat,
           NEW x \in Nat, NEW k \in Int, k <= rin * rout,
           CPQuote(rin, rout, num, den, x) # Err
    PROVE  LET out == CPQuote(rin, rout, num, den, x)
           IN  /\ out \in Nat /\ out <= rout /\ rout - out \in Nat
               /\ rin > 0 /\ rout > 0
               /\ k <= (rin + x) * (rout - out)
<1> DEFINE out == CPQuote(rin, rout, num, den, x)
<1>1. out \in Nat /\ out < rout /\ rin > 0 /\ rout > 0
  BY CPDefined
<1>2. rin * rout <= (rin + x) * (rout - out)
  BY ProductNeverDecreases
<1> HIDE DEF out
<1>3. rout - out \in Nat /\ out <= rout
  BY <1>1
<1>4. rin * rout \in Nat /\ (rin + x) * (rout - out) \in Nat
  BY <1>3, MulNat
<1>5. k <= (rin + x) * (rout - out)
  BY <1>2, <1>4
<1> QED BY <1>1, <1>3, <1>5 DEF out

LEMMA SellAStep ==
    ASSUME TradingInv, NEW x \in 1 .. holdA, SellA(x)
    PROVE  TradingInv'
<1> DEFINE out == CPQuote(reserveA, reserveB, fee[1], fee[2], x)
<1>1. /\ out # Err /\ x \in Nat /\ x <= holdA
      /\ reserveA' = reserveA + x /\ holdA' = holdA - x
      /\ reserveB' = reserveB - out /\ holdB' = holdB + out
      /\ fee' = fee /\ start' = start
  BY DEF SellA, TradingInv
<1>2. /\ fee[1] \in Nat /\ fee[2] \in Nat /\ reserveA \in Nat /\ reserveB \in Nat
      /\ holdA \in Nat /\ holdB \in Nat /\ start.ra * start.rb \in Int
  BY DEF TradingInv
<1>3. /\ out \in Nat /\ out <= reserveB /\ reserveB - out \in Nat
      /\ reserveA > 0 /\ reserveB > 0
      /\ start.ra * start.rb <= (reserveA + x) * (reserveB - out)
  BY <1>1, <1>2, SwapKeeps DEF TradingInv
<1> HIDE DEF out
<1>4. start.ra * start.rb <= reserveA' * reserveB'
  BY <1>1, <1>3
<1>5. /\ reserveA' \in Nat /\ reserveB' \in Nat /\ holdA' \in Nat /\ holdB' \in Nat
      /\ reserveA' + holdA' = reserveA + holdA
      /\ reserveB' + holdB' = reserveB + holdB
  BY <1>1, <1>2, <1>3
<1>6. start.ra > 0 /\ start.rb > 0
  BY <1>3 DEF TradingInv
<1> QED BY <1>1, <1>4, <1>5, <1>6 DEF TradingInv

LEMMA SellBStep ==
    ASSUME TradingInv, NEW x \in 1 .. holdB, SellB(x)
    PROVE  TradingInv'
<1> DEFINE out == CPQuote(reserveB, reserveA, fee[1], fee[2], x)
<1>1. /\ out # Err /\ x \in Nat /\ x <= holdB
      /\ reserveB' = reserveB + x /\ holdB' = holdB - x
      /\ reserveA' = reserveA - out /\ holdA' = holdA + out
      /\ fee' = fee /\ start' = start
  BY DEF SellB, TradingInv
<1>2. /\ fee[1] \in Nat /\ fee[2] \in Nat /\ reserveA \in Nat /\ reserveB \in Nat
      /\ holdA \in Nat /\ holdB \in Nat /\ start.ra * start.rb \in Int
      /\ start.ra * start.rb <= reserveB * reserveA
  BY DEF TradingInv
<1>3. /\ out \in Nat /\ out <= reserveA /\ reserveA - out \in Nat
      /\ reserveA > 0 /\ reserveB > 0
      /\ start.ra * start.rb <= (reserveB + x) * (reserveA - out)
  BY <1>1, <1>2, SwapKeeps
<1> HIDE DEF out
<1>4. start.ra * start.rb <= reserveA' * reserveB'
  BY <1>1, <1>2, <1>3
<1>5. /\ reserveA' \in Nat /\ reserveB' \in Nat /\ holdA' \in Nat /\ holdB' \in Nat
      /\ reserveA' + holdA' = reserveA + holdA
      /\ reserveB' + holdB' = reserveB + holdB
  BY <1>1, <1>2, <1>3
<1>6. start.ra > 0 /\ start.rb > 0
  BY <1>3 DEF TradingInv
<1> QED BY <1>1, <1>4, <1>5, <1>6 DEF TradingInv

(* For every width, reserves, holdings, fees and sequence of swaps: trading *)
(* with a pool at the engine's quotes never makes money.                    *)
THEOREM TradingSafe == TradingSpec => []NoFreeLunch
<1>1. TradingInit => TradingInv
  <2> SUFFICES ASSUME TradingInit PROVE TradingInv
    OBVIOUS
  <2>1. reserveA \in Nat /\ reserveB \in Nat /\ holdA \in Nat /\ holdB \in Nat
    BY TradingAssumption DEF TradingInit
  <2>2. /\ start.ra = reserveA /\ start.rb = reserveB
        /\ start.ha = holdA /\ start.hb = holdB
    BY DEF TradingInit
  <2>3. reserveA * reserveB \in Nat
    BY <2>1, MulNat
  <2>4. fee \in Nat \X (Nat \ {0})
    BY TradingAssumption DEF TradingInit
  <2> QED BY <2>1, <2>2, <2>3, <2>4 DEF TradingInv
<1>2. TradingInv /\ [TradingNext]_tradingVars => TradingInv'
  <2>1. TradingInv /\ UNCHANGED tradingVars => TradingInv'
    BY DEF TradingInv, tradingVars
  <2> QED BY <2>1, SellAStep, SellBStep DEF TradingNext
<1>3. TradingInv => NoFreeLunch
  <2> SUFFICES ASSUME TradingInv,
                      holdA >= start.ha, holdB >= start.hb,
                      holdA > start.ha \/ holdB > start.hb
               PROVE  FALSE
    BY DEF NoFreeLunch
  <2>1. /\ reserveA \in Nat /\ reserveB \in Nat /\ start.ra \in Nat /\ start.rb \in Nat
        /\ reserveA <= start.ra /\ reserveB <= start.rb
        /\ reserveA < start.ra \/ reserveB < start.rb
    BY DEF TradingInv
  <2>2. /\ start.ra > 0 /\ start.rb > 0
        /\ start.ra * start.rb <= reserveA * reserveB
    BY <2>1 DEF TradingInv
  <2>3. ASSUME NEW a \in Nat, NEW b \in Nat, NEW c \in Nat, NEW d \in Nat,
               a < c, b <= d, c > 0, d > 0
        PROVE  a * b < c * d
    <3>1. a * b <= a * d
      BY <2>3, MulMono
    <3>2. (a + 1) * d <= c * d
      BY <2>3, MulMono
    <3>3. (a + 1) * d = a * d + d /\ a * d \in Nat /\ a * b \in Nat /\ c * d \in Nat
      BY <2>3, MulNat
    <3> QED BY <2>3, <3>1, <3>2, <3>3
  <2>4. CASE reserveA < start.ra
    <3>1. reserveA * reserveB < start.ra * start.rb
      BY <2>1, <2>2, <2>3, <2>4
    <3> QED BY <2>1, <2>2, <3>1
  <2>5. CASE reserveB < start.rb
    <3>1. reserveB * reserveA < start.rb * start.ra
      BY <2>1, <2>2, <2>3, <2>5
    <3> QED BY <2>1, <2>2, <3>1
  <2> QED BY <2>1, <2>4, <2>5
<1> QED BY <1>1, <1>2, <1>3, PTL DEF TradingSpec

-----------------------------------------------------------------------------
(* One step of a concentrated swap. *)

Result == Nat \cup {Err}

(* Every checked operation yields a natural number or an error. *)
LEMMA ResultTypes ==
    ASSUME NEW a \in Int, NEW b \in Int, NEW d \in Int
    PROVE  /\ Fits(a) \in Result /\ addU256(a, b) \in Result /\ subU256(a, b) \in Result
           /\ divDownU256(a, b) \in Result /\ divUpU256(a, b) \in Result
           /\ mulDiv(a, b, d) \in Result /\ mulDivUp(a, b, d) \in Result
<1> USE MaxU256Assumption
<1>1. \A v \in Int : Fits(v) \in Result
  BY DEF Fits, isU256, Result
<1>2. addU256(a, b) \in Result /\ subU256(a, b) \in Result
  BY <1>1 DEF addU256, subU256, Result
<1>3. \A n \in Int, m \in Int : m > 0 => DivDown(n, m) \in Int /\ DivUp(n, m) \in Int
  BY DEF DivDown, DivUp
<1>4. \A n \in Nat, m \in Nat : m > 0 => DivDown(n, m) \in Nat
  BY DEF DivDown
<1>5. divDownU256(a, b) \in Result /\ divUpU256(a, b) \in Result
  BY <1>1, <1>3, <1>4 DEF divDownU256, divUpU256, isU256, Result
<1>6. a * b \in Int
  OBVIOUS
<1>7. mulDiv(a, b, d) \in Result /\ mulDivUp(a, b, d) \in Result
  BY <1>1, <1>3, <1>6 DEF mulDiv, mulDivUp, Result
<1> QED BY <1>1, <1>2, <1>5, <1>7

(* What a result that is not an error is. *)
LEMMA ExactMulDiv ==
    ASSUME NEW a \in Int, NEW b \in Int, NEW d \in Int, mulDiv(a, b, d) # Err
    PROVE  a \in Nat /\ b \in Nat /\ d \in Nat \ {0} /\ mulDiv(a, b, d) = (a * b) \div d
  BY DEF mulDiv, DivDown, isU256, Fits

LEMMA ExactMulDivUp ==
    ASSUME NEW a \in Int, NEW b \in Int, NEW d \in Int, mulDivUp(a, b, d) # Err
    PROVE  a \in Nat /\ b \in Nat /\ d \in Nat \ {0} /\ mulDivUp(a, b, d) = DivUp(a * b, d)
  BY DEF mulDivUp, isU256, Fits

LEMMA ExactDivDown ==
    ASSUME NEW a \in Int, NEW b \in Int, divDownU256(a, b) # Err
    PROVE  a \in Nat /\ b \in Nat \ {0} /\ divDownU256(a, b) = a \div b
  BY DEF divDownU256, DivDown, isU256

LEMMA ExactDivUp ==
    ASSUME NEW a \in Int, NEW b \in Int, divUpU256(a, b) # Err
    PROVE  a \in Nat /\ b \in Nat \ {0} /\ divUpU256(a, b) = DivUp(a, b)
  BY DEF divUpU256, isU256, Fits

LEMMA ExactSum ==
    ASSUME NEW a \in Int, NEW b \in Int
    PROVE  /\ addU256(a, b) # Err => a \in Nat /\ b \in Nat /\ addU256(a, b) = a + b
           /\ subU256(a, b) # Err =>
                 a \in Nat /\ b \in Nat /\ b <= a /\ subU256(a, b) = a - b
  BY DEF addU256, subU256, isU256, Fits, Err

(* An input of token 0 that would reach the target price pays for it. *)
LEMMA DownPays ==
    ASSUME NEW n \in Nat, NEW cur \in Nat \ {0}, NEW tgt \in Nat \ {0}, tgt <= cur,
           NEW a \in Nat, n * cur <= tgt * (n + a * cur)
    PROVE  DivUp(DivUp(n * (cur - tgt), cur), tgt) <= a
<1>1. cur - tgt \in Nat /\ n * (cur - tgt) \in Nat /\ a * tgt \in Nat
  <2>1. cur - tgt \in Nat
    OBVIOUS
  <2> QED BY <2>1, MulNat
<1>2. n * (cur - tgt) = n * cur - n * tgt
  OBVIOUS
<1>3. tgt * (n + a * cur) = n * tgt + (a * tgt) * cur
  OBVIOUS
<1>4. n * cur \in Nat /\ n * tgt \in Nat /\ (a * tgt) * cur \in Nat
  BY <1>1, MulNat
<1>5. n * (cur - tgt) <= (a * tgt) * cur
  BY <1>2, <1>3, <1>4
<1>6. DivUp(n * (cur - tgt), cur) \in Nat /\ DivUp(n * (cur - tgt), cur) <= a * tgt
  BY <1>1, <1>5, Ceiling
<1> QED BY <1>6, Ceiling

(* The fee of an input that is at most what the fee leaves fits too. *)
LEMMA FeeFits ==
    ASSUME NEW a \in Nat, NEW r \in Nat, NEW p \in Nat, NEW c \in Nat \ {0},
           a <= (r * c) \div (p + c)
    PROVE  DivUp(a * p, c) \in Nat /\ a + DivUp(a * p, c) <= r
<1>1. p + c \in Nat \ {0} /\ r * c \in Nat /\ a * c \in Nat /\ a * p \in Nat /\ a * (p + c) \in Nat
  <2>1. p + c \in Nat \ {0}
    OBVIOUS
  <2> QED BY <2>1, MulNat
<1> DEFINE f == (r * c) \div (p + c)
<1>2. f \in Nat /\ f * (p + c) <= r * c
  BY <1>1, Floor
<1>3. a * (p + c) <= f * (p + c)
  BY <1>1, <1>2, MulMono
<1>4. f * (p + c) \in Nat
  BY <1>1, <1>2, MulNat
<1> HIDE DEF f
<1>5. a * (p + c) = a * p + a * c
  OBVIOUS
<1>6. a * p + a * c <= r * c
  BY <1>1, <1>2, <1>3, <1>4, <1>5
<1>7. a * c <= r * c
  BY <1>1, <1>6
<1>8. a <= r
  BY <1>7, MulCancel
<1>9. r - a \in Nat /\ (r - a) * c = r * c - a * c
  BY <1>8
<1>10. a * p <= (r - a) * c
  BY <1>1, <1>6, <1>9
<1>11. DivUp(a * p, c) \in Nat /\ DivUp(a * p, c) <= r - a
  BY <1>1, <1>9, <1>10, Ceiling
<1> QED BY <1>8, <1>11

(* The two forms of the price an input of token 0 moves to: down, and by   *)
(* no more than it pays for.                                               *)
LEMMA ExactForm ==
    ASSUME NEW n \in Nat, NEW cur \in Nat, NEW a \in Nat, n + a * cur \in Nat \ {0}
    PROVE  LET nxt == DivUp(n * cur, n + a * cur)
           IN  nxt <= cur /\ n * cur <= nxt * (n + a * cur)
<1> DEFINE nxt == DivUp(n * cur, n + a * cur)
<1>1. n * cur \in Nat /\ a * cur \in Nat
  BY MulNat
<1>2. nxt \in Nat /\ n * cur <= nxt * (n + a * cur)
  BY <1>1, Ceiling
<1>3. n * cur <= cur * (n + a * cur)
  <2>1. cur * (n + a * cur) = n * cur + cur * (a * cur) /\ cur * (a * cur) \in Nat
    BY <1>1, MulNat
  <2> QED BY <1>1, <2>1
<1>4. nxt <= cur
  BY <1>1, <1>3, Ceiling
<1> QED BY <1>2, <1>4

LEMMA CoarseForm ==
    ASSUME NEW n \in Nat, NEW cur \in Nat \ {0}, NEW a \in Nat \ {0}
    PROVE  LET nxt == DivUp(n, (n \div cur) + a)
           IN  nxt <= cur /\ n * cur <= nxt * (n + a * cur)
<1> DEFINE q   == n \div cur
           nxt == DivUp(n, q + a)
<1>1. q \in Nat /\ q * cur <= n /\ n < q * cur + cur /\ q * cur \in Nat
  BY Floor, MulNat
<1> HIDE DEF q
<1>2. q + a \in Nat \ {0} /\ a * cur \in Nat /\ n * cur \in Nat
  BY <1>1, MulNat
<1>3. nxt \in Nat /\ n <= nxt * (q + a)
  BY <1>2, Ceiling
<1>4. nxt * (q + a) \in Nat
  BY <1>2, <1>3, MulNat
<1>5. nxt <= cur
  <2>1. cur * (q + a) = q * cur + a * cur
    BY <1>1
  <2>2. 1 * cur <= a * cur
    BY MulMono
  <2>3. n <= cur * (q + a)
    BY <1>1, <1>2, <2>1, <2>2
  <2> QED BY <1>2, <2>3, Ceiling
<1> HIDE DEF nxt
<1>6. n * cur <= (nxt * (q + a)) * cur
  BY <1>3, <1>4, MulMono
<1>7. (nxt * (q + a)) * cur = (q * cur) * nxt + (a * cur) * nxt
  BY <1>1, <1>3
<1>8. (q * cur) * nxt <= n * nxt
  BY <1>1, <1>3, MulMono
<1>9. nxt * (n + a * cur) = n * nxt + (a * cur) * nxt
  BY <1>2, <1>3
<1>10. n * nxt \in Nat /\ (a * cur) * nxt \in Nat /\ (q * cur) * nxt \in Nat
  BY <1>1, <1>2, <1>3, MulNat
<1>11. n * cur <= nxt * (n + a * cur)
  BY <1>2, <1>6, <1>7, <1>8, <1>9, <1>10
<1> QED BY <1>5, <1>11 DEF nxt, q

LEMMA NextDown ==
    ASSUME NEW cur \in Nat, NEW lq \in Int, NEW a \in Nat, NEW n \in Nat, n = lq * Q96,
           nextSqrtFromInput(cur, lq, a, TRUE) \in Nat
    PROVE  LET nxt == nextSqrtFromInput(cur, lq, a, TRUE)
           IN  nxt <= cur /\ n * cur <= nxt * (n + a * cur)
<1> DEFINE nxt == nextSqrtFromInput(cur, lq, a, TRUE)
<1>0. MaxU256 \in Nat /\ Err = -1 /\ n * cur \in Nat /\ a * cur \in Nat /\ n + a * cur \in Nat
  <2>1. n * cur \in Nat /\ a * cur \in Nat
    BY MulNat
  <2> QED BY <2>1, MaxU256Assumption DEF Err
<1>a. nxt \in Nat
  OBVIOUS
<1> SUFFICES nxt <= cur /\ n * cur <= nxt * (n + a * cur)
  OBVIOUS
<1>1. CASE a = 0
  <2>1. nxt = cur
    BY <1>1 DEF nextSqrtFromInput
  <2> HIDE DEF nxt
  <2>2. nxt * (n + a * cur) = cur * (n + 0 * cur)
    BY <1>1, <2>1
  <2>3. cur * (n + 0 * cur) = n * cur
    OBVIOUS
  <2> QED BY <1>0, <2>1, <2>2, <2>3
<1>2. CASE a # 0
  <2>1. nxt = nextSqrtDown(cur, lq, a)
    BY <1>0, <1>2 DEF nextSqrtFromInput
  <2> HIDE DEF nxt
  <2>4. nxt \in Nat /\ nxt # Err
    BY <1>0, <1>a
  <2>a. Fits(n) = n \/ Fits(n) = Err
    BY DEF Fits
  <2>2. Fits(lq * Q96) = n
    BY <2>1, <2>4, <2>a DEF nextSqrtDown
  <2>3. \/ nxt = mulDivUp(n, cur, n + a * cur)
        \/ nxt = divUpU256(n, addU256(divDownU256(n, cur), a))
    BY <2>1, <2>2, <2>4 DEF nextSqrtDown
  <2>5. CASE nxt = mulDivUp(n, cur, n + a * cur)
    <3>1. n + a * cur \in Nat \ {0} /\ nxt = DivUp(n * cur, n + a * cur)
      BY <1>0, <2>4, <2>5, ExactMulDivUp
    <3> QED BY <3>1, ExactForm DEF nxt
  <2>6. CASE nxt = divUpU256(n, addU256(divDownU256(n, cur), a))
    <3> DEFINE q == divDownU256(n, cur)
    <3>1. q \in Int
      BY <1>0, ResultTypes DEF Result
    <3>2. nxt = divUpU256(n, addU256(q, a))
      BY <2>6
    <3> HIDE DEF q
    <3>3. addU256(q, a) \in Int
      BY <1>0, <3>1, ResultTypes DEF Result
    <3>4. addU256(q, a) \in Nat \ {0} /\ nxt = DivUp(n, addU256(q, a))
      BY <1>0, <2>4, <3>2, <3>3, ExactDivUp
    <3>5. q \in Nat /\ addU256(q, a) = q + a
      BY <1>0, <3>1, <3>4, ExactSum
    <3>6. q = n \div cur /\ cur \in Nat \ {0}
      BY <1>0, <3>5, ExactDivDown DEF q
    <3>7. nxt = DivUp(n, (n \div cur) + a)
      BY <3>4, <3>5, <3>6
    <3> QED BY <1>2, <3>6, <3>7, CoarseForm DEF nxt
  <2> QED BY <2>3, <2>5, <2>6
<1> QED BY <1>1, <1>2

LEMMA DearerTarget ==
    ASSUME NEW n \in Nat, NEW cur \in Nat, NEW a \in Nat, NEW nxt \in Nat, NEW tgt \in Nat,
           nxt <= tgt, n * cur <= nxt * (n + a * cur)
    PROVE  n * cur <= tgt * (n + a * cur)
<1>1. a * cur \in Nat /\ n * cur \in Nat
  BY MulNat
<1>2. n + a * cur \in Nat
  BY <1>1
<1>3. nxt * (n + a * cur) <= tgt * (n + a * cur)
  BY <1>2, MulMono
<1>4. nxt * (n + a * cur) \in Nat /\ tgt * (n + a * cur) \in Nat
  BY <1>2, MulNat
<1> QED BY <1>1, <1>3, <1>4

(* A move of the price downwards that reaches a target was given what the  *)
(* way there costs.                                                        *)
LEMMA DownStops ==
    ASSUME SwapMathAssumption,
           NEW cur \in Nat, NEW tgt \in Nat, tgt <= cur, NEW lq \in Int, NEW a \in Nat,
           nextSqrtFromInput(cur, lq, a, TRUE) \in Nat,
           amount0Delta(tgt, cur, lq, TRUE) # Err
    PROVE  LET nxt == nextSqrtFromInput(cur, lq, a, TRUE)
           IN  nxt <= cur /\ (nxt <= tgt => amount0Delta(tgt, cur, lq, TRUE) <= a)
<1> DEFINE nxt == nextSqrtFromInput(cur, lq, a, TRUE)
           n   == lq * Q96
           due == amount0Delta(tgt, cur, lq, TRUE)
<1>0. MaxU256 \in Nat /\ Q96 \in Nat \ {0} /\ n \in Int /\ cur - tgt \in Nat /\ Err = -1
  BY MaxU256Assumption DEF SwapMathAssumption, Err
<1>1. Lower(tgt, cur) = tgt /\ Higher(tgt, cur) = cur
  BY DEF Lower, Higher
<1>2. /\ tgt > 0 /\ lq >= 0
      /\ due = divUpU256(mulDivUp(Fits(n), subU256(cur, tgt), cur), tgt)
  BY <1>1 DEF amount0Delta
<1>3. mulDivUp(Fits(n), subU256(cur, tgt), cur) \in Int
  BY <1>0, ResultTypes DEF Result
<1>4. /\ mulDivUp(Fits(n), subU256(cur, tgt), cur) # Err
      /\ due = DivUp(mulDivUp(Fits(n), subU256(cur, tgt), cur), tgt)
  <2>1. divUpU256(mulDivUp(Fits(n), subU256(cur, tgt), cur), tgt) # Err
    BY <1>2
  <2> HIDE DEF n, due
  <2>2. /\ mulDivUp(Fits(n), subU256(cur, tgt), cur) \in Nat
        /\ due = DivUp(mulDivUp(Fits(n), subU256(cur, tgt), cur), tgt)
    BY <1>2, <1>3, <2>1, ExactDivUp
  <2> QED BY <1>0, <2>2
<1>5. Fits(n) \in Int /\ subU256(cur, tgt) \in Int
  BY <1>0, ResultTypes DEF Result
<1>6. /\ Fits(n) \in Nat /\ subU256(cur, tgt) \in Nat /\ cur \in Nat \ {0}
      /\ mulDivUp(Fits(n), subU256(cur, tgt), cur) = DivUp(Fits(n) * subU256(cur, tgt), cur)
  BY <1>4, <1>5, ExactMulDivUp
<1>7. Fits(n) = n /\ n \in Nat /\ subU256(cur, tgt) = cur - tgt
  <2>1. Fits(n) = n
    BY <1>0, <1>6 DEF Fits
  <2>2. subU256(cur, tgt) = cur - tgt
    BY <1>0, <1>6, ExactSum
  <2> QED BY <1>6, <2>1, <2>2
<1>8. due = DivUp(DivUp(n * (cur - tgt), cur), tgt)
  BY <1>4, <1>6, <1>7
<1>9. tgt \in Nat \ {0}
  BY <1>2
<1>10. nxt <= cur /\ n * cur <= nxt * (n + a * cur)
  BY <1>7, NextDown
<1>a. nxt \in Nat
  OBVIOUS
<1> HIDE DEF n, due, nxt
<1>11. ASSUME nxt <= tgt PROVE due <= a
  <2>4. n * cur <= tgt * (n + a * cur)
    BY <1>a, <1>7, <1>10, <1>11, DearerTarget
  <2>5. DivUp(DivUp(n * (cur - tgt), cur), tgt) <= a
    BY <1>6, <1>7, <1>9, <2>4, DownPays
  <2> QED BY <1>8, <2>5
<1> QED BY <1>10, <1>11 DEF due, nxt

(* The same for a move upwards: the arithmetic, then the move. *)
LEMMA UpPays ==
    ASSUME NEW cur \in Nat, NEW tgt \in Nat, NEW lq \in Nat \ {0}, NEW a \in Nat,
           NEW scale \in Nat \ {0}, cur < tgt
    PROVE  /\ (a * scale) \div lq \in Nat
           /\ tgt <= cur + ((a * scale) \div lq) => DivUp(lq * (tgt - cur), scale) <= a
<1> DEFINE m == (a * scale) \div lq
           d == tgt - cur
<1>1. a * scale \in Nat /\ d \in Nat
  BY MulNat
<1>2. m \in Nat /\ m * lq <= a * scale
  BY <1>1, Floor
<1> HIDE DEF m
<1>3. ASSUME tgt <= cur + m PROVE DivUp(lq * d, scale) <= a
  <2>1. d <= m
    BY <1>2, <1>3
  <2> HIDE DEF d
  <2>2. d * lq <= m * lq /\ d * lq \in Nat /\ m * lq \in Nat
    BY <1>1, <1>2, <2>1, MulMono, MulNat
  <2>3. lq * d = d * lq
    BY <1>1
  <2>4. lq * d \in Nat /\ lq * d <= a * scale
    BY <1>1, <1>2, <2>2, <2>3
  <2> QED BY <2>4, Ceiling
<1> QED BY <1>2, <1>3 DEF m

LEMMA UpStops ==
    ASSUME SwapMathAssumption,
           NEW cur \in Nat, NEW tgt \in Nat, cur < tgt, NEW lq \in Int, NEW a \in Nat,
           nextSqrtFromInput(cur, lq, a, FALSE) \in Nat,
           amount1Delta(cur, tgt, lq, TRUE) # Err
    PROVE  LET nxt == nextSqrtFromInput(cur, lq, a, FALSE)
           IN  cur <= nxt /\ (tgt <= nxt => amount1Delta(cur, tgt, lq, TRUE) <= a)
<1> DEFINE nxt == nextSqrtFromInput(cur, lq, a, FALSE)
           due == amount1Delta(cur, tgt, lq, TRUE)
<1>a. nxt \in Nat
  OBVIOUS
<1>0. MaxU256 \in Nat /\ Q96 \in Nat \ {0} /\ tgt - cur \in Nat /\ Err = -1
  BY MaxU256Assumption DEF SwapMathAssumption, Err
<1>1. due = mulDivUp(lq, subU256(tgt, cur), Q96)
  BY DEF amount1Delta, Lower, Higher
<1>2. subU256(tgt, cur) \in Int
  BY ResultTypes DEF Result, Err
<1>3. lq \in Nat /\ subU256(tgt, cur) \in Nat /\ due = DivUp(lq * subU256(tgt, cur), Q96)
  <2>1. mulDivUp(lq, subU256(tgt, cur), Q96) # Err
    BY <1>1
  <2> HIDE DEF due
  <2> QED BY <1>0, <1>1, <1>2, <2>1, ExactMulDivUp
<1>4. subU256(tgt, cur) = tgt - cur
  BY <1>0, <1>3, ExactSum
<1>5. CASE a = 0
  <2>1. nxt = cur
    BY <1>5 DEF nextSqrtFromInput
  <2> HIDE DEF nxt, due
  <2>2. cur <= nxt /\ ~(tgt <= nxt)
    BY <2>1
  <2> QED BY <2>2 DEF nxt, due
<1>6. CASE a # 0
  <2>1. nxt = nextSqrtUp(cur, lq, a)
    BY <1>0, <1>6 DEF nextSqrtFromInput
  <2> HIDE DEF nxt
  <2>a. nxt \in Nat /\ nxt # Err
    BY <1>0, <1>a
  <2>2. nxt = addU256(cur, mulDiv(a, Q96, lq))
    BY <2>a, <2>1 DEF nextSqrtUp
  <2>3. mulDiv(a, Q96, lq) \in Int
    BY <1>0, ResultTypes DEF Result
  <2>4. mulDiv(a, Q96, lq) \in Nat /\ nxt = cur + mulDiv(a, Q96, lq)
    BY <2>a, <2>2, <2>3, ExactSum
  <2>5. lq \in Nat \ {0} /\ mulDiv(a, Q96, lq) = (a * Q96) \div lq
    BY <1>0, <2>4, ExactMulDiv
  <2>6. nxt = cur + ((a * Q96) \div lq)
    BY <2>4, <2>5
  <2>7. /\ (a * Q96) \div lq \in Nat
        /\ tgt <= cur + ((a * Q96) \div lq) => DivUp(lq * (tgt - cur), Q96) <= a
    BY <1>0, <2>5, UpPays
  <2>8. due = DivUp(lq * (tgt - cur), Q96)
    BY <1>3, <1>4
  <2> HIDE DEF due
  <2>9. cur <= nxt
    <3> DEFINE m == (a * Q96) \div lq
    <3>1. m \in Nat /\ nxt = cur + m
      BY <2>6, <2>7
    <3> HIDE DEF m
    <3> QED BY <3>1
  <2>10. tgt <= nxt => due <= a
    BY <2>6, <2>7, <2>8
  <2> QED BY <2>9, <2>10 DEF due, nxt
<1> QED BY <1>5, <1>6

LEMMA DeltaTypes ==
    ASSUME SwapMathAssumption, NEW p \in Nat, NEW q \in Nat, NEW lq \in Int, NEW up \in BOOLEAN
    PROVE  amount0Delta(p, q, lq, up) \in Result /\ amount1Delta(p, q, lq, up) \in Result
<1>1. Lower(p, q) \in Nat /\ Higher(p, q) \in Nat /\ Q96 \in Nat /\ lq * Q96 \in Int
  BY DEF Lower, Higher, SwapMathAssumption
<1> DEFINE a == Lower(p, q)
           b == Higher(p, q)
           n == Fits(lq * Q96)
           d == subU256(b, a)
<1>2. n \in Int /\ d \in Int /\ a \in Int /\ b \in Int
  BY <1>1, ResultTypes DEF Result, Err
<1> HIDE DEF a, b, n, d
<1>3. mulDivUp(n, d, b) \in Int /\ mulDiv(n, d, b) \in Int
  BY <1>2, ResultTypes DEF Result, Err
<1>4. divUpU256(mulDivUp(n, d, b), a) \in Result /\ divDownU256(mulDiv(n, d, b), a) \in Result
  BY <1>2, <1>3, ResultTypes
<1>5. amount0Delta(p, q, lq, up) \in Result
  BY <1>4 DEF amount0Delta, Result, a, b, n, d
<1>6. mulDivUp(lq, d, Q96) \in Result /\ mulDiv(lq, d, Q96) \in Result
  BY <1>1, <1>2, ResultTypes
<1>7. amount1Delta(p, q, lq, up) \in Result
  BY <1>6 DEF amount1Delta, a, b, d
<1> QED BY <1>5, <1>7

LEMMA NextType ==
    ASSUME SwapMathAssumption, NEW cur \in Nat, NEW lq \in Int, NEW a \in Nat, NEW dir \in BOOLEAN
    PROVE  nextSqrtFromInput(cur, lq, a, dir) \in Result
<1>1. MaxU160 \in Nat /\ Q96 \in Nat /\ lq * Q96 \in Int /\ a * cur \in Int
  BY DEF SwapMathAssumption
<1> DEFINE n == Fits(lq * Q96)
<1>2. n \in Int
  BY <1>1, ResultTypes DEF Result, Err
<1> HIDE DEF n
<1>3. nextSqrtDown(cur, lq, a) \in Result
  <2>1. n + a * cur \in Int /\ divDownU256(n, cur) \in Int
    BY <1>1, <1>2, ResultTypes DEF Result, Err
  <2>2. addU256(divDownU256(n, cur), a) \in Int
    BY <2>1, ResultTypes DEF Result, Err
  <2>3. mulDivUp(n, cur, n + a * cur) \in Result /\ divUpU256(n, addU256(divDownU256(n, cur), a)) \in Result
    BY <1>2, <2>1, <2>2, ResultTypes
  <2> QED BY <2>3 DEF nextSqrtDown, Result, n
<1>4. nextSqrtUp(cur, lq, a) \in Result
  <2>1. mulDiv(a, Q96, lq) \in Int
    BY <1>1, ResultTypes DEF Result, Err
  <2>2. addU256(cur, mulDiv(a, Q96, lq)) \in Result
    BY <2>1, ResultTypes
  <2> QED BY <2>2 DEF nextSqrtUp, Result
<1> QED BY <1>3, <1>4 DEF nextSqrtFromInput, Result

(* A step of a concentrated swap takes no more than what remains of the    *)
(* input, fee included, and ends between its start and its target, with    *)
(* every rounding and whichever of the two formulas for the price is used. *)
THEOREM StepTakesNoMore ==
    ASSUME SwapMathAssumption,
           NEW cur \in Nat, NEW tgt \in Nat, NEW lq \in Int, NEW rest \in Nat, NEW pips \in Nat,
           pips <= Million,
           computeSwapStep(cur, tgt, lq, rest, pips).next # Err
    PROVE  LET s == computeSwapStep(cur, tgt, lq, rest, pips)
           IN  /\ s.next \in Nat /\ s.in \in Nat /\ s.out \in Nat /\ s.fee \in Nat
               /\ s.in + s.fee <= rest
               /\ IF cur >= tgt THEN tgt <= s.next /\ s.next <= cur
                                ELSE cur <= s.next /\ s.next <= tgt
<1> DEFINE s    == computeSwapStep(cur, tgt, lq, rest, pips)
           down == cur >= tgt
           comp == subU256(Million, pips)
           less == mulDiv(rest, comp, Million)
           due  == AmountIn(cur, tgt, lq, down)
           next == IF less >= due THEN tgt ELSE nextSqrtFromInput(cur, lq, less, down)
           in   == IF next = tgt THEN due ELSE AmountIn(cur, next, lq, down)
           out  == AmountOut(cur, next, lq, down)
           charge  == IF next = tgt THEN MaxedFee(in, pips) ELSE subU256(rest, in)
<1>0. Million \in Nat \ {0} /\ Err = -1
  BY DEF SwapMathAssumption, Err
<1>1. /\ comp > 0 /\ Err \notin {less, due, next, in, out, charge}
      /\ s = [next |-> next, in |-> in, out |-> out, fee |-> charge]
  <2>1. CASE comp <= 0 \/ Err \in {less, due, next, in, out, charge}
    <3>1. s = [next |-> Err, in |-> Err, out |-> Err, fee |-> Err]
      BY <2>1 DEF computeSwapStep
    <3> QED BY <3>1
  <2>2. CASE ~(comp <= 0 \/ Err \in {less, due, next, in, out, charge})
    <3>1. s = [next |-> next, in |-> in, out |-> out, fee |-> charge]
      BY <2>2 DEF computeSwapStep
    <3>2. comp \in Int
      BY <1>0, ResultTypes DEF Result
    <3> QED BY <2>2, <3>1, <3>2
  <2> QED BY <2>1, <2>2
<1>2. comp = Million - pips /\ comp \in Nat \ {0}
  <2>1. comp \in Int /\ comp # Err
    BY <1>0, <1>1, ResultTypes DEF Result
  <2>2. comp = Million - pips
    BY <1>0, <2>1, ExactSum
  <2> QED BY <1>0, <1>1, <2>2
<1> HIDE DEF comp
<1>3. less = (rest * comp) \div Million /\ less \in Nat
  <2>1. less # Err
    BY <1>1
  <2>2. less = (rest * comp) \div Million
    BY <1>0, <1>2, <2>1, ExactMulDiv
  <2>3. less \in Result
    BY <1>0, <1>2, ResultTypes
  <2> QED BY <2>1, <2>2, <2>3 DEF Result
<1> HIDE DEF less
<1>4. down \in BOOLEAN /\ \A q \in Nat : AmountIn(cur, q, lq, down) \in Result
                                         /\ AmountOut(cur, q, lq, down) \in Result
  <2>1. down \in BOOLEAN
    OBVIOUS
  <2>2. ASSUME NEW q \in Nat PROVE AmountIn(cur, q, lq, down) \in Result
                                   /\ AmountOut(cur, q, lq, down) \in Result
    <3> HIDE DEF down
    <3>1. /\ amount0Delta(q, cur, lq, TRUE) \in Result /\ amount1Delta(cur, q, lq, TRUE) \in Result
          /\ amount1Delta(q, cur, lq, FALSE) \in Result /\ amount0Delta(cur, q, lq, FALSE) \in Result
      BY DeltaTypes
    <3> QED BY <2>1, <3>1 DEF AmountIn, AmountOut
  <2> HIDE DEF down
  <2> QED BY <2>1, <2>2
<1>5. due \in Nat
  BY <1>1, <1>4 DEF Result
<1>6. next \in Nat
  <2>1. nextSqrtFromInput(cur, lq, less, down) \in Result
    BY <1>3, <1>4, NextType
  <2> QED BY <1>1, <2>1 DEF Result
<1>7. in \in Nat /\ out \in Nat
  BY <1>1, <1>4, <1>5, <1>6 DEF Result
<1>8. /\ next = tgt => due <= less
      /\ IF down THEN tgt <= next /\ next <= cur ELSE cur <= next /\ next <= tgt
  <2>1. CASE less >= due
    BY <1>3, <1>5, <2>1
  <2>2. CASE ~(less >= due)
    <3>1. next = nextSqrtFromInput(cur, lq, less, down) /\ ~(due <= less)
      BY <1>3, <1>5, <2>2
    <3>2. CASE down
      <4>1. due = amount0Delta(tgt, cur, lq, TRUE) /\ tgt <= cur
        BY <3>2 DEF AmountIn
      <4> HIDE DEF due, next, in, out, charge, down
      <4>2. down = TRUE
        BY <1>4, <3>2
      <4>3. next = nextSqrtFromInput(cur, lq, less, TRUE) /\ amount0Delta(tgt, cur, lq, TRUE) # Err
        BY <1>1, <3>1, <4>1, <4>2
      <4>4. next <= cur /\ ~(next <= tgt)
        <5>1. nextSqrtFromInput(cur, lq, less, TRUE) \in Nat
          BY <1>6, <4>3
        <5>2. /\ nextSqrtFromInput(cur, lq, less, TRUE) <= cur
              /\ nextSqrtFromInput(cur, lq, less, TRUE) <= tgt
                     => amount0Delta(tgt, cur, lq, TRUE) <= less
          BY <1>3, <4>1, <4>3, <5>1, DownStops
        <5> QED BY <3>1, <4>1, <4>3, <5>2
      <4> QED BY <1>6, <4>2, <4>4
    <3>3. CASE ~down
      <4>1. due = amount1Delta(cur, tgt, lq, TRUE) /\ cur < tgt
        BY <3>3 DEF AmountIn
      <4> HIDE DEF due, next, in, out, charge, down
      <4>2. down = FALSE
        BY <1>4, <3>3
      <4>3. next = nextSqrtFromInput(cur, lq, less, FALSE) /\ amount1Delta(cur, tgt, lq, TRUE) # Err
        BY <1>1, <3>1, <4>1, <4>2
      <4>4. cur <= next /\ ~(tgt <= next)
        <5>1. nextSqrtFromInput(cur, lq, less, FALSE) \in Nat
          BY <1>6, <4>3
        <5>2. /\ cur <= nextSqrtFromInput(cur, lq, less, FALSE)
              /\ tgt <= nextSqrtFromInput(cur, lq, less, FALSE)
                     => amount1Delta(cur, tgt, lq, TRUE) <= less
          BY <1>3, <4>1, <4>3, <5>1, UpStops
        <5> QED BY <3>1, <4>1, <4>3, <5>2
      <4> QED BY <1>6, <4>2, <4>4
    <3> QED BY <3>2, <3>3
  <2> QED BY <2>1, <2>2
<1>9. charge \in Nat /\ in + charge <= rest
  <2>1. CASE next = tgt
    <3>1. in = due /\ charge = mulDivUp(in, pips, Million - pips)
      BY <2>1 DEF MaxedFee
    <3>2. charge # Err
      BY <1>1
    <3> HIDE DEF due, next, in, out, charge, down
    <3>3. charge = DivUp(in * pips, comp)
      BY <1>2, <1>7, <3>1, <3>2, ExactMulDivUp
    <3>4. in <= (rest * comp) \div (pips + comp)
      <4>1. pips + comp = Million
        BY <1>0, <1>2
      <4> QED BY <1>3, <1>8, <2>1, <3>1, <4>1
    <3> QED BY <1>2, <1>7, <3>3, <3>4, FeeFits
  <2>2. CASE next # tgt
    <3>1. charge = subU256(rest, in) /\ charge # Err
      BY <1>1, <2>2
    <3> HIDE DEF due, next, in, out, charge, down
    <3>2. in <= rest /\ charge = rest - in
      BY <1>7, <3>1, ExactSum
    <3> QED BY <1>7, <3>2
  <2> QED BY <2>1, <2>2
<1>10. IF cur >= tgt THEN tgt <= next /\ next <= cur ELSE cur <= next /\ next <= tgt
  <2> HIDE DEF next
  <2> QED BY <1>8
<1> HIDE DEF due, next, in, out, charge, down
<1>11. s.next = next /\ s.in = in /\ s.out = out /\ s.fee = charge
  BY <1>1
<1> HIDE DEF s
<1> QED BY <1>6, <1>7, <1>9, <1>10, <1>11 DEF s

-----------------------------------------------------------------------------
(* The walk through the ticks. *)

SwapAssumptions == SwapMathAssumption /\ ConcentratedAssumption

Walking == pc \in {"loop", "end", "done"}

(* What every state of a swap is, whatever the tick of the pool. *)
SwapTypes ==
    /\ pool \in TickPool /\ Sorted(pool.ticks) /\ zeroForOne \in BOOLEAN
    /\ sqrtPrice \in Nat /\ remaining \in Nat /\ amountOut \in Nat /\ liquidity \in Int

SwapInv ==
    /\ SwapTypes
    /\ Walking => /\ pool.pips < Million
                  /\ \E t \in DOMAIN TickPrice : TickPrice[t] <= sqrtPrice
    /\ pc = "start" => sqrtPrice = pool.price /\ liquidity = pool.liquidity
    /\ NeverOverconsumed

Between(s) ==
    IF sqrtPrice >= Target THEN Target <= s.next /\ s.next <= sqrtPrice
                           ELSE sqrtPrice <= s.next /\ s.next <= Target

Taken(s) ==
    /\ s.next \in Nat /\ s.in \in Nat /\ s.out \in Nat /\ s.fee \in Nat
    /\ s.in + s.fee <= remaining
    /\ Between(s)

(* The step that the loop computes where it is. *)
Computed(s) ==
    /\ liquidity > 0 /\ s.next # Err
    /\ s = computeSwapStep(sqrtPrice, Target, liquidity, remaining, pool.pips)

LEMMA ElementOf == ASSUME NEW S, NEW q \in Seq(S), NEW i \in DOMAIN q PROVE q[i] \in S
  OBVIOUS

LEMMA PoolFacts ==
    ASSUME ConcentratedAssumption, SwapTypes
    PROVE  /\ pool.price \in Nat /\ pool.liquidity \in Int /\ pool.tick \in Int /\ pool.pips \in Nat
           /\ Len(pool.ticks) \in Nat /\ DOMAIN pool.ticks = 1 .. Len(pool.ticks)
           /\ \A i \in DOMAIN pool.ticks :
                 /\ pool.ticks[i].index \in DOMAIN TickPrice /\ pool.ticks[i].index \in Int
                 /\ pool.ticks[i].net \in Int /\ PriceAt(i) \in Nat
           /\ limit \in Nat /\ limit >= MinRatio /\ Target \in Nat
<1>1. /\ pool.price \in Nat /\ pool.liquidity \in Int /\ pool.tick \in Int /\ pool.pips \in Nat
      /\ pool.ticks \in Seq([index : DOMAIN TickPrice, net : Int])
  BY DEF SwapTypes, TickPool
<1>2. Len(pool.ticks) \in Nat /\ DOMAIN pool.ticks = 1 .. Len(pool.ticks)
  BY <1>1
<1>3. ASSUME NEW i \in DOMAIN pool.ticks
      PROVE  /\ pool.ticks[i].index \in DOMAIN TickPrice /\ pool.ticks[i].index \in Int
             /\ pool.ticks[i].net \in Int /\ PriceAt(i) \in Nat
  <2>1. pool.ticks[i] \in [index : DOMAIN TickPrice, net : Int]
    BY <1>1, ElementOf
  <2>2. pool.ticks[i].index \in DOMAIN TickPrice /\ pool.ticks[i].net \in Int
    BY <2>1
  <2>3. DOMAIN TickPrice \subseteq Int /\ TickPrice \in [DOMAIN TickPrice -> Nat]
    BY DEF ConcentratedAssumption
  <2> QED BY <2>2, <2>3 DEF PriceAt
<1>4. limit \in Nat /\ limit >= MinRatio
  BY DEF limit, ConcentratedAssumption, SwapTypes
<1>5. Target \in Nat
  BY <1>3, <1>4 DEF Target, Crossing
<1> QED BY <1>1, <1>2, <1>3, <1>4, <1>5

(* What a step of the loop is: an error, the end, or an accounted step that *)
(* the pool can take.                                                      *)
LEMMA StepCases ==
    ASSUME SwapAssumptions, SwapInv, SwapStep
    PROVE  \/ pc' \in {"arithmetic", "noLiquidity", "end"} /\ UNCHANGED <<args, swap>>
           \/ pc = "loop" /\ \E s : Taken(s) /\ Computed(s) /\ Advance(s)
<1> DEFINE s == computeSwapStep(sqrtPrice, Target, liquidity, remaining, pool.pips)
           consumed == addU256(s.in, s.fee)
<1>1. CASE s.next = Err \/ consumed = Err
  BY <1>1 DEF SwapStep, Fail
<1>2. CASE ~(s.next = Err \/ consumed = Err)
  <2>1. pool.pips \in Nat /\ pool.pips <= Million /\ Target \in Nat
    <3>1. pool.pips < Million /\ pool.pips \in Nat /\ Target \in Nat
      BY PoolFacts DEF SwapInv, SwapAssumptions, SwapStep, Walking
    <3> QED BY <3>1 DEF SwapAssumptions, SwapMathAssumption
  <2>2. Taken(s)
    <3>1. sqrtPrice \in Nat /\ liquidity \in Int /\ remaining \in Nat
      BY DEF SwapInv, SwapTypes
    <3> QED BY <1>2, <2>1, <3>1, StepTakesNoMore DEF SwapAssumptions, Taken, Between
  <2>3. pc = "loop" /\ Computed(s)
    <3>1. pc = "loop" /\ liquidity > 0 /\ s.next # Err
      BY <1>2 DEF SwapStep
    <3> QED BY <3>1 DEF Computed
  <2>4. ~(consumed > remaining)
    <3>1. s.in \in Nat /\ s.fee \in Nat /\ s.in + s.fee <= remaining /\ remaining \in Nat
      BY <2>2 DEF Taken, SwapInv, SwapTypes
    <3>2. consumed = s.in + s.fee
      <4> HIDE DEF s
      <4> QED BY <1>2, <3>1, ExactSum
    <3> HIDE DEF s, consumed
    <3> QED BY <3>1, <3>2
  <2>5. \/ pc' \in {"arithmetic", "noLiquidity", "end"} /\ UNCHANGED <<args, swap>>
        \/ Advance(s)
    <3> HIDE DEF Advance
    <3> QED BY <1>2, <2>4 DEF SwapStep, Fail
  <2> QED BY <2>2, <2>3, <2>5
<1> QED BY <1>1, <1>2

(* The tick a settled pool is at. *)
LEMMA TickAfterExists ==
    ASSUME ConcentratedAssumption, SwapTypes,
           \E t \in DOMAIN TickPrice : TickPrice[t] <= sqrtPrice
    PROVE  \E t \in DOMAIN TickPrice :
              /\ TickPrice[t] <= sqrtPrice
              /\ \A u \in DOMAIN TickPrice : TickPrice[u] <= sqrtPrice => u <= t
<1>1. /\ sqrtPrice \in Nat /\ \A t \in DOMAIN TickPrice : t \in Int /\ TickPrice[t] \in Nat
      /\ \A t, u \in DOMAIN TickPrice : t < u => TickPrice[t] < TickPrice[u]
  BY DEF SwapTypes, ConcentratedAssumption
<1> DEFINE low == { t \in DOMAIN TickPrice : TickPrice[t] <= sqrtPrice }
           T   == { sqrtPrice - TickPrice[t] : t \in low }
<1>2. T \subseteq Nat /\ T # {}
  BY <1>1
<1>3. PICK n \in T : \A m \in T : n <= m
  BY <1>2, LeastNat
<1>4. PICK t \in low : n = sqrtPrice - TickPrice[t]
  BY <1>3
<1>5. ASSUME NEW u \in DOMAIN TickPrice, TickPrice[u] <= sqrtPrice PROVE u <= t
  <2>1. sqrtPrice - TickPrice[t] <= sqrtPrice - TickPrice[u]
    BY <1>3, <1>4, <1>5
  <2>2. TickPrice[u] <= TickPrice[t] /\ t \in DOMAIN TickPrice
    BY <1>1, <1>4, <2>1
  <2> QED BY <1>1, <2>2
<1> QED BY <1>4, <1>5

LEMMA TickAfterTypes ==
    ASSUME ConcentratedAssumption, SwapTypes,
           \E t \in DOMAIN TickPrice : TickPrice[t] <= sqrtPrice
    PROVE  TickAfter \in Int
<1>1. CASE zeroForOne /\ idx + 1 \in DOMAIN pool.ticks /\ PriceAt(idx + 1) = sqrtPrice
  <2>1. TickAfter = pool.ticks[idx + 1].index - 1
    BY <1>1 DEF TickAfter
  <2> QED BY <1>1, <2>1, PoolFacts
<1>2. CASE ~(zeroForOne /\ idx + 1 \in DOMAIN pool.ticks /\ PriceAt(idx + 1) = sqrtPrice)
  <2>1. TickAfter \in DOMAIN TickPrice
    BY <1>2, TickAfterExists DEF TickAfter
  <2> QED BY <2>1 DEF ConcentratedAssumption
<1> QED BY <1>1, <1>2

LEMMA SettledPool ==
    ASSUME ConcentratedAssumption, SwapTypes, TickAfter \in Int, SellBack
    PROVE  /\ pool' \in TickPool /\ pool'.ticks = pool.ticks /\ pool'.price = sqrtPrice
           /\ pool'.liquidity = liquidity /\ pool'.tick = TickAfter
  BY DEF SellBack, SwapTypes, TickPool

(* No step goes below every tick. *)
LEMMA NextAboveFloor ==
    ASSUME SwapAssumptions, SwapInv, Walking, NEW s, Taken(s)
    PROVE  \E t \in DOMAIN TickPrice : TickPrice[t] <= s.next
<1>1. /\ \A t \in DOMAIN TickPrice : TickPrice[t] \in Nat
      /\ sqrtPrice \in Nat /\ s.next \in Nat /\ MinRatio \in Nat
      /\ limit \in Nat /\ MinRatio <= limit /\ Target \in Nat
  BY PoolFacts DEF SwapAssumptions, ConcentratedAssumption, SwapInv, SwapTypes, Taken
<1>2. sqrtPrice <= s.next \/ Target <= s.next
  BY DEF Taken, Between
<1>3. \E t \in DOMAIN TickPrice : TickPrice[t] <= sqrtPrice
  BY DEF SwapInv
<1>4. \E t \in DOMAIN TickPrice : TickPrice[t] <= Target
  <2>1. CASE Crossing
    <3>1. idx \in DOMAIN pool.ticks /\ Target = TickPrice[pool.ticks[idx].index]
      BY <2>1 DEF Crossing, Target, PriceAt
    <3>2. pool.ticks[idx].index \in DOMAIN TickPrice
      BY <3>1, PoolFacts DEF SwapAssumptions, SwapInv
    <3> QED BY <1>1, <3>1, <3>2
  <2>2. CASE ~Crossing
    <3>1. Target = limit
      BY <2>2 DEF Target
    <3>2. PICK t \in DOMAIN TickPrice : TickPrice[t] <= MinRatio
      BY DEF SwapAssumptions, ConcentratedAssumption
    <3> QED BY <1>1, <3>1, <3>2
  <2> QED BY <2>1, <2>2
<1> QED BY <1>1, <1>2, <1>3, <1>4

LEMMA InitSwapInv == ASSUME SwapAssumptions, Init PROVE SwapInv
<1>1. pool \in TickPool /\ Sorted(pool.ticks) /\ amountIn \in Nat
  BY DEF Init, SwapAssumptions, ConcentratedAssumption
<1>2. pool.price \in Nat /\ pool.liquidity \in Int
  BY <1>1 DEF TickPool
<1> QED BY <1>1, <1>2 DEF Init, SwapInv, SwapTypes, Walking, NeverOverconsumed

LEMMA NextSwapInv == ASSUME SwapAssumptions, SwapInv, [Next]_vars PROVE SwapInv'
<1> USE DEF SwapInv
<1>1. CASE UNCHANGED vars
  BY <1>1 DEF vars, args, swap, SwapTypes, Walking, NeverOverconsumed
<1>2. CASE Reject \/ Dry \/ Finish
  BY <1>2 DEF Reject, Dry, Finish, Fail, args, swap, SwapTypes, Walking, NeverOverconsumed
<1>3. CASE Begin
  <2>1. SwapTypes'
    BY <1>3 DEF Begin, args, SwapTypes
  <2>2. \E t \in DOMAIN TickPrice : TickPrice[t] <= sqrtPrice
    <3>1. PICK t \in DOMAIN TickPrice : TickPrice[t] <= MinRatio /\ TickPrice[t] \in Nat
      BY DEF SwapAssumptions, ConcentratedAssumption
    <3>2. MinRatio \in Nat /\ MinRatio <= sqrtPrice /\ sqrtPrice \in Nat
      BY <1>3 DEF Begin, Usable, SwapAssumptions, ConcentratedAssumption, SwapTypes
    <3> QED BY <3>1, <3>2
  <2>3. pool.pips < Million /\ UNCHANGED <<pool, sqrtPrice>>
    BY <1>3 DEF Begin, Usable, args
  <2> QED BY <1>3, <2>1, <2>2, <2>3 DEF Begin, NeverOverconsumed
<1>4. CASE SwapStep
  <2>1. CASE pc' \in {"arithmetic", "noLiquidity", "end"} /\ UNCHANGED <<args, swap>>
    BY <1>4, <2>1 DEF SwapStep, args, swap, SwapTypes, Walking, NeverOverconsumed
  <2>2. ASSUME pc = "loop", NEW s, Taken(s), Advance(s) PROVE SwapInv'
    <3>1. /\ UNCHANGED <<pool, zeroForOne>> /\ sqrtPrice' = s.next /\ pc' \in {"loop", "end"}
          /\ remaining' = remaining - (s.in + s.fee) /\ amountOut' = amountOut + s.out
          /\ liquidity' = liquidity \/ (idx \in DOMAIN pool.ticks /\ liquidity' = CrossedLiquidity)
      BY <2>2 DEF Advance, args, Crossing
    <3>2. liquidity' \in Int
      <4>1. CASE idx \in DOMAIN pool.ticks
        <5>1. pool.ticks[idx].net \in Int
          BY <4>1, PoolFacts DEF SwapAssumptions
        <5>2. CrossedLiquidity \in Int
          BY <5>1 DEF CrossedLiquidity, SwapTypes
        <5> QED BY <3>1, <5>2 DEF SwapTypes
      <4>2. CASE idx \notin DOMAIN pool.ticks
        BY <3>1, <4>2 DEF SwapTypes
      <4> QED BY <4>1, <4>2
    <3>3. SwapTypes'
      <4>1. s.next \in Nat /\ s.in \in Nat /\ s.out \in Nat /\ s.fee \in Nat
            /\ s.in + s.fee <= remaining
        BY <2>2 DEF Taken
      <4> QED BY <3>1, <3>2, <4>1 DEF SwapTypes
    <3>4. \E t \in DOMAIN TickPrice : TickPrice[t] <= s.next
      BY <2>2, NextAboveFloor DEF Walking
    <3> QED BY <2>2, <3>1, <3>3, <3>4 DEF Walking, NeverOverconsumed
  <2> QED BY <1>4, <2>1, <2>2, StepCases
<1>5. CASE SellBack
  <2>1. pc = "done" /\ TickAfter \in Int /\ amountOut \in Nat
    BY <1>5, TickAfterTypes DEF SellBack, Walking, SwapAssumptions, SwapTypes
  <2>2. pool' \in TickPool /\ pool'.ticks = pool.ticks
    BY <1>5, <2>1, SettledPool DEF SwapAssumptions
  <2> QED BY <1>5, <2>1, <2>2 DEF SellBack, SwapTypes, Walking, NeverOverconsumed, Sorted
<1> QED BY <1>1, <1>2, <1>3, <1>4, <1>5 DEF Next

(* No step of a concentrated swap takes more than what is left of the      *)
(* input, whatever the ticks, the prices and the width.                    *)
THEOREM NothingOverconsumed ==
    ASSUME SwapMathAssumption, ConcentratedAssumption
    PROVE  Spec => []NeverOverconsumed
<1>1. SwapAssumptions
  BY DEF SwapAssumptions
<1>2. Init => SwapInv
  BY <1>1, InitSwapInv
<1>3. SwapInv /\ [Next]_vars => SwapInv'
  BY <1>1, NextSwapInv
<1>4. SwapInv => NeverOverconsumed
  BY DEF SwapInv
<1> QED BY <1>2, <1>3, <1>4, PTL DEF Spec

-----------------------------------------------------------------------------
(* The prefix sums of the net liquidity give that of any range of ticks.   *)
Sums(g) ==
    /\ \A n \in 0 .. Len(pool.ticks) : g[n] \in Int
    /\ \A n \in 1 .. Len(pool.ticks) : g[n] = g[n - 1] + pool.ticks[n].net

LEMMA SumsExist ==
    ASSUME ConcentratedAssumption, SwapTypes
    PROVE  \E g : Sums(g)
<1> DEFINE N == Len(pool.ticks)
           step == [q \in (1 .. N) \X Int |-> q[2] + pool.ticks[q[1]].net]
<1>1. N \in Nat /\ \A i \in 1 .. N : pool.ticks[i].net \in Int
  BY PoolFacts
<1>2. step \in [(1 .. N) \X Int -> Int]
  BY <1>1
<1>3. PICK g : Iterates(g, N, Int, 0, step)
  <2>1. N \in Nat /\ 0 \in Int /\ step \in [(1 .. N) \X Int -> Int]
    BY <1>1, <1>2
  <2> HIDE DEF step, N
  <2> QED BY <2>1, RecursionExists
<1>4. g \in [0 .. N -> Int] /\ \A n \in 1 .. N : g[n] = step[<<n, g[n - 1]>>]
  BY <1>3 DEF Iterates
<1>5. ASSUME NEW n \in 1 .. N PROVE g[n] = g[n - 1] + pool.ticks[n].net
  <2>1. n - 1 \in 0 .. N /\ g[n - 1] \in Int
    BY <1>1, <1>4
  <2>2. step[<<n, g[n - 1]>>] = g[n - 1] + pool.ticks[n].net
    BY <2>1
  <2> QED BY <1>4, <2>2
<1> QED BY <1>4, <1>5 DEF Sums

LEMMA NetOfSums ==
    ASSUME ConcentratedAssumption, SwapTypes, NEW g, Sums(g),
           NEW i \in 1 .. Len(pool.ticks), NEW j \in 1 .. Len(pool.ticks), i <= j
    PROVE  NetOf(i, j) = g[j] - g[i - 1]
<1> DEFINE N == Len(pool.ticks)
           net(n) == pool.ticks[n].net
           Rec(h) == h = [n \in i .. j |-> net(n) + (IF n = i THEN 0 ELSE h[n - 1])]
           f == [n \in i .. j |-> g[n] - g[i - 1]]
           c == CHOOSE h : Rec(h)
<1>1. /\ N \in Nat /\ i \in Nat \ {0} /\ j \in Nat \ {0} /\ j <= N
      /\ \A n \in i .. j : n \in 1 .. N /\ net(n) \in Int /\ g[n] \in Int /\ g[n - 1] \in Int
                           /\ g[n] = g[n - 1] + net(n)
  <2>1. N \in Nat /\ \A n \in 1 .. N : net(n) \in Int
    BY PoolFacts
  <2> QED BY <2>1 DEF Sums
<1>2. g[i - 1] \in Int
  BY <1>1
<1>3. Rec(f)
  <2>1. ASSUME NEW n \in i .. j
        PROVE  f[n] = net(n) + (IF n = i THEN 0 ELSE f[n - 1])
    <3>1. CASE n = i
      BY <1>1, <1>2, <3>1
    <3>2. CASE n # i
      <4>1. n - 1 \in i .. j /\ f[n - 1] = g[n - 1] - g[i - 1]
        BY <1>1, <3>2
      <4>2. f[n] = g[n] - g[i - 1]
        OBVIOUS
      <4> HIDE DEF f, net
      <4> QED BY <1>1, <1>2, <3>2, <4>1, <4>2
    <3> QED BY <3>1, <3>2
  <2> QED BY <2>1
<1>4. Rec(c)
  BY <1>3
<1>5. \A n \in i .. j : c[n] = net(n) + (IF n = i THEN 0 ELSE c[n - 1])
  <2> HIDE DEF c, net
  <2> QED BY <1>4
<1> DEFINE S == { k \in Nat : i + k <= j => c[i + k] = g[i + k] - g[i - 1] }
<1>6. 0 \in S
  <2> HIDE DEF c
  <2>1. i \in i .. j /\ c[i] = net(i)
    <3>1. i \in i .. j /\ net(i) \in Int
      BY <1>1
    <3> HIDE DEF net
    <3> QED BY <1>5, <3>1
  <2>2. c[i] = g[i] - g[i - 1]
    <3> HIDE DEF net
    <3> QED BY <1>1, <1>2, <2>1
  <2> QED BY <1>1, <2>2
<1>7. ASSUME NEW k \in Nat, k \in S PROVE k + 1 \in S
  <2> SUFFICES ASSUME i + (k + 1) <= j PROVE c[i + (k + 1)] = g[i + (k + 1)] - g[i - 1]
    OBVIOUS
  <2> DEFINE n == i + (k + 1)
  <2>1. n \in i .. j /\ n # i /\ n - 1 = i + k /\ i + k <= j
    BY <1>1
  <2>2. c[n - 1] = g[n - 1] - g[i - 1]
    BY <1>7, <2>1
  <2> HIDE DEF n, c, net
  <2>3. c[n] = net(n) + c[n - 1]
    BY <1>5, <2>1
  <2>4. c[n] = g[n] - g[i - 1]
    BY <1>1, <1>2, <2>1, <2>2, <2>3
  <2> QED BY <2>4 DEF n
<1>8. c[j] = g[j] - g[i - 1]
  <2> HIDE DEF S
  <2>1. Nat \subseteq S
    BY <1>6, <1>7, SetInduction
  <2>2. j - i \in S /\ i + (j - i) = j
    BY <1>1, <2>1
  <2> HIDE DEF c
  <2> QED BY <1>1, <2>2 DEF S
<1>9. NetOf(i, j) = c[j]
  <2>1. ~(i > j)
    BY <1>1
  <2> QED BY <2>1 DEF NetOf
<1> QED BY <1>8, <1>9

(* The net liquidity of the ticks from one number to another, one more of  *)
(* them at either end.                                                     *)
LEMMA NetOfSteps ==
    ASSUME ConcentratedAssumption, SwapTypes, NEW i \in Int, NEW j \in Int,
           1 <= i, i <= j + 1, j <= Len(pool.ticks)
    PROVE  /\ NetOf(i, j) \in Int
           /\ i > 1 => NetOf(i - 1, j) = pool.ticks[i - 1].net + NetOf(i, j)
           /\ j < Len(pool.ticks) => NetOf(i, j + 1) = NetOf(i, j) + pool.ticks[j + 1].net
<1> DEFINE N == Len(pool.ticks)
<1>1. PICK g : Sums(g)
  BY SumsExist
<1>2. /\ N \in Nat /\ \A n \in 0 .. N : g[n] \in Int
      /\ \A n \in 1 .. N : pool.ticks[n].net \in Int /\ g[n] = g[n - 1] + pool.ticks[n].net
  BY <1>1, PoolFacts DEF Sums
<1>3. ASSUME NEW a \in Int, NEW b \in Int, 1 <= a, a <= b + 1, b <= N
      PROVE  NetOf(a, b) = g[b] - g[a - 1] /\ g[b] \in Int /\ g[a - 1] \in Int
  <2>1. g[b] \in Int /\ g[a - 1] \in Int
    BY <1>2, <1>3
  <2>2. CASE a <= b
    <3>1. a \in 1 .. N /\ b \in 1 .. N
      BY <1>2, <1>3, <2>2
    <3> QED BY <1>1, <2>1, <2>2, <3>1, NetOfSums
  <2>3. CASE a > b
    <3>1. a - 1 = b
      BY <1>3, <2>3
    <3>2. NetOf(a, b) = 0
      BY <2>3 DEF NetOf
    <3> QED BY <2>1, <3>1, <3>2
  <2> QED BY <1>3, <2>2, <2>3
<1>4. NetOf(i, j) = g[j] - g[i - 1] /\ g[j] \in Int /\ g[i - 1] \in Int
  BY <1>3
<1>5. ASSUME i > 1 PROVE NetOf(i - 1, j) = pool.ticks[i - 1].net + NetOf(i, j)
  <2>1. NetOf(i - 1, j) = g[j] - g[(i - 1) - 1] /\ g[(i - 1) - 1] \in Int
    BY <1>3, <1>5
  <2>2. g[i - 1] = g[(i - 1) - 1] + pool.ticks[i - 1].net /\ pool.ticks[i - 1].net \in Int
    BY <1>2, <1>5
  <2> QED BY <1>4, <2>1, <2>2
<1>6. ASSUME j < N PROVE NetOf(i, j + 1) = NetOf(i, j) + pool.ticks[j + 1].net
  <2>1. NetOf(i, j + 1) = g[j + 1] - g[i - 1] /\ g[j + 1] \in Int
    <3>1. j + 1 \in Int /\ i <= (j + 1) + 1 /\ j + 1 <= N
      BY <1>2, <1>6
    <3> QED BY <1>3, <3>1
  <2>2. j + 1 \in 1 .. N /\ (j + 1) - 1 = j
    BY <1>2, <1>6
  <2>3. g[j + 1] = g[j] + pool.ticks[j + 1].net /\ pool.ticks[j + 1].net \in Int
    BY <1>2, <2>2
  <2> QED BY <1>4, <2>1, <2>3
<1> QED BY <1>4, <1>5, <1>6

-----------------------------------------------------------------------------
(* The search for the first tick above the pool's finds it.                *)
LEMMA FirstTickFound ==
    ASSUME ConcentratedAssumption, SwapTypes
    PROVE  LET first == IF zeroForOne THEN FirstTick + 1 ELSE FirstTick
           IN  /\ FirstTick \in Int /\ first \in 1 .. Len(pool.ticks) + 1
               /\ \A i \in DOMAIN pool.ticks :
                     IF i < first THEN pool.ticks[i].index <= pool.tick
                                  ELSE pool.ticks[i].index > pool.tick
<1> DEFINE N == Len(pool.ticks)
           above == { i \in DOMAIN pool.ticks : pool.ticks[i].index > pool.tick }
<1>1. /\ N \in Nat /\ DOMAIN pool.ticks = 1 .. N /\ pool.tick \in Int
      /\ \A i \in 1 .. N : pool.ticks[i].index \in Int
      /\ \A i, j \in 1 .. N : i < j => pool.ticks[i].index < pool.ticks[j].index
  <2>1. N \in Nat /\ DOMAIN pool.ticks = 1 .. N /\ pool.tick \in Int
        /\ \A i \in 1 .. N : pool.ticks[i].index \in Int
    BY PoolFacts
  <2> QED BY <2>1 DEF SwapTypes, Sorted
<1>2. \E k \in 1 .. N + 1 : above = k .. N
  <2>1. CASE above = {}
    <3>1. above = (N + 1) .. N /\ N + 1 \in 1 .. N + 1
      BY <1>1, <2>1
    <3> QED BY <3>1
  <2>2. CASE above # {}
    <3>1. above \subseteq Nat
      BY <1>1
    <3>2. PICK k \in above : \A i \in above : k <= i
      <4> HIDE DEF above
      <4> QED BY <2>2, <3>1, LeastNat
    <3>3. k \in 1 .. N /\ pool.ticks[k].index > pool.tick
      BY <1>1
    <3>4. ASSUME NEW i \in k .. N PROVE i \in above
      <4>1. i \in 1 .. N /\ (i = k \/ k < i)
        BY <1>1, <3>3, <3>4
      <4>2. pool.ticks[i].index > pool.tick
        BY <1>1, <3>3, <4>1
      <4> QED BY <1>1, <4>1, <4>2
    <3>5. above \subseteq k .. N
      <4>1. \A i \in above : i \in 1 .. N
        BY <1>1
      <4> HIDE DEF above
      <4> QED BY <1>1, <3>2, <3>3, <4>1
    <3>6. above = k .. N
      <4> HIDE DEF above
      <4> QED BY <3>4, <3>5
    <3> HIDE DEF above
    <3>7. k \in 1 .. N + 1
      BY <1>1, <3>3
    <3> QED BY <3>6, <3>7
  <2> QED BY <2>1, <2>2
<1>3. PICK k \in 1 .. N + 1 : above = k .. N
  BY <1>2
<1>4. Cardinality(above) = N + 1 - k
  <2> HIDE DEF above
  <2>1. k \in Int /\ N \in Int
    BY <1>1
  <2>2. Cardinality(k .. N) = IF k > N THEN 0 ELSE N - k + 1
    BY <2>1, FS_Interval
  <2> QED BY <1>1, <1>3, <2>2
<1>5. ASSUME NEW i \in 1 .. N
      PROVE  IF i < k THEN pool.ticks[i].index <= pool.tick ELSE pool.ticks[i].index > pool.tick
  <2>1. i \in above <=> pool.ticks[i].index > pool.tick
    BY <1>1
  <2>2. i \in above <=> ~(i < k)
    <3> HIDE DEF above
    <3> QED BY <1>1, <1>3
  <2> HIDE DEF above
  <2> QED BY <1>1, <2>1, <2>2
<1>6. FirstTick = IF zeroForOne THEN k - 1 ELSE k
  <2>1. FirstTick = IF zeroForOne THEN (N + 1 - Cardinality(above)) - 1 ELSE N + 1 - Cardinality(above)
    BY DEF FirstTick
  <2> HIDE DEF above
  <2>2. N + 1 - Cardinality(above) = k
    BY <1>1, <1>4
  <2> QED BY <2>1, <2>2
<1>7. (IF zeroForOne THEN FirstTick + 1 ELSE FirstTick) = k /\ FirstTick \in Int
  BY <1>1, <1>6
<1> QED BY <1>1, <1>5, <1>7

(* Where the walk is between the ticks, with the bound of its direction.   *)
Below == IF zeroForOne THEN idx ELSE idx - 1

InRange == /\ idx \in Int /\ Below \in 0 .. Len(pool.ticks)
           /\ Below >= 1 => PriceAt(Below) <= sqrtPrice
           /\ Below < Len(pool.ticks) => sqrtPrice <= PriceAt(Below + 1)

(* The ticks from the first one to the one the walk is at. *)
NetCrossed == IF zeroForOne THEN -NetOf(idx + 1, FirstTick) ELSE NetOf(FirstTick, idx - 1)

FromFirst == IF zeroForOne THEN idx <= FirstTick ELSE FirstTick <= idx

Directed == IF zeroForOne THEN limit <= sqrtPrice /\ sqrtPrice <= pool.price
                          ELSE sqrtPrice <= limit /\ pool.price <= sqrtPrice

CurveInv ==
    /\ SwapInv /\ TickAgrees(pool)
    /\ Walking => /\ InRange /\ FromFirst /\ Directed
                  /\ liquidity = pool.liquidity + NetCrossed

LEMMA CurveInvSays == ASSUME CurveInv PROVE OnTheCurve /\ MovesWithTheTrade
  BY DEF CurveInv, OnTheCurve, MovesWithTheTrade, Walking, InRange, Below, NetCrossed, Directed

LEMMA PricesSorted ==
    ASSUME ConcentratedAssumption, SwapTypes,
           NEW i \in DOMAIN pool.ticks, NEW j \in DOMAIN pool.ticks, i < j
    PROVE  PriceAt(i) < PriceAt(j)
<1>1. pool.ticks[i].index \in DOMAIN TickPrice /\ pool.ticks[j].index \in DOMAIN TickPrice
  BY PoolFacts
<1>2. pool.ticks[i].index < pool.ticks[j].index
  BY DEF SwapTypes, Sorted
<1> QED BY <1>1, <1>2 DEF ConcentratedAssumption, PriceAt

(* While the pool stays, what is said of it stays. *)
LEMMA SamePool ==
    ASSUME UNCHANGED <<pool, zeroForOne>>
    PROVE  /\ \A i : PriceAt(i)' = PriceAt(i)
           /\ FirstTick' = FirstTick /\ limit' = limit
           /\ NetCrossed' = IF zeroForOne THEN -NetOf(idx' + 1, FirstTick)
                                          ELSE NetOf(FirstTick, idx' - 1)
<1>1. FirstTick' = FirstTick /\ limit' = limit
  BY DEF FirstTick, limit
<1>2. \A i : PriceAt(i)' = PriceAt(i)
  BY DEF PriceAt
<1>3. NetCrossed' = IF zeroForOne THEN -NetOf(idx' + 1, FirstTick)
                                  ELSE NetOf(FirstTick, idx' - 1)
  BY <1>1 DEF NetCrossed, NetOf
<1> QED BY <1>1, <1>2, <1>3

LEMMA BeginCurve == ASSUME SwapAssumptions, CurveInv, SwapInv', Begin PROVE CurveInv'
<1> DEFINE N == Len(pool.ticks)
           first == IF zeroForOne THEN FirstTick + 1 ELSE FirstTick
<1>1. /\ UNCHANGED <<pool, zeroForOne>> /\ sqrtPrice' = sqrtPrice /\ liquidity' = liquidity
      /\ idx' = FirstTick /\ sqrtPrice = pool.price /\ liquidity = pool.liquidity
      /\ SwapTypes /\ ConcentratedAssumption
  BY DEF Begin, args, CurveInv, SwapInv, SwapAssumptions
<1>2. /\ FirstTick \in Int /\ first \in 1 .. N + 1
      /\ \A i \in DOMAIN pool.ticks :
            IF i < first THEN pool.ticks[i].index <= pool.tick ELSE pool.ticks[i].index > pool.tick
  BY <1>1, FirstTickFound
<1>3. N \in Nat /\ DOMAIN pool.ticks = 1 .. N /\ pool.tick \in Int
      /\ \A i \in 1 .. N : pool.ticks[i].index \in Int
  BY <1>1, PoolFacts
<1>4. \A i \in 1 .. N : IF i < first THEN PriceAt(i) <= pool.price ELSE pool.price <= PriceAt(i)
  <2> TAKE i \in 1 .. N
  <2>1. IF pool.ticks[i].index <= pool.tick THEN PriceAt(i) <= pool.price
                                            ELSE pool.price <= PriceAt(i)
    BY <1>3 DEF CurveInv, TickAgrees, PriceAt
  <2> HIDE DEF first
  <2> QED BY <1>2, <1>3, <2>1
<1>5. Below' = first - 1
  BY <1>1, <1>2 DEF Below
<1>6. InRange'
  <2>1. idx' \in Int /\ Below' \in 0 .. N
    BY <1>1, <1>2, <1>3, <1>5
  <2>2. Below' >= 1 => PriceAt(Below') <= sqrtPrice
    BY <1>1, <1>2, <1>3, <1>4, <1>5
  <2>3. Below' < N => sqrtPrice <= PriceAt(Below' + 1)
    BY <1>1, <1>2, <1>3, <1>4, <1>5
  <2> QED BY <1>1, <2>1, <2>2, <2>3 DEF InRange, PriceAt
<1>7. FromFirst'
  BY <1>1, <1>2, SamePool DEF FromFirst
<1>8. Directed'
  <2>1. IF zeroForOne THEN pool.price > limit ELSE pool.price < limit
    BY DEF Begin, Usable
  <2>2. limit \in Nat /\ pool.price \in Nat
    BY <1>1, PoolFacts
  <2> QED BY <1>1, <2>1, <2>2, SamePool DEF Directed
<1>9. liquidity' = pool'.liquidity + NetCrossed'
  <2>1. NetCrossed' = 0
    <3>1. NetOf(FirstTick + 1, FirstTick) = 0 /\ NetOf(FirstTick, FirstTick - 1) = 0
      BY <1>2 DEF NetOf
    <3> QED BY <1>1, <3>1, SamePool
  <2>2. pool.liquidity \in Int
    BY <1>1, PoolFacts
  <2> QED BY <1>1, <2>1, <2>2
<1>10. TickAgrees(pool')
  BY <1>1 DEF CurveInv
<1> QED BY <1>6, <1>7, <1>8, <1>9, <1>10 DEF CurveInv

(* A step goes the way of the trade and no further than its target. *)
LEMMA StepDirected ==
    ASSUME SwapAssumptions, CurveInv, pc = "loop", NEW s, Taken(s)
    PROVE  IF zeroForOne THEN limit <= Target /\ Target <= s.next /\ s.next <= sqrtPrice
                         ELSE sqrtPrice <= s.next /\ s.next <= Target /\ Target <= limit
<1>1. /\ limit \in Nat /\ Target \in Nat /\ sqrtPrice \in Nat /\ s.next \in Nat
      /\ Len(pool.ticks) \in Nat /\ DOMAIN pool.ticks = 1 .. Len(pool.ticks)
      /\ \A i \in DOMAIN pool.ticks : PriceAt(i) \in Nat
  BY PoolFacts DEF CurveInv, SwapInv, SwapTypes, Taken, SwapAssumptions
<1>2. InRange /\ Directed /\ Between(s)
  BY DEF CurveInv, Walking, Taken
<1>3. CASE zeroForOne
  <2>1. limit <= Target /\ Target <= sqrtPrice
    <3>1. CASE Crossing
      BY <1>1, <1>2, <1>3, <3>1 DEF Crossing, Target, InRange, Below
    <3>2. CASE ~Crossing
      BY <1>1, <1>2, <1>3, <3>2 DEF Target, Directed
    <3> QED BY <3>1, <3>2
  <2> QED BY <1>1, <1>2, <1>3, <2>1 DEF Between
<1>4. CASE ~zeroForOne
  <2>1. Target <= limit /\ sqrtPrice <= Target
    <3>1. CASE Crossing
      BY <1>1, <1>2, <1>4, <3>1 DEF Crossing, Target, InRange, Below
    <3>2. CASE ~Crossing
      BY <1>1, <1>2, <1>4, <3>2 DEF Target, Directed
    <3> QED BY <3>1, <3>2
  <2> QED BY <1>1, <1>2, <1>4, <2>1 DEF Between
<1> QED BY <1>3, <1>4

LEMMA AdvanceCurve ==
    ASSUME SwapAssumptions, CurveInv, SwapInv', pc = "loop", NEW s, Taken(s), Advance(s)
    PROVE  CurveInv'
<1> DEFINE N == Len(pool.ticks)
<1>1. /\ UNCHANGED <<pool, zeroForOne>> /\ sqrtPrice' = s.next
      /\ SwapTypes /\ ConcentratedAssumption /\ zeroForOne \in BOOLEAN
      /\ \/ /\ Crossing /\ s.next = Target /\ liquidity' = CrossedLiquidity
            /\ idx' = IF zeroForOne THEN idx - 1 ELSE idx + 1
         \/ ~(Crossing /\ s.next = Target) /\ idx' = idx /\ liquidity' = liquidity
  BY DEF Advance, args, CurveInv, SwapInv, SwapTypes, SwapAssumptions
<1>2. /\ limit \in Nat /\ Target \in Nat /\ sqrtPrice \in Nat /\ s.next \in Nat
      /\ N \in Nat /\ DOMAIN pool.ticks = 1 .. N /\ pool.price \in Nat
      /\ liquidity \in Int /\ pool.liquidity \in Int
      /\ \A i \in 1 .. N : PriceAt(i) \in Nat /\ pool.ticks[i].net \in Int
  BY PoolFacts DEF CurveInv, SwapInv, SwapTypes, Taken, SwapAssumptions
<1>3. InRange /\ FromFirst /\ Directed /\ liquidity = pool.liquidity + NetCrossed
  BY DEF CurveInv, Walking
<1>4. IF zeroForOne THEN limit <= Target /\ Target <= s.next /\ s.next <= sqrtPrice
                    ELSE sqrtPrice <= s.next /\ s.next <= Target /\ Target <= limit
  BY StepDirected
<1>5. Directed'
  <2>1. Directed' <=> IF zeroForOne THEN limit <= s.next /\ s.next <= pool.price
                                    ELSE s.next <= limit /\ pool.price <= s.next
    BY <1>1, SamePool DEF Directed
  <2> QED BY <1>2, <1>3, <1>4, <2>1 DEF Directed
<1>6. FirstTick \in Int /\ (IF zeroForOne THEN FirstTick + 1 ELSE FirstTick) \in 1 .. N + 1
  BY <1>1, FirstTickFound
<1>7. InRange' /\ FromFirst' /\ liquidity' = pool.liquidity + NetCrossed'
  <2>1. CASE Crossing /\ s.next = Target
    <3>1. /\ idx \in 1 .. N /\ idx \in Int /\ s.next = PriceAt(idx)
          /\ liquidity' = CrossedLiquidity /\ idx' = IF zeroForOne THEN idx - 1 ELSE idx + 1
      BY <1>1, <1>2, <2>1 DEF Crossing, Target
    <3>2. \A i, j \in 1 .. N : i < j => PriceAt(i) < PriceAt(j)
      BY <1>1, <1>2, PricesSorted
    <3>3. CASE zeroForOne
      <4>1. idx' = idx - 1 /\ Below' = idx - 1
        BY <1>1, <3>1, <3>3 DEF Below
      <4>2. Below' \in 0 .. N /\ idx' \in Int
        BY <1>2, <3>1, <4>1
      <4>3. Below' >= 1 => PriceAt(Below') <= s.next
        BY <1>2, <3>1, <3>2, <4>1
      <4>4. Below' + 1 = idx /\ s.next <= PriceAt(Below' + 1)
        <5>1. Below' + 1 = idx
          BY <3>1, <4>1
        <5> QED BY <1>2, <3>1, <5>1
      <4>5. InRange'
        BY <1>1, <1>2, <3>1, <4>2, <4>3, <4>4, SamePool DEF InRange
      <4>6. idx <= FirstTick /\ FirstTick \in Int /\ FirstTick <= N
        BY <1>2, <1>3, <1>6, <3>3 DEF FromFirst
      <4>7. FromFirst'
        BY <1>1, <3>1, <3>3, <4>1, <4>6, SamePool DEF FromFirst
      <4>8. /\ NetOf(idx, FirstTick) = pool.ticks[idx].net + NetOf(idx + 1, FirstTick)
            /\ NetOf(idx + 1, FirstTick) \in Int
        <5>1. idx + 1 \in Int /\ 1 <= idx + 1 /\ idx + 1 <= FirstTick + 1 /\ idx + 1 > 1
              /\ (idx + 1) - 1 = idx
          BY <3>1, <4>6
        <5> QED BY <1>1, <4>6, <5>1, NetOfSteps
      <4>9. NetCrossed' = -NetOf(idx, FirstTick)
        <5>1. idx' + 1 = idx
          BY <3>1, <4>1
        <5> QED BY <1>1, <3>3, <5>1, SamePool
      <4>10. NetCrossed = -NetOf(idx + 1, FirstTick) /\ CrossedLiquidity = liquidity - pool.ticks[idx].net
        BY <1>2, <3>1, <3>3 DEF NetCrossed, CrossedLiquidity
      <4>11. liquidity' = pool.liquidity + NetCrossed'
        <5> DEFINE net  == pool.ticks[idx].net
                   rest == NetOf(idx + 1, FirstTick)
        <5>1. /\ net \in Int /\ rest \in Int /\ NetCrossed' = -(net + rest)
              /\ liquidity = pool.liquidity + (-rest) /\ liquidity' = liquidity - net
          BY <1>2, <1>3, <3>1, <4>8, <4>9, <4>10
        <5> HIDE DEF net, rest
        <5> QED BY <1>2, <5>1
      <4> QED BY <4>5, <4>7, <4>11
    <3>4. CASE ~zeroForOne
      <4>1. idx' = idx + 1 /\ Below' = idx
        BY <1>1, <3>1, <3>4 DEF Below
      <4>2. Below' \in 0 .. N /\ idx' \in Int
        BY <1>2, <3>1, <4>1
      <4>3. Below' < N => s.next <= PriceAt(Below' + 1)
        BY <1>2, <3>1, <3>2, <4>1
      <4>5. InRange'
        BY <1>1, <1>2, <3>1, <4>1, <4>2, <4>3, SamePool DEF InRange
      <4>6. FirstTick <= idx /\ FirstTick \in Int /\ 1 <= FirstTick
        BY <1>2, <1>3, <1>6, <3>4 DEF FromFirst
      <4>7. FromFirst'
        BY <1>1, <3>1, <3>4, <4>1, <4>6, SamePool DEF FromFirst
      <4>8. /\ NetOf(FirstTick, idx) = NetOf(FirstTick, idx - 1) + pool.ticks[idx].net
            /\ NetOf(FirstTick, idx - 1) \in Int
        <5>1. idx - 1 \in Int /\ FirstTick <= (idx - 1) + 1 /\ idx - 1 < N /\ idx - 1 <= N
              /\ (idx - 1) + 1 = idx
          BY <1>2, <3>1, <4>6
        <5> QED BY <1>1, <4>6, <5>1, NetOfSteps
      <4>9. NetCrossed' = NetOf(FirstTick, idx)
        <5>1. idx' - 1 = idx
          BY <3>1, <4>1
        <5> QED BY <1>1, <3>4, <5>1, SamePool
      <4>10. NetCrossed = NetOf(FirstTick, idx - 1) /\ CrossedLiquidity = liquidity + pool.ticks[idx].net
        BY <1>2, <3>1, <3>4 DEF NetCrossed, CrossedLiquidity
      <4>11. liquidity' = pool.liquidity + NetCrossed'
        BY <1>2, <1>3, <3>1, <4>8, <4>9, <4>10
      <4> QED BY <4>5, <4>7, <4>11
    <3> QED BY <3>3, <3>4
  <2>2. CASE ~(Crossing /\ s.next = Target)
    <3>1. idx' = idx /\ liquidity' = liquidity
      BY <1>1, <2>2
    <3>2. Below' = Below /\ NetCrossed' = NetCrossed /\ (FromFirst' <=> FromFirst)
      BY <1>1, <3>1, SamePool DEF Below, NetCrossed, FromFirst
    <3>3. idx \in Int /\ Below \in 0 .. N
      BY <1>3 DEF InRange
    <3>4. Below >= 1 => PriceAt(Below) <= s.next
      <4> SUFFICES ASSUME Below >= 1 PROVE PriceAt(Below) <= s.next
        OBVIOUS
      <4>1. PriceAt(Below) <= sqrtPrice /\ Below \in 1 .. N /\ PriceAt(Below) \in Nat
        BY <1>2, <1>3, <3>3 DEF InRange
      <4>2. CASE zeroForOne
        <5>1. Below = idx
          BY <4>2 DEF Below
        <5>2. PriceAt(idx) <= Target
          BY <1>2, <4>1, <4>2, <5>1 DEF Crossing, Target
        <5> QED BY <1>2, <1>4, <4>1, <4>2, <5>1, <5>2
      <4>3. CASE ~zeroForOne
        BY <1>2, <1>4, <4>1, <4>3
      <4> QED BY <4>2, <4>3
    <3>5. Below < N => s.next <= PriceAt(Below + 1)
      <4> SUFFICES ASSUME Below < N PROVE s.next <= PriceAt(Below + 1)
        OBVIOUS
      <4>1. /\ sqrtPrice <= PriceAt(Below + 1) /\ Below + 1 \in 1 .. N
            /\ PriceAt(Below + 1) \in Nat
        BY <1>2, <1>3, <3>3 DEF InRange
      <4>2. CASE zeroForOne
        BY <1>2, <1>4, <4>1, <4>2
      <4>3. CASE ~zeroForOne
        <5>1. Below + 1 = idx
          BY <3>3, <4>3 DEF Below
        <5>2. Target <= PriceAt(idx)
          BY <1>2, <4>1, <4>3, <5>1 DEF Crossing, Target
        <5> QED BY <1>2, <1>4, <4>1, <4>3, <5>1, <5>2
      <4> QED BY <4>2, <4>3
    <3>6. InRange'
      BY <1>1, <3>1, <3>2, <3>3, <3>4, <3>5, SamePool DEF InRange
    <3> QED BY <1>3, <3>1, <3>2, <3>6
  <2> QED BY <2>1, <2>2
<1>8. TickAgrees(pool')
  BY <1>1 DEF CurveInv
<1> QED BY <1>1, <1>5, <1>7, <1>8 DEF CurveInv

(* A settled pool's tick agrees with its price again. *)
LEMMA SettledAgrees ==
    ASSUME SwapAssumptions, CurveInv, SellBack
    PROVE  TickAgrees(pool')
<1>1. SwapTypes /\ ConcentratedAssumption /\ InRange /\ pc = "done"
      /\ \E t \in DOMAIN TickPrice : TickPrice[t] <= sqrtPrice
  BY DEF CurveInv, SwapInv, SwapAssumptions, SellBack, Walking
<1>2. TickAfter \in Int
  BY <1>1, TickAfterTypes
<1>3. pool'.ticks = pool.ticks /\ pool'.price = sqrtPrice /\ pool'.tick = TickAfter
  BY <1>1, <1>2, SettledPool
<1>4. /\ sqrtPrice \in Nat /\ DOMAIN pool.ticks = 1 .. Len(pool.ticks) /\ Len(pool.ticks) \in Nat
      /\ \A i \in DOMAIN pool.ticks : /\ pool.ticks[i].index \in DOMAIN TickPrice
                                      /\ pool.ticks[i].index \in Int /\ PriceAt(i) \in Nat
  BY <1>1, PoolFacts DEF SwapTypes
<1>5. ASSUME NEW i \in DOMAIN pool.ticks
      PROVE  IF pool.ticks[i].index <= TickAfter THEN PriceAt(i) <= sqrtPrice
                                                 ELSE sqrtPrice <= PriceAt(i)
  <2>1. CASE zeroForOne /\ idx + 1 \in DOMAIN pool.ticks /\ PriceAt(idx + 1) = sqrtPrice
    <3>1. TickAfter = pool.ticks[idx + 1].index - 1 /\ idx \in Int
      BY <1>1, <2>1 DEF TickAfter, InRange
    <3>2. CASE i < idx + 1
      <4>1. PriceAt(i) < PriceAt(idx + 1) /\ pool.ticks[i].index < pool.ticks[idx + 1].index
        BY <1>1, <2>1, <3>2, PricesSorted DEF SwapTypes, Sorted
      <4> QED BY <1>4, <2>1, <3>1, <4>1
    <3>3. CASE i = idx + 1
      BY <1>4, <2>1, <3>1, <3>3
    <3>4. CASE idx + 1 < i
      <4>1. PriceAt(idx + 1) < PriceAt(i) /\ pool.ticks[idx + 1].index < pool.ticks[i].index
        BY <1>1, <2>1, <3>4, PricesSorted DEF SwapTypes, Sorted
      <4> QED BY <1>4, <2>1, <3>1, <4>1
    <3> QED BY <1>4, <3>1, <3>2, <3>3, <3>4
  <2>2. CASE ~(zeroForOne /\ idx + 1 \in DOMAIN pool.ticks /\ PriceAt(idx + 1) = sqrtPrice)
    <3>1. /\ TickAfter \in DOMAIN TickPrice /\ TickPrice[TickAfter] <= sqrtPrice
          /\ \A u \in DOMAIN TickPrice : TickPrice[u] <= sqrtPrice => u <= TickAfter
      BY <1>1, <2>2, TickAfterExists DEF TickAfter
    <3>2. /\ \A t \in DOMAIN TickPrice : t \in Int /\ TickPrice[t] \in Nat
          /\ \A t, u \in DOMAIN TickPrice : t < u => TickPrice[t] < TickPrice[u]
      BY <1>1 DEF ConcentratedAssumption
    <3> DEFINE t == pool.ticks[i].index
    <3>3. PriceAt(i) = TickPrice[t] /\ t \in DOMAIN TickPrice
      BY <1>4 DEF PriceAt
    <3> HIDE DEF t
    <3>4. IF t <= TickAfter THEN PriceAt(i) <= sqrtPrice ELSE sqrtPrice <= PriceAt(i)
      <4>1. CASE t <= TickAfter
        <5>1. TickPrice[t] <= TickPrice[TickAfter]
          BY <1>2, <3>1, <3>2, <3>3, <4>1
        <5> QED BY <1>4, <3>1, <3>2, <3>3, <4>1, <5>1
      <4>2. CASE ~(t <= TickAfter)
        BY <1>4, <3>1, <3>2, <3>3, <4>2
      <4> QED BY <4>1, <4>2
    <3> QED BY <3>4 DEF t
  <2> QED BY <2>1, <2>2
<1> QED BY <1>3, <1>5 DEF TickAgrees, PriceAt

LEMMA NextCurveInv == ASSUME SwapAssumptions, CurveInv, [Next]_vars PROVE CurveInv'
<1>0. SwapInv'
  BY NextSwapInv DEF CurveInv
<1>1. ASSUME UNCHANGED <<args, swap>>, Walking' => Walking PROVE CurveInv'
  <2>1. UNCHANGED <<pool, zeroForOne>> /\ sqrtPrice' = sqrtPrice /\ liquidity' = liquidity /\ idx' = idx
    BY <1>1 DEF args, swap
  <2>2. /\ InRange' <=> InRange
        /\ FromFirst' <=> FromFirst
        /\ Directed' <=> Directed
        /\ NetCrossed' = NetCrossed
    BY <2>1, SamePool DEF InRange, Below, FromFirst, Directed, NetCrossed
  <2> QED BY <1>0, <1>1, <2>1, <2>2 DEF CurveInv
<1>2. CASE UNCHANGED vars
  BY <1>1, <1>2 DEF vars, Walking
<1>3. CASE Reject \/ Dry \/ Finish
  BY <1>1, <1>3 DEF Reject, Dry, Finish, Fail, Walking
<1>4. CASE Begin
  BY <1>0, <1>4, BeginCurve
<1>5. CASE SwapStep
  <2>1. CASE pc' \in {"arithmetic", "noLiquidity", "end"} /\ UNCHANGED <<args, swap>>
    BY <1>1, <1>5, <2>1 DEF SwapStep, Walking
  <2>2. ASSUME pc = "loop", NEW s, Taken(s), Advance(s) PROVE CurveInv'
    BY <1>0, <2>2, AdvanceCurve
  <2> QED BY <1>5, <2>1, <2>2, StepCases DEF CurveInv
<1>6. CASE SellBack
  <2>1. pc' = "start"
    BY <1>6 DEF SellBack
  <2> QED BY <1>0, <1>6, <2>1, SettledAgrees DEF CurveInv, Walking
<1> QED BY <1>2, <1>3, <1>4, <1>5, <1>6 DEF Next

LEMMA InitCurveInv ==
    ASSUME SwapAssumptions, \A p \in Pools : TickAgrees(p), Init PROVE CurveInv
<1>1. SwapInv /\ TickAgrees(pool) /\ ~Walking
  BY InitSwapInv DEF Init, Walking
<1> QED BY <1>1 DEF CurveInv

(* Wherever a swap through a pool whose tick agrees with its price is, its *)
(* price lies between the ticks around it, and its liquidity is that of    *)
(* the pool changed by exactly the ticks crossed.                          *)
THEOREM StaysOnTheCurve ==
    ASSUME SwapMathAssumption, ConcentratedAssumption, \A p \in Pools : TickAgrees(p)
    PROVE  Spec => []OnTheCurve
<1>1. SwapAssumptions
  BY DEF SwapAssumptions
<1>2. Init => CurveInv
  BY <1>1, InitCurveInv
<1>3. CurveInv /\ [Next]_vars => CurveInv'
  BY <1>1, NextCurveInv
<1>4. CurveInv => OnTheCurve
  BY CurveInvSays
<1> QED BY <1>2, <1>3, <1>4, PTL DEF Spec

(* For a pool whose tick agrees with its price an answered quote has moved *)
(* the price the way the trade pushes it.                                  *)
THEOREM TradeMovesThePrice ==
    ASSUME SwapMathAssumption, ConcentratedAssumption, \A p \in Pools : TickAgrees(p)
    PROVE  Spec => []MovesWithTheTrade
<1>1. SwapAssumptions
  BY DEF SwapAssumptions
<1>2. Init => CurveInv
  BY <1>1, InitCurveInv
<1>3. CurveInv /\ [Next]_vars => CurveInv'
  BY <1>1, NextCurveInv
<1>4. CurveInv => MovesWithTheTrade
  BY CurveInvSays
<1> QED BY <1>2, <1>3, <1>4, PTL DEF Spec

-----------------------------------------------------------------------------
(* Selling a quote's output back to the pool.  Times its liquidity, what a *)
(* pool holds of each token goes by its price; amounts are compared with   *)
(* that in whole numbers, and the sums over the ranges between the ticks   *)
(* make one curve that both swaps follow.                                  *)

(* The prices of a swap, and which of two is further its way. *)
Prices == MinRatio .. MaxRatio

Past(down, x, y) == IF down THEN y < x ELSE x < y

(* What a unit of liquidity is worth in each token at a price, in whole    *)
(* numbers: token 0 (TRUE) goes by the inverse of the price, token 1 by    *)
(* the price.  An amount of token z is to be compared times u[z].          *)
Scales(u, v) ==
    /\ u[TRUE] \in Nat \ {0} /\ u[FALSE] = Q96
    /\ \A x \in Prices : /\ v[FALSE][x] = x
                         /\ v[TRUE][x] \in Nat /\ x * v[TRUE][x] = Q96 * u[TRUE]

LEMMA MulPositive == ASSUME NEW a \in Nat \ {0}, NEW b \in Nat \ {0} PROVE a * b \in Nat \ {0}
<1>1. 1 * b <= a * b /\ a * b \in Nat /\ 1 * b = b
  BY MulMono, MulNat
<1> QED BY <1>1

LEMMA CommonMultiple ==
    ASSUME NEW n \in Nat
    PROVE  \E k \in Nat \ {0} : \A x \in 1 .. n : \E y \in Nat : x * y = k
<1> DEFINE Divided(m, k) == \A x \in 1 .. m : \E y \in Nat : x * y = k
           S == { m \in Nat : \E k \in Nat \ {0} : Divided(m, k) }
<1>1. 0 \in S
  BY 1 \in Nat \ {0}
<1>2. ASSUME NEW m \in Nat, m \in S PROVE m + 1 \in S
  <2>1. PICK k \in Nat \ {0} : Divided(m, k)
    BY <1>2
  <2>2. ASSUME NEW x \in 1 .. m + 1 PROVE \E y \in Nat : x * y = k * (m + 1)
    <3>1. CASE x = m + 1
      <4>1. x * k = k * (m + 1)
        BY <3>1
      <4> QED BY <4>1
    <3>2. CASE x # m + 1
      <4>0. x \in 1 .. m
        BY <3>2
      <4>1. PICK y \in Nat : x * y = k
        BY <2>1, <4>0
      <4>2. y * (m + 1) \in Nat /\ x * (y * (m + 1)) = (x * y) * (m + 1)
        <5>1. x \in Nat /\ m + 1 \in Nat
          OBVIOUS
        <5> QED BY <5>1, MulNat
      <4> QED BY <4>1, <4>2
    <3> QED BY <3>1, <3>2
  <2>3. k * (m + 1) \in Nat \ {0}
    <3>1. k * (m + 1) = k * m + k /\ k * m \in Nat
      BY MulNat
    <3> QED BY <3>1
  <2>4. Divided(m + 1, k * (m + 1))
    BY <2>2
  <2> HIDE DEF Divided
  <2> QED BY <2>3, <2>4
<1>3. n \in S
  <2> HIDE DEF S
  <2> QED BY <1>1, <1>2, SetInduction
<1> QED BY <1>3

LEMMA ScalesExist == ASSUME SwapAssumptions PROVE \E u, v : Scales(u, v)
<1>1. MaxRatio \in Nat /\ MinRatio \in Nat \ {0} /\ Q96 \in Nat \ {0}
  BY DEF SwapAssumptions, SwapMathAssumption, ConcentratedAssumption
<1>2. PICK k \in Nat \ {0} : \A x \in 1 .. MaxRatio : \E y \in Nat : x * y = k
  BY <1>1, CommonMultiple
<1> DEFINE pick(x) == CHOOSE y \in Nat : x * y = k
           inv == [x \in Prices |-> pick(x)]
           u   == [z \in BOOLEAN |-> IF z THEN k ELSE Q96]
           v   == [z \in BOOLEAN |-> [x \in Prices |-> IF z THEN Q96 * inv[x] ELSE x]]
<1>3. ASSUME NEW x \in Prices PROVE x \in Nat /\ inv[x] \in Nat /\ x * inv[x] = k
  <2>1. x \in 1 .. MaxRatio
    BY <1>1 DEF Prices
  <2>2. \E y \in Nat : x * y = k
    BY <1>2, <2>1
  <2>3. pick(x) \in Nat /\ x * pick(x) = k
    BY <2>2
  <2> HIDE DEF pick
  <2> QED BY <2>1, <2>3
<1>4. ASSUME NEW x \in Prices
      PROVE v[FALSE][x] = x /\ v[TRUE][x] \in Nat /\ x * v[TRUE][x] = Q96 * u[TRUE]
  <2>1. v[FALSE][x] = x /\ v[TRUE][x] = Q96 * inv[x] /\ u[TRUE] = k
    <3> HIDE DEF inv
    <3> QED OBVIOUS
  <2> HIDE DEF u, v, inv, pick
  <2>2. Q96 * inv[x] \in Nat /\ x * (Q96 * inv[x]) = Q96 * (x * inv[x])
    BY <1>1, <1>3, MulNat
  <2> QED BY <1>3, <2>1, <2>2
<1>5. u[TRUE] \in Nat \ {0} /\ u[FALSE] = Q96
  OBVIOUS
<1>6. Scales(u, v)
  <2> HIDE DEF u, v
  <2> QED BY <1>4, <1>5 DEF Scales
<1> QED BY <1>6

LEMMA ScaleTypes ==
    ASSUME SwapAssumptions, NEW u, NEW v, Scales(u, v), NEW z \in BOOLEAN, NEW x \in Prices
    PROVE  u[z] \in Nat \ {0} /\ v[z][x] \in Nat /\ x \in Nat \ {0}
<1>1. x \in Nat \ {0} /\ Q96 \in Nat \ {0}
  BY DEF Prices, SwapAssumptions, SwapMathAssumption, ConcentratedAssumption
<1>2. CASE z = TRUE
  BY <1>1, <1>2 DEF Scales
<1>3. CASE z = FALSE
  BY <1>1, <1>3 DEF Scales
<1> QED BY <1>1, <1>2, <1>3

(* The further a price is in a direction, the more of the token that is    *)
(* sold in it a unit of liquidity is.                                      *)
LEMMA ScalesOrdered ==
    ASSUME SwapAssumptions, NEW u, NEW v, Scales(u, v), NEW z \in BOOLEAN,
           NEW x \in Prices, NEW y \in Prices, Past(z, x, y)
    PROVE  v[z][x] < v[z][y]
<1>1. x \in Nat \ {0} /\ y \in Nat \ {0} /\ Q96 \in Nat \ {0} /\ u[TRUE] \in Nat \ {0}
  BY ScaleTypes DEF SwapAssumptions, SwapMathAssumption
<1>2. CASE z = FALSE
  BY <1>1, <1>2 DEF Scales, Past
<1>3. CASE z = TRUE
  <2>1. /\ v[TRUE][x] \in Nat /\ v[TRUE][y] \in Nat /\ y < x
        /\ x * v[TRUE][x] = Q96 * u[TRUE] /\ y * v[TRUE][y] = Q96 * u[TRUE]
    BY <1>3 DEF Scales, Past
  <2> DEFINE a == v[TRUE][x]
             b == v[TRUE][y]
             c == Q96 * u[TRUE]
  <2>2. a \in Nat /\ b \in Nat /\ x * a = c /\ y * b = c
    BY <2>1
  <2>3. c \in Nat \ {0}
    BY <1>1, MulPositive
  <2> HIDE DEF a, b, c
  <2>4. ASSUME b <= a PROVE FALSE
    <3>1. b * y <= a * y
      BY <1>1, <2>2, <2>4, MulMono
    <3>2. a * y + a <= a * x
      <4>1. a * (y + 1) = a * y + a /\ (y + 1) * a <= x * a /\ a * y \in Nat
        BY <1>1, <2>1, <2>2, MulMono, MulNat
      <4>2. (y + 1) * a = a * (y + 1) /\ x * a = a * x
        BY <1>1, <2>2
      <4> QED BY <4>1, <4>2
    <3>3. b * y = c /\ a * x = c /\ a * y \in Nat
      BY <1>1, <2>2, MulNat
    <3>4. a = 0
      BY <2>2, <2>3, <3>1, <3>2, <3>3
    <3>5. x * 0 = 0
      BY <1>1
    <3> QED BY <2>2, <2>3, <3>4, <3>5
  <2>5. a < b
    BY <2>2, <2>4
  <2>6. v[TRUE][x] < v[TRUE][y]
    BY <2>5 DEF a, b
  <2> QED BY <1>3, <2>6
<1> QED BY <1>2, <1>3

(* The amount of token 0 between two prices, a below b, rounded for the    *)
(* pool, against the change of its worth.                                  *)
LEMMA Token0Exact ==
    ASSUME NEW a \in Nat \ {0}, NEW b \in Nat \ {0}, a <= b, NEW lq \in Nat, NEW q \in Nat \ {0},
           NEW k \in Nat \ {0}, NEW va \in Nat, NEW vb \in Nat, a * va = q * k, b * vb = q * k
    PROVE  /\ lq * (va - vb) \in Nat /\ (lq * q) * (b - a) \in Nat
           /\ (lq * (va - vb)) * (a * b) = ((lq * q) * (b - a)) * k
<1>1. (va - vb) * (a * b) = (a * va) * b - (b * vb) * a
  OBVIOUS
<1>2. q * k \in Nat /\ lq * q \in Nat /\ b - a \in Nat /\ a * b \in Nat
  BY MulNat
<1>3. (va - vb) * (a * b) = (q * k) * (b - a)
  <2>1. (q * k) * b - (q * k) * a = (q * k) * (b - a)
    BY <1>2
  <2> QED BY <1>1, <2>1
<1>4. (lq * (va - vb)) * (a * b) = lq * ((va - vb) * (a * b))
  OBVIOUS
<1>5. lq * ((q * k) * (b - a)) = ((lq * q) * (b - a)) * k
  OBVIOUS
<1>6. vb <= va
  <2>1. vb * a <= vb * b
    <3>1. a * vb <= b * vb
      BY MulMono
    <3> QED BY <3>1
  <2>2. vb * b = va * a /\ vb * a \in Nat /\ va * a \in Nat
    BY MulNat
  <2>3. vb * a <= va * a
    BY <2>1, <2>2
  <2> QED BY <2>3, MulCancel
<1>7. lq * (va - vb) \in Nat /\ (lq * q) * (b - a) \in Nat
  <2>1. va - vb \in Nat
    BY <1>6
  <2> QED BY <1>2, <2>1, MulNat
<1> QED BY <1>3, <1>4, <1>5, <1>7

LEMMA Token0In ==
    ASSUME NEW a \in Nat \ {0}, NEW b \in Nat \ {0}, a <= b, NEW lq \in Nat, NEW q \in Nat \ {0},
           NEW k \in Nat \ {0}, NEW va \in Nat, NEW vb \in Nat, a * va = q * k, b * vb = q * k
    PROVE  LET due == DivUp(DivUp((lq * q) * (b - a), b), a)
               got == (((lq * q) * (b - a)) \div b) \div a
           IN  lq * (va - vb) <= due * k /\ got * k <= lq * (va - vb)
<1> DEFINE n  == (lq * q) * (b - a)
           w  == lq * (va - vb)
           m  == DivUp(n, b)
           y  == DivUp(m, a)
           m2 == n \div b
           y2 == m2 \div a
<1>1. n \in Nat /\ w \in Nat /\ w * (a * b) = n * k
  BY Token0Exact
<1>2. m \in Nat /\ n <= m * b /\ m2 \in Nat /\ m2 * b <= n
  <2> HIDE DEF n
  <2> QED BY <1>1, Ceiling, Floor
<1>3. y \in Nat /\ m <= y * a /\ y2 \in Nat /\ y2 * a <= m2
  <2> HIDE DEF m, m2
  <2> QED BY <1>2, Ceiling, Floor
<1> HIDE DEF n, w, m, y, m2, y2
<1>4. y * a \in Nat /\ y2 * a \in Nat /\ m * b \in Nat /\ m2 * b \in Nat
  BY <1>2, <1>3, MulNat
<1>5. n <= (y * a) * b /\ (y2 * a) * b <= n
  <2>1. m * b <= (y * a) * b /\ (y2 * a) * b <= m2 * b
    BY <1>2, <1>3, <1>4, MulMono
  <2>2. (y * a) * b \in Nat /\ (y2 * a) * b \in Nat
    BY <1>4, MulNat
  <2> QED BY <1>1, <1>2, <1>4, <2>1, <2>2
<1>6. n * k <= ((y * a) * b) * k /\ ((y2 * a) * b) * k <= n * k
  <2>1. (y * a) * b \in Nat /\ (y2 * a) * b \in Nat
    BY <1>4, MulNat
  <2> QED BY <1>1, <1>5, <2>1, MulMono
<1>7. ((y * a) * b) * k = (y * k) * (a * b) /\ ((y2 * a) * b) * k = (y2 * k) * (a * b)
  BY <1>3
<1>8. a * b \in Nat \ {0} /\ y * k \in Nat /\ y2 * k \in Nat
  BY <1>3, MulNat, MulPositive
<1>9. w <= y * k
  <2>1. w * (a * b) <= (y * k) * (a * b)
    BY <1>1, <1>6, <1>7
  <2> QED BY <1>1, <1>8, <2>1, MulCancel
<1>10. y2 * k <= w
  <2>1. (y2 * k) * (a * b) <= w * (a * b)
    BY <1>1, <1>6, <1>7
  <2> QED BY <1>1, <1>8, <2>1, MulCancel
<1> QED BY <1>9, <1>10 DEF n, w, m, y, m2, y2

LEMMA Amount0Exact ==
    ASSUME SwapMathAssumption, NEW a \in Nat, NEW b \in Nat, a <= b, NEW lq \in Int
    PROVE  LET n == (lq * Q96) * (b - a)
           IN  /\ amount0Delta(a, b, lq, TRUE) # Err =>
                     amount0Delta(a, b, lq, TRUE) = DivUp(DivUp(n, b), a)
               /\ amount0Delta(a, b, lq, FALSE) # Err =>
                     amount0Delta(a, b, lq, FALSE) = (n \div b) \div a
<1>1. Q96 \in Nat \ {0} /\ lq * Q96 \in Int
  BY DEF SwapMathAssumption
<1> DEFINE n == Fits(lq * Q96)
           d == subU256(b, a)
<1>2. Lower(a, b) = a /\ Higher(a, b) = b
  BY DEF Lower, Higher
<1>3. n \in Int /\ d \in Int
  BY <1>1, ResultTypes DEF Result, Err
<1>4. n # Err => n = lq * Q96
  BY <1>1 DEF Fits
<1>5. d # Err => d = b - a
  BY ExactSum
<1>6. mulDivUp(n, d, b) \in Int /\ mulDiv(n, d, b) \in Int
  BY <1>3, ResultTypes DEF Result, Err
<1> HIDE DEF n, d
<1>7. ASSUME amount0Delta(a, b, lq, TRUE) # Err
      PROVE  amount0Delta(a, b, lq, TRUE) = DivUp(DivUp((lq * Q96) * (b - a), b), a)
  <2>1. amount0Delta(a, b, lq, TRUE) = divUpU256(mulDivUp(n, d, b), a)
    BY <1>2, <1>7 DEF amount0Delta, n, d
  <2>2. /\ mulDivUp(n, d, b) \in Nat
        /\ amount0Delta(a, b, lq, TRUE) = DivUp(mulDivUp(n, d, b), a)
    <3> DEFINE m == mulDivUp(n, d, b)
    <3>1. m \in Int /\ divUpU256(m, a) # Err /\ amount0Delta(a, b, lq, TRUE) = divUpU256(m, a)
      BY <1>6, <1>7, <2>1
    <3> HIDE DEF m
    <3>2. m \in Nat /\ divUpU256(m, a) = DivUp(m, a)
      BY <3>1, ExactDivUp
    <3> QED BY <3>1, <3>2 DEF m
  <2>3. mulDivUp(n, d, b) # Err
    BY <2>2 DEF Err
  <2>4. n \in Nat /\ d \in Nat /\ mulDivUp(n, d, b) = DivUp(n * d, b)
    BY <1>3, <2>3, ExactMulDivUp
  <2>5. n = lq * Q96 /\ d = b - a
    BY <1>4, <1>5, <2>4 DEF Err
  <2> QED BY <2>2, <2>4, <2>5
<1>8. ASSUME amount0Delta(a, b, lq, FALSE) # Err
      PROVE  amount0Delta(a, b, lq, FALSE) = (((lq * Q96) * (b - a)) \div b) \div a
  <2>1. amount0Delta(a, b, lq, FALSE) = divDownU256(mulDiv(n, d, b), a)
    BY <1>2, <1>8 DEF amount0Delta, n, d
  <2>2. /\ mulDiv(n, d, b) \in Nat
        /\ amount0Delta(a, b, lq, FALSE) = mulDiv(n, d, b) \div a
    <3> DEFINE m == mulDiv(n, d, b)
    <3>1. m \in Int /\ divDownU256(m, a) # Err /\ amount0Delta(a, b, lq, FALSE) = divDownU256(m, a)
      BY <1>6, <1>8, <2>1
    <3> HIDE DEF m
    <3>2. m \in Nat /\ divDownU256(m, a) = m \div a
      BY <3>1, ExactDivDown
    <3> QED BY <3>1, <3>2 DEF m
  <2>3. mulDiv(n, d, b) # Err
    BY <2>2 DEF Err
  <2>4. n \in Nat /\ d \in Nat /\ mulDiv(n, d, b) = (n * d) \div b
    BY <1>3, <2>3, ExactMulDiv
  <2>5. n = lq * Q96 /\ d = b - a
    BY <1>4, <1>5, <2>4 DEF Err
  <2> QED BY <2>2, <2>4, <2>5
<1> QED BY <1>7, <1>8

LEMMA Amount1Exact ==
    ASSUME SwapMathAssumption, NEW a \in Nat, NEW b \in Nat, a <= b, NEW lq \in Nat
    PROVE  /\ amount1Delta(a, b, lq, TRUE) # Err =>
                 amount1Delta(a, b, lq, TRUE) = DivUp(lq * (b - a), Q96)
           /\ amount1Delta(a, b, lq, FALSE) # Err =>
                 amount1Delta(a, b, lq, FALSE) = (lq * (b - a)) \div Q96
<1>1. Q96 \in Nat \ {0}
  BY DEF SwapMathAssumption
<1> DEFINE d == subU256(b, a)
<1>2. Lower(a, b) = a /\ Higher(a, b) = b
  BY DEF Lower, Higher
<1>3. d \in Int /\ (d # Err => d = b - a)
  BY ExactSum, ResultTypes DEF Result, Err
<1>4. /\ amount1Delta(a, b, lq, TRUE) = mulDivUp(lq, d, Q96)
      /\ amount1Delta(a, b, lq, FALSE) = mulDiv(lq, d, Q96)
  BY <1>2 DEF amount1Delta
<1> HIDE DEF d
<1>5. ASSUME d \in Nat PROVE d = b - a
  BY <1>3, <1>5 DEF Err
<1>6. mulDivUp(lq, d, Q96) # Err => mulDivUp(lq, d, Q96) = DivUp(lq * (b - a), Q96)
  <2>1. mulDivUp(lq, d, Q96) # Err => d \in Nat /\ mulDivUp(lq, d, Q96) = DivUp(lq * d, Q96)
    BY <1>1, <1>3, ExactMulDivUp
  <2> QED BY <1>5, <2>1
<1>7. mulDiv(lq, d, Q96) # Err => mulDiv(lq, d, Q96) = (lq * (b - a)) \div Q96
  <2>1. mulDiv(lq, d, Q96) # Err => d \in Nat /\ mulDiv(lq, d, Q96) = (lq * d) \div Q96
    BY <1>1, <1>3, ExactMulDiv
  <2> QED BY <1>5, <2>1
<1> QED BY <1>4, <1>6, <1>7

(* What goes in is worth what a range of prices asks for at least, what    *)
(* comes out at most.                                                      *)
LEMMA AmountWorth ==
    ASSUME SwapAssumptions, NEW u, NEW v, Scales(u, v), NEW z \in BOOLEAN,
           NEW cur \in Prices, NEW nxt \in Prices, IF z THEN nxt <= cur ELSE cur <= nxt,
           NEW lq \in Nat
    PROVE  /\ AmountIn(cur, nxt, lq, z) # Err =>
                 lq * (v[z][nxt] - v[z][cur]) <= AmountIn(cur, nxt, lq, z) * u[z]
           /\ AmountOut(cur, nxt, lq, z) # Err =>
                 AmountOut(cur, nxt, lq, z) * u[~z] <= lq * (v[~z][cur] - v[~z][nxt])
<1>1. /\ Q96 \in Nat \ {0} /\ u[TRUE] \in Nat \ {0} /\ u[FALSE] = Q96 /\ SwapMathAssumption
      /\ \A x \in Prices : /\ x \in Nat \ {0} /\ v[FALSE][x] = x
                           /\ v[TRUE][x] \in Nat /\ x * v[TRUE][x] = Q96 * u[TRUE]
  BY ScaleTypes DEF SwapAssumptions, SwapMathAssumption, Scales
<1>2. ASSUME NEW a \in Prices, NEW b \in Prices, a <= b
      PROVE  /\ amount0Delta(a, b, lq, TRUE) # Err =>
                   lq * (v[TRUE][a] - v[TRUE][b]) <= amount0Delta(a, b, lq, TRUE) * u[TRUE]
             /\ amount0Delta(a, b, lq, FALSE) # Err =>
                   amount0Delta(a, b, lq, FALSE) * u[TRUE] <= lq * (v[TRUE][a] - v[TRUE][b])
             /\ amount1Delta(a, b, lq, TRUE) # Err =>
                   lq * (v[FALSE][b] - v[FALSE][a]) <= amount1Delta(a, b, lq, TRUE) * u[FALSE]
             /\ amount1Delta(a, b, lq, FALSE) # Err =>
                   amount1Delta(a, b, lq, FALSE) * u[FALSE] <= lq * (v[FALSE][b] - v[FALSE][a])
  <2> DEFINE va == v[TRUE][a]
             vb == v[TRUE][b]
             k  == u[TRUE]
             n  == (lq * Q96) * (b - a)
  <2>1. /\ a \in Nat \ {0} /\ b \in Nat \ {0} /\ va \in Nat /\ vb \in Nat /\ k \in Nat \ {0}
        /\ a * va = Q96 * k /\ b * vb = Q96 * k /\ v[FALSE][a] = a /\ v[FALSE][b] = b
    BY <1>1
  <2> HIDE DEF va, vb, k
  <2>2. /\ lq * (va - vb) <= DivUp(DivUp(n, b), a) * k
        /\ ((n \div b) \div a) * k <= lq * (va - vb)
    BY <1>1, <1>2, <2>1, Token0In
  <2>3. lq * (b - a) <= DivUp(lq * (b - a), Q96) * Q96 /\ ((lq * (b - a)) \div Q96) * Q96 <= lq * (b - a)
    <3>1. lq * (b - a) \in Nat
      <4>1. b - a \in Nat
        BY <1>2, <2>1
      <4> QED BY <4>1, MulNat
    <3> QED BY <1>1, <3>1, Ceiling, Floor
  <2>4. /\ amount0Delta(a, b, lq, TRUE) # Err => amount0Delta(a, b, lq, TRUE) = DivUp(DivUp(n, b), a)
        /\ amount0Delta(a, b, lq, FALSE) # Err => amount0Delta(a, b, lq, FALSE) = (n \div b) \div a
    <3>1. lq \in Int /\ a \in Nat /\ b \in Nat
      BY <2>1
    <3> QED BY <1>1, <1>2, <3>1, Amount0Exact
  <2>5. /\ amount1Delta(a, b, lq, TRUE) # Err => amount1Delta(a, b, lq, TRUE) = DivUp(lq * (b - a), Q96)
        /\ amount1Delta(a, b, lq, FALSE) # Err => amount1Delta(a, b, lq, FALSE) = (lq * (b - a)) \div Q96
    BY <1>1, <1>2, <2>1, Amount1Exact
  <2> HIDE DEF n
  <2> QED BY <1>1, <2>1, <2>2, <2>3, <2>4, <2>5 DEF va, vb, k
<1>3. CASE z = TRUE
  BY <1>2, <1>3 DEF AmountIn, AmountOut
<1>4. CASE z = FALSE
  BY <1>2, <1>4 DEF AmountIn, AmountOut
<1> QED BY <1>3, <1>4

(* A step that is not an error takes and gives what its range asks for.    *)
LEMMA StepAmounts ==
    ASSUME SwapMathAssumption, NEW cur, NEW tgt, NEW lq, NEW rest, NEW pips,
           computeSwapStep(cur, tgt, lq, rest, pips).next # Err
    PROVE  LET s == computeSwapStep(cur, tgt, lq, rest, pips)
           IN  /\ s.in = AmountIn(cur, s.next, lq, cur >= tgt) /\ s.in # Err
               /\ s.out = AmountOut(cur, s.next, lq, cur >= tgt) /\ s.out # Err
<1> DEFINE s    == computeSwapStep(cur, tgt, lq, rest, pips)
           down == cur >= tgt
           comp == subU256(Million, pips)
           less == mulDiv(rest, comp, Million)
           due  == AmountIn(cur, tgt, lq, down)
           next == IF less >= due THEN tgt ELSE nextSqrtFromInput(cur, lq, less, down)
           in   == IF next = tgt THEN due ELSE AmountIn(cur, next, lq, down)
           out  == AmountOut(cur, next, lq, down)
           charge  == IF next = tgt THEN MaxedFee(in, pips) ELSE subU256(rest, in)
<1>1. CASE comp <= 0 \/ Err \in {less, due, next, in, out, charge}
  <2>1. s = [next |-> Err, in |-> Err, out |-> Err, fee |-> Err]
    BY <1>1 DEF computeSwapStep
  <2> QED BY <2>1
<1>2. CASE ~(comp <= 0 \/ Err \in {less, due, next, in, out, charge})
  <2>1. s = [next |-> next, in |-> in, out |-> out, fee |-> charge]
    BY <1>2 DEF computeSwapStep
  <2>2. in # Err /\ out # Err
    BY <1>2
  <2>3. in = AmountIn(cur, next, lq, down)
    OBVIOUS
  <2> HIDE DEF next, in, charge, less, comp, due, s
  <2>4. s.next = next /\ s.in = in /\ s.out = out
    BY <2>1
  <2> HIDE DEF out
  <2>5. out = AmountOut(cur, next, lq, down)
    BY DEF out
  <2>6. /\ s.in = AmountIn(cur, s.next, lq, down) /\ s.in # Err
        /\ s.out = AmountOut(cur, s.next, lq, down) /\ s.out # Err
    BY <2>2, <2>3, <2>4, <2>5
  <2> QED BY <2>6 DEF s
<1> QED BY <1>1, <1>2

(* The price x is in the range that begins at the j-th tick.               *)
OnSegment(j, x) ==
    /\ j >= 1 => PriceAt(j) <= x
    /\ j < Len(pool.ticks) => x <= PriceAt(j + 1)

(* What the pool's liquidity is worth along its prices: over a range its   *)
(* worth in each token follows that of a unit times the liquidity l there. *)
Curve(l, v, w) ==
    \A z \in BOOLEAN :
        /\ \A x \in Prices : w[z][x] \in Int
        /\ \A j \in 0 .. Len(pool.ticks) : \A x, y \in Prices :
              OnSegment(j, x) /\ OnSegment(j, y) =>
                  w[z][y] - w[z][x] = l[j] * (v[z][y] - v[z][x])

(* Ranges that share a price meet at a tick. *)
LEMMA SegmentsMeet ==
    ASSUME ConcentratedAssumption, SwapTypes, NEW x \in Nat,
           NEW j \in 0 .. Len(pool.ticks), NEW k \in 0 .. Len(pool.ticks), j < k,
           OnSegment(j, x), OnSegment(k, x)
    PROVE  k = j + 1 /\ PriceAt(k) = x
<1> DEFINE N == Len(pool.ticks)
<1>1. N \in Nat /\ DOMAIN pool.ticks = 1 .. N /\ \A i \in 1 .. N : PriceAt(i) \in Nat
  BY PoolFacts
<1>2. j + 1 \in 1 .. N /\ k \in 1 .. N /\ PriceAt(k) <= x /\ x <= PriceAt(j + 1)
  BY <1>1 DEF OnSegment
<1>3. CASE j + 1 < k
  <2>1. PriceAt(j + 1) < PriceAt(k)
    BY <1>1, <1>2, <1>3, PricesSorted
  <2> QED BY <1>1, <1>2, <2>1
<1>4. CASE ~(j + 1 < k)
  <2>1. k = j + 1
    BY <1>1, <1>2, <1>4
  <2> QED BY <1>1, <1>2, <2>1
<1> QED BY <1>3, <1>4

LEMMA CurveOfToken ==
    ASSUME SwapAssumptions, SwapTypes, NEW u, NEW v, Scales(u, v), NEW l, Sums(l), NEW z \in BOOLEAN
    PROVE  \E w : /\ \A x \in Prices : w[x] \in Int
                  /\ \A j \in 0 .. Len(pool.ticks) : \A x, y \in Prices :
                        OnSegment(j, x) /\ OnSegment(j, y) =>
                            w[y] - w[x] = l[j] * (v[z][y] - v[z][x])
<1> DEFINE N == Len(pool.ticks)
           worth(x) == IF x \in Prices THEN v[z][x] ELSE 0
           gain(i)  == pool.ticks[i].net * worth(PriceAt(i))
           step == [q \in (1 .. N) \X Int |-> q[2] + gain(q[1])]
<1>1. /\ N \in Nat /\ \A n \in 0 .. N : l[n] \in Int
      /\ \A n \in 1 .. N : pool.ticks[n].net \in Int /\ l[n] = l[n - 1] + pool.ticks[n].net
  BY PoolFacts DEF Sums, SwapAssumptions
<1>2. \A x \in Prices : v[z][x] \in Nat /\ x \in Nat
  BY ScaleTypes
<1>3. \A x : worth(x) \in Int
  BY <1>2
<1>4. \A i \in 1 .. N : gain(i) \in Int
  <2> HIDE DEF worth
  <2> QED BY <1>1, <1>3
<1>5. PICK m : Iterates(m, N, Int, 0, step)
  <2>1. step \in [(1 .. N) \X Int -> Int]
    <3> HIDE DEF gain
    <3> QED BY <1>4
  <2>2. N \in Nat /\ 0 \in Int
    BY <1>1
  <2> HIDE DEF step, N
  <2> QED BY <2>1, <2>2, RecursionExists
<1>6. m \in [0 .. N -> Int]
  BY <1>5 DEF Iterates
<1>7. ASSUME NEW n \in 1 .. N PROVE m[n] = m[n - 1] + gain(n)
  <2>0. n - 1 \in 0 .. N
    BY <1>1
  <2>1. m[n - 1] \in Int
    BY <1>6, <2>0
  <2>2. m[n] = step[<<n, m[n - 1]>>]
    <3> HIDE DEF step
    <3> QED BY <1>5 DEF Iterates
  <2> HIDE DEF gain
  <2> QED BY <2>1, <2>2
<1> HIDE DEF step
<1>8. ASSUME NEW x \in Prices, NEW j \in 0 .. N, NEW k \in 0 .. N, j < k,
             OnSegment(j, x), OnSegment(k, x)
      PROVE  l[j] * v[z][x] - m[j] = l[k] * v[z][x] - m[k]
  <2>1. k = j + 1 /\ PriceAt(k) = x /\ k \in 1 .. N /\ k - 1 = j
    BY <1>1, <1>2, <1>8, SegmentsMeet DEF SwapAssumptions
  <2> DEFINE net == pool.ticks[k].net
             vx  == v[z][x]
  <2>2. gain(k) = net * vx /\ net \in Int /\ vx \in Int
    BY <1>1, <1>2, <2>1
  <2>3. /\ l[k] = l[j] + net /\ m[k] = m[j] + net * vx
        /\ l[j] \in Int /\ m[j] \in Int
    <3>1. m[k] = m[k - 1] + gain(k) /\ l[k] = l[k - 1] + net
      BY <1>1, <1>7, <2>1
    <3> HIDE DEF gain, net, vx
    <3> QED BY <1>1, <1>6, <2>1, <2>2, <3>1
  <2> HIDE DEF net, vx
  <2>4. (l[j] + net) * vx = l[j] * vx + net * vx /\ net * vx \in Int /\ l[j] * vx \in Int
    BY <2>2, <2>3
  <2>5. l[j] * vx - m[j] = l[k] * vx - m[k]
    BY <2>3, <2>4
  <2> QED BY <2>5 DEF vx
<1> DEFINE On(x)  == \E j \in 0 .. N : OnSegment(j, x)
           seg(x) == CHOOSE j \in 0 .. N : OnSegment(j, x)
           w == [x \in Prices |-> IF On(x) THEN l[seg(x)] * v[z][x] - m[seg(x)] ELSE 0]
<1>9. ASSUME NEW x \in Prices, On(x) PROVE seg(x) \in 0 .. N /\ OnSegment(seg(x), x)
  <2> HIDE DEF OnSegment
  <2> QED BY <1>9
<1>10. ASSUME NEW x \in Prices, NEW j \in 0 .. N, OnSegment(j, x)
       PROVE  w[x] = l[j] * v[z][x] - m[j]
  <2>1. On(x)
    BY <1>10
  <2>2. w[x] = l[seg(x)] * v[z][x] - m[seg(x)] /\ seg(x) \in 0 .. N /\ OnSegment(seg(x), x)
    <3> HIDE DEF seg, On
    <3> QED BY <1>9, <2>1
  <2> HIDE DEF w, seg, On
  <2>3. seg(x) = j \/ seg(x) < j \/ j < seg(x)
    BY <1>1, <2>2
  <2> QED BY <1>8, <1>10, <2>2, <2>3
<1>11. ASSUME NEW x \in Prices PROVE w[x] \in Int
  <2>1. w[x] = IF On(x) THEN l[seg(x)] * v[z][x] - m[seg(x)] ELSE 0
    OBVIOUS
  <2>2. CASE On(x)
    <3>1. seg(x) \in 0 .. N
      BY <1>9, <2>2
    <3> HIDE DEF seg, On, w
    <3>2. l[seg(x)] \in Int /\ m[seg(x)] \in Int /\ v[z][x] \in Int
      BY <1>1, <1>2, <1>6, <3>1
    <3>3. l[seg(x)] * v[z][x] \in Int
      BY <3>2
    <3> QED BY <2>1, <2>2, <3>2, <3>3
  <2>3. CASE ~On(x)
    <3> HIDE DEF seg, On, w
    <3> QED BY <2>1, <2>3
  <2> QED BY <2>2, <2>3
<1> HIDE DEF w
<1>12. ASSUME NEW j \in 0 .. N, NEW x \in Prices, NEW y \in Prices, OnSegment(j, x), OnSegment(j, y)
       PROVE  w[y] - w[x] = l[j] * (v[z][y] - v[z][x])
  <2>1. w[x] = l[j] * v[z][x] - m[j] /\ w[y] = l[j] * v[z][y] - m[j]
    BY <1>10, <1>12
  <2>2. l[j] \in Int /\ m[j] \in Int /\ v[z][x] \in Int /\ v[z][y] \in Int
    BY <1>1, <1>2, <1>6
  <2> QED BY <2>1, <2>2
<1> QED BY <1>11, <1>12

LEMMA CurveExists ==
    ASSUME SwapAssumptions, SwapTypes, NEW u, NEW v, Scales(u, v), NEW l, Sums(l)
    PROVE  \E w : Curve(l, v, w)
<1> DEFINE Of(z, w) == /\ \A x \in Prices : w[x] \in Int
                       /\ \A j \in 0 .. Len(pool.ticks) : \A x, y \in Prices :
                             OnSegment(j, x) /\ OnSegment(j, y) =>
                                 w[y] - w[x] = l[j] * (v[z][y] - v[z][x])
<1>0. \A z \in BOOLEAN : \E w : Of(z, w)
  BY CurveOfToken
<1>a. TRUE \in BOOLEAN /\ FALSE \in BOOLEAN
  OBVIOUS
<1> HIDE DEF Of
<1>1. PICK w0 : Of(TRUE, w0)
  BY <1>0, <1>a
<1>2. PICK w1 : Of(FALSE, w1)
  BY <1>0, <1>a
<1> DEFINE w == [z \in BOOLEAN |-> IF z THEN w0 ELSE w1]
<1>3. ASSUME NEW z \in BOOLEAN PROVE Of(z, w[z])
  <2>1. (z = TRUE /\ w[z] = w0) \/ (z = FALSE /\ w[z] = w1)
    OBVIOUS
  <2> HIDE DEF w, Of
  <2> QED BY <1>1, <1>2, <2>1
<1> HIDE DEF w
<1>4. Curve(l, v, w)
  BY <1>3 DEF Curve, Of
<1> QED BY <1>4

(* A step stays in the range it began in, and takes and gives what moving  *)
(* the price there is worth, rounded for the pool.                         *)
LEMMA StepOnSegment ==
    ASSUME SwapAssumptions, CurveInv, pc = "loop", NEW s, Taken(s)
    PROVE  OnSegment(Below, sqrtPrice) /\ OnSegment(Below, s.next) /\ Below \in 0 .. Len(pool.ticks)
<1> DEFINE N == Len(pool.ticks)
<1>1. InRange /\ Directed /\ zeroForOne \in BOOLEAN /\ SwapTypes
  BY DEF CurveInv, Walking, SwapInv, SwapTypes
<1>2. /\ limit \in Nat /\ Target \in Nat /\ sqrtPrice \in Nat /\ s.next \in Nat
      /\ N \in Nat /\ DOMAIN pool.ticks = 1 .. N /\ \A i \in 1 .. N : PriceAt(i) \in Nat
  BY <1>1, PoolFacts DEF SwapTypes, Taken, SwapAssumptions
<1>3. IF zeroForOne THEN limit <= Target /\ Target <= s.next /\ s.next <= sqrtPrice
                    ELSE sqrtPrice <= s.next /\ s.next <= Target /\ Target <= limit
  BY StepDirected
<1>4. /\ Below \in 0 .. N /\ OnSegment(Below, sqrtPrice)
      /\ Below >= 1 => PriceAt(Below) <= sqrtPrice
      /\ Below < N => sqrtPrice <= PriceAt(Below + 1)
  BY <1>1 DEF InRange, OnSegment
<1>5. CASE zeroForOne
  <2>1. Below = idx
    BY <1>5 DEF Below
  <2>2. Below >= 1 => PriceAt(Below) <= s.next
    <3> SUFFICES ASSUME Below >= 1 PROVE PriceAt(Below) <= s.next
      OBVIOUS
    <3>1. idx \in 1 .. N /\ PriceAt(idx) \in Nat
      BY <1>2, <1>4, <2>1
    <3>2. PriceAt(idx) <= Target
      BY <1>2, <1>5, <3>1 DEF Crossing, Target
    <3> QED BY <1>2, <1>3, <1>5, <2>1, <3>1, <3>2
  <2>3. Below < N => s.next <= PriceAt(Below + 1)
    <3> SUFFICES ASSUME Below < N PROVE s.next <= PriceAt(Below + 1)
      OBVIOUS
    <3>1. PriceAt(Below + 1) \in Nat
      BY <1>2, <1>4
    <3> QED BY <1>2, <1>3, <1>4, <1>5, <3>1
  <2> QED BY <1>4, <2>2, <2>3 DEF OnSegment
<1>6. CASE ~zeroForOne
  <2>1. Below = idx - 1 /\ idx \in Int
    BY <1>1, <1>6 DEF Below, InRange
  <2>2. Below < N => s.next <= PriceAt(Below + 1)
    <3> SUFFICES ASSUME Below < N PROVE s.next <= PriceAt(Below + 1)
      OBVIOUS
    <3>1. Below + 1 = idx /\ idx \in 1 .. N /\ PriceAt(idx) \in Nat
      BY <1>2, <1>4, <2>1
    <3>2. Target <= PriceAt(idx)
      BY <1>2, <1>6, <3>1 DEF Crossing, Target
    <3> QED BY <1>2, <1>3, <1>6, <3>1, <3>2
  <2>3. Below >= 1 => PriceAt(Below) <= s.next
    <3> SUFFICES ASSUME Below >= 1 PROVE PriceAt(Below) <= s.next
      OBVIOUS
    <3>1. PriceAt(Below) \in Nat
      BY <1>2, <1>4
    <3> QED BY <1>2, <1>3, <1>4, <1>6, <3>1
  <2> QED BY <1>4, <2>2, <2>3 DEF OnSegment
<1> QED BY <1>5, <1>6

LEMMA StepFair ==
    ASSUME SwapAssumptions, CurveInv, pc = "loop", NEW s, Taken(s), Computed(s),
           sqrtPrice \in Prices, s.next \in Prices, NEW u, NEW v, Scales(u, v)
    PROVE  LET z == zeroForOne
           IN  /\ liquidity * (v[z][s.next] - v[z][sqrtPrice]) <= s.in * u[z]
               /\ s.out * u[~z] <= liquidity * (v[~z][sqrtPrice] - v[~z][s.next])
<1> DEFINE down == sqrtPrice >= Target
<1>1. /\ liquidity \in Nat /\ Target \in Nat /\ sqrtPrice \in Nat /\ s.next \in Nat
      /\ s.in \in Nat /\ s.out \in Nat /\ SwapMathAssumption /\ zeroForOne \in BOOLEAN
  BY PoolFacts DEF CurveInv, SwapInv, SwapTypes, Taken, Computed, SwapAssumptions
<1>2. IF zeroForOne THEN Target <= s.next /\ s.next <= sqrtPrice
                    ELSE sqrtPrice <= s.next /\ s.next <= Target
  BY StepDirected
<1>3. /\ s.in = AmountIn(sqrtPrice, s.next, liquidity, down) /\ s.in # Err
      /\ s.out = AmountOut(sqrtPrice, s.next, liquidity, down) /\ s.out # Err
  <2>1. computeSwapStep(sqrtPrice, Target, liquidity, remaining, pool.pips).next # Err
    BY DEF Computed
  <2> QED BY <1>1, <2>1, StepAmounts DEF Computed
<1>4. down \in BOOLEAN /\ IF down THEN s.next <= sqrtPrice ELSE sqrtPrice <= s.next
  BY <1>1, <1>2
<1> HIDE DEF down
<1>5. /\ liquidity * (v[down][s.next] - v[down][sqrtPrice]) <= s.in * u[down]
      /\ s.out * u[~down] <= liquidity * (v[~down][sqrtPrice] - v[~down][s.next])
  BY <1>1, <1>3, <1>4, AmountWorth
<1>6. CASE down = zeroForOne
  BY <1>5, <1>6
<1>7. CASE down # zeroForOne
  <2>1. s.next = sqrtPrice
    BY <1>1, <1>2, <1>4, <1>7 DEF down
  <2>2. /\ u[zeroForOne] \in Nat \ {0} /\ u[~zeroForOne] \in Nat \ {0} /\ u[~down] \in Nat \ {0}
        /\ v[zeroForOne][s.next] \in Nat /\ v[~zeroForOne][s.next] \in Nat /\ v[~down][s.next] \in Nat
    <3>1. ASSUME NEW z \in BOOLEAN
          PROVE  /\ u[z] \in Nat \ {0} /\ u[~z] \in Nat \ {0}
                 /\ v[z][s.next] \in Nat /\ v[~z][s.next] \in Nat
      <4>1. (~z) \in BOOLEAN
        OBVIOUS
      <4> QED BY <4>1, ScaleTypes
    <3> QED BY <1>1, <1>4, <3>1
  <2>3. s.out * u[~down] <= 0
    BY <1>1, <1>5, <2>1, <2>2
  <2>4. s.out = 0
    <3>1. 0 * u[~down] = 0
      BY <2>2
    <3> QED BY <1>1, <2>2, <2>3, <3>1, MulCancel
  <2>5. liquidity * (v[zeroForOne][s.next] - v[zeroForOne][sqrtPrice]) = 0
        /\ liquidity * (v[~zeroForOne][sqrtPrice] - v[~zeroForOne][s.next]) = 0
    BY <1>1, <2>1, <2>2
  <2>6. s.in * u[zeroForOne] \in Nat /\ s.out * u[~zeroForOne] = 0
    BY <1>1, <2>2, <2>4, MulNat
  <2> QED BY <2>5, <2>6
<1> QED BY <1>6, <1>7

(* The prices between two. *)
Way(a, b) == { x \in Prices : (a <= x /\ x <= b) \/ (b <= x /\ x <= a) }

(* What a swap has taken on its way to a price is worth at least what the  *)
(* curve asks for, what it gave at most, and the curve rises all that way. *)
TradedTo(u, w, price, in, out) ==
    LET z == zeroForOne
        p == pool.price
    IN  /\ p \in Prices /\ price \in Prices
        /\ w[z][price] - w[z][p] <= in * u[z]
        /\ out * u[~z] <= w[~z][p] - w[~z][price]
        /\ \A x \in Way(p, price) : w[z][p] <= w[z][x] /\ w[~z][x] <= w[~z][p]

LEMMA SegmentConvex ==
    ASSUME ConcentratedAssumption, SwapTypes, NEW j \in 0 .. Len(pool.ticks),
           NEW a \in Nat, NEW b \in Nat, NEW x \in Nat, a <= x, x <= b,
           OnSegment(j, a), OnSegment(j, b)
    PROVE  OnSegment(j, x)
<1>1. /\ Len(pool.ticks) \in Nat /\ DOMAIN pool.ticks = 1 .. Len(pool.ticks)
      /\ \A i \in 1 .. Len(pool.ticks) : PriceAt(i) \in Nat
  BY PoolFacts
<1>2. ASSUME j >= 1 PROVE PriceAt(j) <= x
  <2>1. j \in 1 .. Len(pool.ticks) /\ PriceAt(j) <= a
    BY <1>1, <1>2 DEF OnSegment
  <2> QED BY <1>1, <2>1
<1>3. ASSUME j < Len(pool.ticks) PROVE x <= PriceAt(j + 1)
  <2>1. j + 1 \in 1 .. Len(pool.ticks) /\ b <= PriceAt(j + 1)
    BY <1>1, <1>3 DEF OnSegment
  <2> QED BY <1>1, <2>1
<1> QED BY <1>2, <1>3 DEF OnSegment

LEMMA CurveRises ==
    ASSUME SwapAssumptions, NEW u, NEW v, Scales(u, v), NEW l, NEW w, Curve(l, v, w),
           NEW j \in 0 .. Len(pool.ticks), l[j] \in Nat \ {0}, NEW z \in BOOLEAN,
           NEW x \in Prices, NEW y \in Prices, OnSegment(j, x), OnSegment(j, y), Past(z, x, y)
    PROVE  w[z][x] < w[z][y]
<1>1. v[z][x] \in Nat /\ v[z][y] \in Nat /\ v[z][x] < v[z][y]
  BY ScaleTypes, ScalesOrdered
<1>2. w[z][x] \in Int /\ w[z][y] \in Int /\ w[z][y] - w[z][x] = l[j] * (v[z][y] - v[z][x])
  BY DEF Curve
<1> DEFINE d == v[z][y] - v[z][x]
<1>3. d \in Nat \ {0}
  BY <1>1
<1> HIDE DEF d
<1>4. l[j] * d \in Nat \ {0}
  BY <1>3, MulPositive
<1> QED BY <1>2, <1>4 DEF d

LEMMA StepInPrices ==
    ASSUME SwapAssumptions, CurveInv, pc = "loop", NEW s, Taken(s), sqrtPrice \in Prices
    PROVE  s.next \in Prices
<1>1. /\ MinRatio \in Nat /\ MaxRatio \in Nat /\ limit \in Nat /\ Target \in Nat
      /\ sqrtPrice \in Nat /\ s.next \in Nat /\ MinRatio <= limit
      /\ zeroForOne \in BOOLEAN
  BY PoolFacts DEF CurveInv, SwapInv, SwapTypes, Taken, SwapAssumptions, ConcentratedAssumption
<1>2. IF zeroForOne THEN limit <= Target /\ Target <= s.next /\ s.next <= sqrtPrice
                    ELSE sqrtPrice <= s.next /\ s.next <= Target /\ Target <= limit
  BY StepDirected
<1>3. ~zeroForOne => limit <= MaxRatio
  BY <1>1 DEF limit
<1> QED BY <1>1, <1>2, <1>3 DEF Prices

LEMMA StepTraded ==
    ASSUME SwapAssumptions, CurveInv, pc = "loop", NEW s, Taken(s), Computed(s),
           NEW u, NEW v, Scales(u, v), NEW l, NEW w, Curve(l, v, w), liquidity = l[Below],
           amountIn \in Nat, TradedTo(u, w, sqrtPrice, amountIn - remaining, amountOut)
    PROVE  TradedTo(u, w, s.next, amountIn - (remaining - (s.in + s.fee)), amountOut + s.out)
<1> DEFINE z == zeroForOne
           o == ~zeroForOne
           p == pool.price
           c == sqrtPrice
           n == s.next
<1>1. /\ z \in BOOLEAN /\ o \in BOOLEAN /\ liquidity \in Nat \ {0} /\ remaining \in Nat
      /\ amountOut \in Nat /\ s.in \in Nat /\ s.out \in Nat /\ s.fee \in Nat
      /\ SwapTypes /\ ConcentratedAssumption
  BY DEF CurveInv, SwapInv, SwapTypes, Taken, Computed, SwapAssumptions
<1>2. p \in Prices /\ c \in Prices /\ n \in Prices
  BY StepInPrices DEF TradedTo
<1>3. OnSegment(Below, c) /\ OnSegment(Below, n) /\ Below \in 0 .. Len(pool.ticks)
  BY StepOnSegment
<1>4. \A x \in Prices : x \in Nat /\ w[z][x] \in Int /\ w[o][x] \in Int
  BY <1>1, ScaleTypes DEF Curve
<1>5. /\ w[z][n] - w[z][c] = liquidity * (v[z][n] - v[z][c])
      /\ w[o][c] - w[o][n] = liquidity * (v[o][c] - v[o][n])
  BY <1>1, <1>2, <1>3 DEF Curve
<1>6. /\ u[z] \in Nat \ {0} /\ u[o] \in Nat \ {0}
      /\ v[z][n] \in Nat /\ v[z][c] \in Nat /\ v[o][n] \in Nat /\ v[o][c] \in Nat
  BY <1>1, <1>2, ScaleTypes
<1>7. /\ liquidity * (v[z][n] - v[z][c]) <= s.in * u[z]
      /\ s.out * u[o] <= liquidity * (v[o][c] - v[o][n])
  BY <1>2, StepFair
<1>8. /\ w[z][c] - w[z][p] <= (amountIn - remaining) * u[z]
      /\ amountOut * u[o] <= w[o][p] - w[o][c]
      /\ \A x \in Way(p, c) : w[z][p] <= w[z][x] /\ w[o][x] <= w[o][p]
  BY DEF TradedTo
<1>9. IF z THEN n <= c /\ c <= p ELSE c <= n /\ p <= c
  <2>1. IF zeroForOne THEN s.next <= sqrtPrice ELSE sqrtPrice <= s.next
    BY StepDirected
  <2>2. IF zeroForOne THEN sqrtPrice <= pool.price ELSE pool.price <= sqrtPrice
    BY DEF CurveInv, Directed, Walking
  <2> QED BY <2>1, <2>2
<1>10. ASSUME NEW x \in Way(p, n) PROVE w[z][p] <= w[z][x] /\ w[o][x] <= w[o][p]
  <2>1. x \in Prices /\ x \in Nat /\ p \in Nat /\ c \in Nat /\ n \in Nat
    BY <1>2, <1>4 DEF Way
  <2>2. CASE x \in Way(p, c)
    BY <1>8, <2>2
  <2>3. CASE x \notin Way(p, c)
    <3>1. IF z THEN n <= x /\ x < c ELSE c < x /\ x <= n
      <4> HIDE DEF z, p, c, n
      <4> QED BY <1>1, <1>9, <1>10, <2>1, <2>3 DEF Way
    <3>2. OnSegment(Below, x)
      <4>1. CASE z
        BY <1>1, <1>3, <2>1, <3>1, <4>1, SegmentConvex
      <4>2. CASE ~z
        BY <1>1, <1>3, <2>1, <3>1, <4>2, SegmentConvex
      <4> QED BY <4>1, <4>2
    <3>3. w[z][c] < w[z][x]
      <4>1. Past(z, c, x)
        BY <3>1 DEF Past
      <4> QED BY <1>1, <1>2, <1>3, <2>1, <3>2, <4>1, CurveRises
    <3>4. w[o][x] < w[o][c]
      <4>1. Past(o, x, c)
        BY <3>1 DEF Past
      <4> QED BY <1>1, <1>2, <1>3, <2>1, <3>2, <4>1, CurveRises
    <3>5. w[z][p] <= w[z][c] /\ w[o][c] <= w[o][p]
      <4>1. c \in Way(p, c)
        BY <1>2, <1>9, <2>1 DEF Way
      <4> QED BY <1>8, <4>1
    <3> HIDE DEF z, o, p, c, n
    <3> QED BY <1>2, <1>4, <2>1, <3>3, <3>4, <3>5
  <2> QED BY <2>2, <2>3
<1>11. w[z][n] - w[z][p] <= (amountIn - (remaining - (s.in + s.fee))) * u[z]
  <2> DEFINE k == u[z]
             r == amountIn - remaining
  <2>1. r + (s.in + s.fee) = amountIn - (remaining - (s.in + s.fee)) /\ r \in Int
    BY <1>1
  <2>2. (r + (s.in + s.fee)) * k = r * k + s.in * k + s.fee * k
    BY <1>1, <1>6
  <2>3. s.fee * k \in Nat /\ s.in * k \in Nat /\ r * k \in Int
    BY <1>1, <1>6, <2>1, MulNat
  <2>4. w[z][n] - w[z][c] <= s.in * k /\ w[z][c] - w[z][p] <= r * k
    BY <1>5, <1>7, <1>8
  <2>5. w[z][n] \in Int /\ w[z][c] \in Int /\ w[z][p] \in Int
    BY <1>2, <1>4
  <2> HIDE DEF z, o, p, c, n, k, r
  <2>6. w[z][n] - w[z][p] <= (r + (s.in + s.fee)) * k
    BY <2>2, <2>3, <2>4, <2>5
  <2> QED BY <2>1, <2>6 DEF k
<1>12. (amountOut + s.out) * u[o] <= w[o][p] - w[o][n]
  <2> DEFINE k == u[o]
             d == liquidity * (v[o][c] - v[o][n])
  <2>1. (amountOut + s.out) * k = amountOut * k + s.out * k /\ amountOut * k \in Int /\ s.out * k \in Int
    BY <1>1, <1>6
  <2>2. w[o][c] - w[o][n] = d /\ d \in Int
    BY <1>1, <1>5, <1>6
  <2>3. s.out * k <= d /\ amountOut * k <= w[o][p] - w[o][c]
    BY <1>7, <1>8
  <2>5. w[o][n] \in Int /\ w[o][c] \in Int /\ w[o][p] \in Int
    BY <1>2, <1>4
  <2> HIDE DEF z, o, p, c, n, k, d
  <2>6. (amountOut + s.out) * k <= w[o][p] - w[o][n]
    BY <2>1, <2>2, <2>3, <2>5
  <2> QED BY <2>6 DEF k
<1> QED BY <1>2, <1>10, <1>11, <1>12 DEF TradedTo

(* A price strictly below the next tick, on the way up. *)
ShortOfTick == ~zeroForOne /\ Below < Len(pool.ticks) => sqrtPrice < PriceAt(Below + 1)

LEMMA AdvanceLiquidity ==
    ASSUME SwapAssumptions, CurveInv, pc = "loop", NEW s, Taken(s), Advance(s),
           NEW l, Sums(l), liquidity = l[Below]
    PROVE  liquidity' = l[Below'] /\ ShortOfTick'
<1> DEFINE N == Len(pool.ticks)
<1>1. /\ UNCHANGED <<pool, zeroForOne>> /\ sqrtPrice' = s.next
      /\ SwapTypes /\ ConcentratedAssumption /\ zeroForOne \in BOOLEAN
      /\ \/ /\ Crossing /\ s.next = Target /\ liquidity' = CrossedLiquidity
            /\ idx' = IF zeroForOne THEN idx - 1 ELSE idx + 1
         \/ ~(Crossing /\ s.next = Target) /\ idx' = idx /\ liquidity' = liquidity
  BY DEF Advance, args, CurveInv, SwapInv, SwapTypes, SwapAssumptions
<1>2. /\ limit \in Nat /\ Target \in Nat /\ sqrtPrice \in Nat /\ s.next \in Nat
      /\ N \in Nat /\ DOMAIN pool.ticks = 1 .. N /\ liquidity \in Int
      /\ \A i \in 1 .. N : /\ PriceAt(i) \in Nat /\ pool.ticks[i].net \in Int
                           /\ pool.ticks[i].index \in DOMAIN TickPrice
  BY PoolFacts DEF CurveInv, SwapInv, SwapTypes, Taken, SwapAssumptions
<1>3. InRange /\ idx \in Int /\ Below \in 0 .. N
  BY DEF CurveInv, Walking, InRange
<1>4. IF zeroForOne THEN limit <= Target /\ Target <= s.next /\ s.next <= sqrtPrice
                    ELSE sqrtPrice <= s.next /\ s.next <= Target /\ Target <= limit
  BY StepDirected
<1>5. /\ \A n \in 0 .. N : l[n] \in Int
      /\ \A n \in 1 .. N : l[n] = l[n - 1] + pool.ticks[n].net
  BY DEF Sums
<1>6. CASE Crossing /\ s.next = Target
  <2>1. /\ idx \in 1 .. N /\ s.next = PriceAt(idx) /\ liquidity' = CrossedLiquidity
        /\ idx' = IF zeroForOne THEN idx - 1 ELSE idx + 1
    BY <1>1, <1>2, <1>6 DEF Crossing, Target
  <2>2. l[idx] = l[idx - 1] + pool.ticks[idx].net /\ l[idx] \in Int /\ l[idx - 1] \in Int
        /\ pool.ticks[idx].net \in Int
    BY <1>2, <1>5, <2>1
  <2>3. CASE zeroForOne
    <3>1. Below = idx /\ Below' = idx - 1 /\ CrossedLiquidity = liquidity + (-pool.ticks[idx].net)
      BY <1>1, <2>1, <2>3 DEF Below, CrossedLiquidity
    <3>2. liquidity' = l[idx - 1]
      BY <1>2, <2>1, <2>2, <3>1
    <3> QED BY <1>1, <2>3, <3>1, <3>2 DEF ShortOfTick
  <2>4. CASE ~zeroForOne
    <3>1. Below = idx - 1 /\ Below' = idx /\ CrossedLiquidity = liquidity + pool.ticks[idx].net
      <4>1. Below' = (idx + 1) - 1
        BY <1>1, <2>1, <2>4 DEF Below
      <4> QED BY <1>3, <2>4, <4>1 DEF Below, CrossedLiquidity
    <3>2. liquidity' = l[idx]
      BY <1>2, <2>1, <2>2, <3>1
    <3>3. ASSUME idx < N PROVE s.next < PriceAt(idx + 1)
      <4>1. idx + 1 \in 1 .. N /\ idx < idx + 1
        BY <2>1, <3>3
      <4> QED BY <1>1, <1>2, <2>1, <4>1, PricesSorted
    <3>4. (PriceAt(Below + 1))' = PriceAt(Below' + 1)
      BY <1>1 DEF PriceAt
    <3> QED BY <1>1, <3>1, <3>2, <3>3, <3>4 DEF ShortOfTick
  <2> QED BY <2>3, <2>4
<1>7. CASE ~(Crossing /\ s.next = Target)
  <2>1. idx' = idx /\ liquidity' = liquidity /\ Below' = Below
    BY <1>1, <1>7 DEF Below
  <2>2. ASSUME ~zeroForOne, Below < N PROVE s.next < PriceAt(Below + 1)
    <3>1. Below + 1 = idx /\ idx \in 1 .. N /\ PriceAt(idx) \in Nat
      BY <1>2, <1>3, <2>2 DEF Below
    <3>2. PriceAt(idx) # limit
      <4>1. PriceAt(idx) # MaxRatio - 1
        <5>1. pool.ticks[idx].index \in DOMAIN TickPrice
          BY <1>2, <3>1
        <5> QED BY <1>1, <5>1 DEF PriceAt, ConcentratedAssumption
      <4> QED BY <2>2, <4>1 DEF limit
    <3>3. CASE Crossing
      <4>1. Target = PriceAt(idx) /\ s.next # Target
        BY <1>7, <3>3 DEF Target
      <4> QED BY <1>2, <1>4, <2>2, <3>1, <4>1
    <3>4. CASE ~Crossing
      <4>1. Target = limit /\ ~(PriceAt(idx) < limit)
        BY <1>2, <2>2, <3>1, <3>4 DEF Target, Crossing
      <4> QED BY <1>2, <1>4, <2>2, <3>1, <3>2, <4>1
    <3> QED BY <3>3, <3>4
  <2>3. ShortOfTick'
    <3>1. (PriceAt(Below + 1))' = PriceAt(Below' + 1)
      BY <1>1 DEF PriceAt
    <3> QED BY <1>1, <2>1, <2>2, <3>1 DEF ShortOfTick
  <2> QED BY <2>1, <2>3
<1> QED BY <1>6, <1>7

(* The way back: the pool stands where the first swap left it, ps is the   *)
(* price that one began at.                                                *)
Returning(u, w, ps) ==
    LET z == zeroForOne
        p == pool.price
    IN  /\ ps \in Prices /\ p \in Prices /\ ~Past(z, ps, p)
        /\ w[~z][p] - w[~z][ps] <= paid * u[~z]
        /\ amountIn * u[z] <= w[z][ps] - w[z][p]
        /\ \A x \in Way(p, ps) : w[z][x] <= w[z][ps] /\ w[~z][ps] <= w[~z][x]

(* The way back does not lead past where the way there began. *)
LEMMA NotPastTheStart ==
    ASSUME SwapAssumptions, CurveInv, pc = "loop", NEW s, Taken(s), Computed(s),
           NEW u, NEW v, Scales(u, v), NEW l, NEW w, Curve(l, v, w), liquidity = l[Below],
           amountIn \in Nat, TradedTo(u, w, sqrtPrice, amountIn - remaining, amountOut),
           NEW ps, Returning(u, w, ps), ~Past(zeroForOne, ps, sqrtPrice)
    PROVE  ~Past(zeroForOne, ps, s.next)
<1> SUFFICES ASSUME Past(zeroForOne, ps, s.next) PROVE FALSE
  OBVIOUS
<1> DEFINE z == zeroForOne
           n == s.next
           p == pool.price
<1>1. /\ z \in BOOLEAN /\ ps \in Prices /\ n \in Prices /\ p \in Prices /\ sqrtPrice \in Prices
      /\ liquidity \in Nat \ {0} /\ SwapTypes /\ ConcentratedAssumption
      /\ remaining \in Nat /\ s.in \in Nat /\ s.fee \in Nat /\ s.in + s.fee <= remaining
  BY StepInPrices
     DEF CurveInv, SwapInv, SwapTypes, Taken, Computed, SwapAssumptions, TradedTo, Returning
<1>2. \A x \in Prices : x \in Nat /\ w[z][x] \in Int /\ u[z] \in Nat \ {0}
  BY <1>1, ScaleTypes DEF Curve
<1>3. OnSegment(Below, sqrtPrice) /\ OnSegment(Below, n) /\ Below \in 0 .. Len(pool.ticks)
  BY StepOnSegment
<1>a. n \in Nat /\ ps \in Nat /\ sqrtPrice \in Nat
  BY <1>1, <1>2
<1>4. OnSegment(Below, ps)
  <2>1. CASE z
    <3>1. n <= ps /\ ps <= sqrtPrice
      BY <1>a, <2>1 DEF Past
    <3> QED BY <1>1, <1>2, <1>3, <3>1, SegmentConvex
  <2>2. CASE ~z
    <3>1. sqrtPrice <= ps /\ ps <= n
      BY <1>a, <2>2 DEF Past
    <3> QED BY <1>1, <1>2, <1>3, <3>1, SegmentConvex
  <2> QED BY <2>1, <2>2
<1>5. w[z][ps] < w[z][n]
  BY <1>1, <1>3, <1>4, CurveRises
<1> DEFINE in == amountIn - (remaining - (s.in + s.fee))
<1>6. w[z][n] - w[z][p] <= in * u[z]
  BY StepTraded DEF TradedTo
<1>7. amountIn * u[z] <= w[z][ps] - w[z][p]
  BY DEF Returning
<1>8. in * u[z] <= amountIn * u[z]
  <2>1. PICK d \in Nat : amountIn = in + d
    <3>1. remaining - (s.in + s.fee) \in Nat /\ amountIn = in + (remaining - (s.in + s.fee))
      BY <1>1
    <3> QED BY <3>1
  <2>2. in \in Int /\ d * u[z] \in Nat
    BY <1>1, <1>2, MulNat
  <2> HIDE DEF in
  <2>3. amountIn * u[z] = in * u[z] + d * u[z] /\ in * u[z] \in Int
    BY <1>1, <1>2, <2>1, <2>2
  <2> QED BY <2>2, <2>3
<1>9. in * u[z] \in Int /\ amountIn * u[z] \in Int /\ w[z][n] \in Int /\ w[z][ps] \in Int /\ w[z][p] \in Int
  BY <1>1, <1>2
<1> HIDE DEF z, n, p, in
<1> QED BY <1>5, <1>6, <1>7, <1>8, <1>9

(* So it gives back no more than was paid. *)
LEMMA BackForLess ==
    ASSUME SwapAssumptions, CurveInv, pc = "done", NEW u, NEW v, Scales(u, v),
           NEW l, NEW w, Curve(l, v, w), paid \in Nat, NEW in \in Int,
           TradedTo(u, w, sqrtPrice, in, amountOut),
           NEW ps, Returning(u, w, ps), ~Past(zeroForOne, ps, sqrtPrice)
    PROVE  amountOut <= paid
<1> DEFINE o == ~zeroForOne
           p == pool.price
           c == sqrtPrice
<1>1. /\ zeroForOne \in BOOLEAN /\ o \in BOOLEAN /\ amountOut \in Nat
      /\ p \in Prices /\ c \in Prices /\ ps \in Prices
  BY DEF CurveInv, SwapInv, SwapTypes, TradedTo, Returning
<1>2. \A x \in Prices : x \in Nat /\ w[o][x] \in Int /\ u[o] \in Nat \ {0}
  BY <1>1, ScaleTypes DEF Curve
<1>3. c \in Way(p, ps)
  <2>1. IF zeroForOne THEN c <= p /\ ps <= c ELSE p <= c /\ c <= ps
    BY <1>1, <1>2 DEF CurveInv, Walking, Directed, Past
  <2> QED BY <1>1, <2>1 DEF Way
<1>4. /\ amountOut * u[o] <= w[o][p] - w[o][c]
      /\ w[o][p] - w[o][ps] <= paid * u[o]
      /\ w[o][ps] <= w[o][c]
  BY <1>3 DEF TradedTo, Returning
<1>5. amountOut * u[o] \in Nat /\ paid * u[o] \in Nat
  BY <1>1, <1>2, MulNat
<1>6. amountOut * u[o] <= paid * u[o]
  <2>1. w[o][p] \in Int /\ w[o][c] \in Int /\ w[o][ps] \in Int
    BY <1>1, <1>2
  <2> HIDE DEF o, p, c
  <2> QED BY <1>4, <1>5, <2>1
<1> QED BY <1>1, <1>2, <1>6, MulCancel

(* The range whose liquidity the pool has is the one that holds its tick. *)
Entered(l) ==
    \E j \in 0 .. Len(pool.ticks) :
        /\ pool.liquidity = l[j]
        /\ \A i \in DOMAIN pool.ticks : pool.ticks[i].index <= pool.tick <=> i <= j

Fair(u, v, l, w, ps) ==
    /\ Sums(l) /\ Curve(l, v, w)
    /\ Walking => /\ liquidity = l[Below]
                  /\ TradedTo(u, w, sqrtPrice, amountIn - remaining, amountOut)
    /\ leg = 2 => /\ Returning(u, w, ps)
                  /\ pc = "start" => Entered(l)
                  /\ Walking => ~Past(zeroForOne, ps, sqrtPrice)

TripTypes ==
    /\ leg \in {1, 2} /\ amountIn \in Nat /\ paid \in Nat
    /\ leg = 1 => paid = amountIn
    /\ pc = "start" => remaining = amountIn /\ amountOut = 0
    /\ pc = "done" => remaining = 0 /\ amountOut > 0

(* From the quote to the end of the way back there is one curve that both  *)
(* swaps follow.                                                           *)
TripInv(u, v) ==
    /\ CurveInv /\ TripTypes
    /\ Walking /\ amountOut > 0 => ShortOfTick
    /\ Walking \/ (pc = "start" /\ leg = 2) => \E l, w, ps : Fair(u, v, l, w, ps)

LEMMA SameTicks ==
    ASSUME NEW l, NEW v, NEW w, pool'.ticks = pool.ticks, Sums(l), Curve(l, v, w)
    PROVE  Sums(l)' /\ Curve(l, v, w)'
<1>1. Sums(l)'
  BY DEF Sums
<1>2. ASSUME NEW j, NEW x PROVE OnSegment(j, x)' <=> OnSegment(j, x)
  BY DEF OnSegment, PriceAt
<1>3. Curve(l, v, w)'
  BY <1>2 DEF Curve
<1> QED BY <1>1, <1>3

LEMMA SameTrade ==
    ASSUME UNCHANGED <<pool, zeroForOne>>, NEW u, NEW w
    PROVE  /\ TradedTo(u, w, sqrtPrice, amountIn - remaining, amountOut)' <=>
                  TradedTo(u, w, sqrtPrice', amountIn' - remaining', amountOut')
           /\ \A ps : UNCHANGED <<amountIn, paid>> =>
                  (Returning(u, w, ps)' <=> Returning(u, w, ps))
<1>1. TradedTo(u, w, sqrtPrice, amountIn - remaining, amountOut)' <=>
          TradedTo(u, w, sqrtPrice', amountIn' - remaining', amountOut')
  BY DEF TradedTo
<1>2. ASSUME NEW ps, UNCHANGED <<amountIn, paid>>
      PROVE  Returning(u, w, ps)' <=> Returning(u, w, ps)
  BY <1>2 DEF Returning
<1> QED BY <1>1, <1>2

(* A swap that begins is on a curve: of a quote, the one its own ticks and *)
(* liquidity draw; of the way back, that of the quote.                     *)
LEMMA CurveAt ==
    ASSUME SwapAssumptions, SwapTypes, NEW u, NEW v, Scales(u, v),
           NEW b \in 0 .. Len(pool.ticks), NEW k \in Int
    PROVE  \E l, w : Sums(l) /\ Curve(l, v, w) /\ l[b] = k
<1> DEFINE N == Len(pool.ticks)
<1>1. PICK g : Sums(g)
  BY SumsExist DEF SwapAssumptions
<1> DEFINE l == [n \in 0 .. N |-> (g[n] - g[b]) + k]
<1>2. /\ N \in Nat /\ \A n \in 0 .. N : g[n] \in Int
      /\ \A n \in 1 .. N : pool.ticks[n].net \in Int /\ g[n] = g[n - 1] + pool.ticks[n].net
  BY <1>1, PoolFacts DEF Sums, SwapAssumptions
<1>3. \A n \in 0 .. N : l[n] = (g[n] - g[b]) + k
  OBVIOUS
<1> HIDE DEF l
<1>4. l[b] = k /\ \A n \in 0 .. N : l[n] \in Int
  <2>1. g[b] \in Int
    BY <1>2
  <2>2. l[b] = (g[b] - g[b]) + k
    BY <1>3
  <2>3. ASSUME NEW n \in 0 .. N PROVE l[n] \in Int
    <3>1. g[n] \in Int /\ l[n] = (g[n] - g[b]) + k
      BY <1>2, <1>3
    <3> QED BY <2>1, <3>1
  <2> HIDE DEF N
  <2> QED BY <2>1, <2>2, <2>3
<1>5. ASSUME NEW n \in 1 .. N PROVE l[n] = l[n - 1] + pool.ticks[n].net
  <2>1. n \in 0 .. N /\ n - 1 \in 0 .. N
    BY <1>2
  <2>2. l[n] = (g[n] - g[b]) + k /\ l[n - 1] = (g[n - 1] - g[b]) + k
    BY <1>3, <2>1
  <2>3. g[n] = g[n - 1] + pool.ticks[n].net /\ pool.ticks[n].net \in Int
        /\ g[n] \in Int /\ g[n - 1] \in Int /\ g[b] \in Int
    BY <1>2, <2>1
  <2> QED BY <2>2, <2>3
<1>6. Sums(l)
  BY <1>4, <1>5 DEF Sums
<1>7. \E w : Curve(l, v, w)
  BY <1>6, CurveExists
<1> QED BY <1>4, <1>6, <1>7

LEMMA BeginTrip ==
    ASSUME SwapAssumptions, NEW u, NEW v, Scales(u, v), TripInv(u, v), CurveInv', Begin
    PROVE  TripInv(u, v)'
<1> DEFINE N == Len(pool.ticks)
<1>1. /\ pc = "start" /\ pc' = "loop" /\ UNCHANGED <<pool, zeroForOne, amountIn, leg, paid>>
      /\ UNCHANGED <<sqrtPrice, liquidity, remaining, amountOut>> /\ idx' = FirstTick
      /\ sqrtPrice = pool.price /\ liquidity = pool.liquidity /\ liquidity \in Int
      /\ remaining = amountIn /\ amountOut = 0 /\ amountIn \in Nat
      /\ SwapTypes /\ ConcentratedAssumption /\ leg \in {1, 2}
  BY DEF Begin, args, TripInv, TripTypes, CurveInv, SwapInv, SwapTypes, SwapAssumptions
<1>2. Below' \in 0 .. N
  BY <1>1 DEF CurveInv, InRange, Walking
<1>3. pool.price \in Prices /\ zeroForOne \in BOOLEAN
  <2>1. pool.price \in Nat /\ MinRatio \in Nat /\ MaxRatio \in Nat
    BY <1>1, PoolFacts DEF ConcentratedAssumption
  <2> QED BY <1>1, <2>1 DEF Begin, Usable, Prices, SwapTypes
<1>4. ASSUME NEW l, NEW w, Curve(l, v, w)
      PROVE  TradedTo(u, w, sqrtPrice', amountIn' - remaining', amountOut')
  <2> DEFINE z == zeroForOne
             p == pool.price
  <2>1. /\ \A x \in Way(p, p) : x = p
        /\ w[z][p] \in Int /\ w[~z][p] \in Int /\ u[z] \in Nat /\ u[~z] \in Nat
    <3>1. (~z) \in BOOLEAN
      OBVIOUS
    <3>2. w[z][p] \in Int /\ w[~z][p] \in Int
      BY <1>3, <1>4, <3>1 DEF Curve
    <3>3. u[z] \in Nat /\ u[~z] \in Nat /\ \A x \in Prices : x \in Nat
      BY <1>3, <3>1, ScaleTypes
    <3>4. \A x \in Way(p, p) : x = p
      BY <1>3, <3>3 DEF Way
    <3> QED BY <3>2, <3>3, <3>4
  <2>2. 0 * u[z] = 0 /\ 0 * u[~z] = 0 /\ amountIn - remaining = 0
    BY <1>1, <2>1
  <2> QED BY <1>1, <1>3, <2>1, <2>2 DEF TradedTo
<1>5. TripTypes'
  BY <1>1 DEF TripInv, TripTypes
<1>6. ~(amountOut' > 0)
  BY <1>1
<1>7. CASE leg = 1
  <2>1. PICK l, w : Sums(l) /\ Curve(l, v, w) /\ l[Below'] = liquidity
    BY <1>1, <1>2, CurveAt
  <2>2. Fair(u, v, l, w, 0)'
    BY <1>1, <1>4, <1>7, <2>1, SameTicks, SameTrade DEF Fair
  <2>3. \E a, b, c : Fair(u, v, a, b, c)'
    BY <2>2
  <2> QED BY <1>5, <1>6, <2>3 DEF TripInv
<1>8. CASE leg = 2
  <2>1. PICK l, w, ps : Fair(u, v, l, w, ps)
    BY <1>1, <1>8 DEF TripInv
  <2>2. Sums(l) /\ Curve(l, v, w) /\ Returning(u, w, ps) /\ Entered(l)
    BY <1>1, <1>8, <2>1 DEF Fair
  <2>3. Sums(l)' /\ Curve(l, v, w)' /\ Returning(u, w, ps)'
    BY <1>1, <2>2, SameTicks, SameTrade
  <2>4. TradedTo(u, w, sqrtPrice, amountIn - remaining, amountOut)'
    BY <1>1, <1>4, <2>2, SameTrade
  <2>5. ~Past(zeroForOne, ps, sqrtPrice)'
    BY <1>1, <2>2 DEF Returning, Past
  <2>6. liquidity' = l[Below']
    <3>1. PICK j \in 0 .. N : /\ pool.liquidity = l[j]
                              /\ \A i \in DOMAIN pool.ticks : pool.ticks[i].index <= pool.tick <=> i <= j
      BY <2>2 DEF Entered
    <3> DEFINE first == IF zeroForOne THEN FirstTick + 1 ELSE FirstTick
    <3>2. /\ FirstTick \in Int /\ first \in 1 .. N + 1
          /\ \A i \in DOMAIN pool.ticks :
                IF i < first THEN pool.ticks[i].index <= pool.tick ELSE pool.ticks[i].index > pool.tick
      BY <1>1, FirstTickFound
    <3>3. Below' = first - 1
      BY <1>1, <3>2 DEF Below
    <3>4. N \in Nat /\ DOMAIN pool.ticks = 1 .. N /\ pool.tick \in Int
          /\ \A i \in 1 .. N : pool.ticks[i].index \in Int
      BY <1>1, PoolFacts
    <3> HIDE DEF first
    <3>5. \A i \in 1 .. N : i < first <=> i <= j
      <4> TAKE i \in 1 .. N
      <4>1. pool.ticks[i].index <= pool.tick <=> i <= j
        BY <3>1, <3>4
      <4>2. IF i < first THEN pool.ticks[i].index <= pool.tick ELSE pool.ticks[i].index > pool.tick
        BY <3>2, <3>4
      <4> QED BY <3>4, <4>1, <4>2
    <3>6. first - 1 = j
      <4>1. ~(first - 1 < j)
        <5> SUFFICES ASSUME first - 1 < j PROVE FALSE
          OBVIOUS
        <5>1. first \in 1 .. N /\ first <= j
          BY <3>2, <3>4
        <5> QED BY <3>4, <3>5, <5>1
      <4>2. ~(j < first - 1)
        <5> SUFFICES ASSUME j < first - 1 PROVE FALSE
          OBVIOUS
        <5>1. j + 1 \in 1 .. N /\ j + 1 < first /\ ~(j + 1 <= j)
          BY <3>2, <3>4
        <5> QED BY <3>5, <5>1
      <4> QED BY <3>2, <3>4, <4>1, <4>2
    <3> QED BY <1>1, <3>1, <3>3, <3>6
  <2>7. Fair(u, v, l, w, ps)'
    BY <1>1, <2>3, <2>4, <2>5, <2>6 DEF Fair
  <2>8. \E a, b, c : Fair(u, v, a, b, c)'
    BY <2>7
  <2> QED BY <1>5, <1>6, <2>8 DEF TripInv
<1> QED BY <1>1, <1>7, <1>8

LEMMA AdvanceTrip ==
    ASSUME SwapAssumptions, NEW u, NEW v, Scales(u, v), TripInv(u, v), CurveInv',
           pc = "loop", NEW s, Taken(s), Computed(s), Advance(s)
    PROVE  TripInv(u, v)'
<1>1. /\ CurveInv /\ amountIn \in Nat /\ leg \in {1, 2} /\ pc' \in {"loop", "end"}
      /\ UNCHANGED <<pool, zeroForOne, amountIn, leg, paid>> /\ sqrtPrice' = s.next
      /\ remaining' = remaining - (s.in + s.fee) /\ amountOut' = amountOut + s.out
  BY DEF TripInv, TripTypes, Advance, args
<1>2. PICK l, w, ps : Fair(u, v, l, w, ps)
  BY DEF TripInv, Walking
<1>3. /\ Sums(l) /\ Curve(l, v, w) /\ liquidity = l[Below]
      /\ TradedTo(u, w, sqrtPrice, amountIn - remaining, amountOut)
      /\ leg = 2 => Returning(u, w, ps) /\ ~Past(zeroForOne, ps, sqrtPrice)
  BY <1>2 DEF Fair, Walking
<1>4. liquidity' = l[Below'] /\ ShortOfTick'
  BY <1>1, <1>3, AdvanceLiquidity
<1>5. Sums(l)' /\ Curve(l, v, w)' /\ (leg = 2 => Returning(u, w, ps)')
  BY <1>1, <1>3, SameTicks, SameTrade
<1>6. TradedTo(u, w, sqrtPrice, amountIn - remaining, amountOut)'
  <2>1. TradedTo(u, w, s.next, amountIn - (remaining - (s.in + s.fee)), amountOut + s.out)
    BY <1>1, <1>3, StepTraded
  <2> QED BY <1>1, <2>1, SameTrade
<1>7. leg = 2 => ~Past(zeroForOne, ps, sqrtPrice)'
  <2>1. leg = 2 => ~Past(zeroForOne, ps, s.next)
    BY <1>1, <1>3, NotPastTheStart
  <2> QED BY <1>1, <2>1 DEF Past
<1>8. Fair(u, v, l, w, ps)'
  BY <1>1, <1>4, <1>5, <1>6, <1>7 DEF Fair
<1>9. \E a, b, c : Fair(u, v, a, b, c)'
  BY <1>8
<1>10. TripTypes'
  BY <1>1 DEF TripInv, TripTypes
<1> QED BY <1>4, <1>9, <1>10 DEF TripInv

(* The settled pool's tick is in the range the first swap ended in, so the *)
(* way back begins with the liquidity that swap ended with.                *)
LEMMA SettledTick ==
    ASSUME SwapAssumptions, SwapTypes, InRange, ShortOfTick,
           \E t \in DOMAIN TickPrice : TickPrice[t] <= sqrtPrice
    PROVE  /\ Below \in 0 .. Len(pool.ticks)
           /\ \A i \in DOMAIN pool.ticks : pool.ticks[i].index <= TickAfter <=> i <= Below
<1> DEFINE N == Len(pool.ticks)
<1>1. /\ N \in Nat /\ DOMAIN pool.ticks = 1 .. N /\ sqrtPrice \in Nat /\ zeroForOne \in BOOLEAN
      /\ \A i \in 1 .. N : /\ PriceAt(i) \in Nat /\ pool.ticks[i].index \in Int
                           /\ pool.ticks[i].index \in DOMAIN TickPrice
      /\ idx \in Int /\ Below \in 0 .. N
      /\ Below >= 1 => PriceAt(Below) <= sqrtPrice
      /\ Below < N => sqrtPrice <= PriceAt(Below + 1)
      /\ ConcentratedAssumption
  BY PoolFacts DEF SwapTypes, InRange, SwapAssumptions
<1>2. \A i, j \in 1 .. N : i < j => /\ PriceAt(i) < PriceAt(j)
                                    /\ pool.ticks[i].index < pool.ticks[j].index
  BY <1>1, PricesSorted DEF SwapTypes, Sorted
<1>3. CASE zeroForOne /\ idx + 1 \in DOMAIN pool.ticks /\ PriceAt(idx + 1) = sqrtPrice
  <2>1. TickAfter = pool.ticks[idx + 1].index - 1 /\ Below = idx /\ idx + 1 \in 1 .. N
    BY <1>1, <1>3 DEF TickAfter, Below
  <2>2. ASSUME NEW i \in 1 .. N PROVE pool.ticks[i].index <= TickAfter <=> i <= Below
    <3> DEFINE t(k) == pool.ticks[k].index
    <3>1. t(i) \in Int /\ t(idx + 1) \in Int /\ TickAfter = t(idx + 1) - 1
      BY <1>1, <2>1
    <3>2. (i < idx + 1 => t(i) < t(idx + 1)) /\ (idx + 1 < i => t(idx + 1) < t(i))
      BY <1>2, <2>1
    <3>3. i < idx + 1 \/ i = idx + 1 \/ idx + 1 < i
      BY <1>1
    <3> HIDE DEF t
    <3>4. t(i) <= TickAfter <=> i <= idx
      BY <1>1, <3>1, <3>2, <3>3
    <3> QED BY <2>1, <3>4 DEF t
  <2> QED BY <1>1, <2>2
<1>4. CASE ~(zeroForOne /\ idx + 1 \in DOMAIN pool.ticks /\ PriceAt(idx + 1) = sqrtPrice)
  <2>1. /\ TickAfter \in DOMAIN TickPrice /\ TickPrice[TickAfter] <= sqrtPrice
        /\ \A t \in DOMAIN TickPrice : TickPrice[t] <= sqrtPrice => t <= TickAfter
    BY <1>1, <1>4, TickAfterExists DEF TickAfter
  <2>2. /\ \A t \in DOMAIN TickPrice : t \in Int /\ TickPrice[t] \in Nat
        /\ \A t, k \in DOMAIN TickPrice : t < k => TickPrice[t] < TickPrice[k]
    BY <1>1 DEF ConcentratedAssumption
  <2>3. Below < N => sqrtPrice < PriceAt(Below + 1)
    <3>1. CASE zeroForOne
      <4>1. Below = idx
        BY <3>1 DEF Below
      <4>2. Below < N => Below + 1 \in 1 .. N
        BY <1>1
      <4> QED BY <1>1, <1>4, <3>1, <4>1, <4>2
    <3>2. CASE ~zeroForOne
      BY <3>2 DEF ShortOfTick
    <3> QED BY <3>1, <3>2
  <2>4. ASSUME NEW i \in 1 .. N PROVE pool.ticks[i].index <= TickAfter <=> i <= Below
    <3>1. i <= Below => PriceAt(i) <= sqrtPrice
      <4> SUFFICES ASSUME i <= Below PROVE PriceAt(i) <= sqrtPrice
        OBVIOUS
      <4>1. Below \in 1 .. N /\ PriceAt(Below) <= sqrtPrice /\ (i = Below \/ i < Below)
        BY <1>1
      <4>2. i < Below => PriceAt(i) < PriceAt(Below)
        BY <1>2, <4>1
      <4> QED BY <1>1, <4>1, <4>2
    <3>2. ~(i <= Below) => sqrtPrice < PriceAt(i)
      <4> SUFFICES ASSUME ~(i <= Below) PROVE sqrtPrice < PriceAt(i)
        OBVIOUS
      <4>1. Below + 1 \in 1 .. N /\ sqrtPrice < PriceAt(Below + 1) /\ (i = Below + 1 \/ Below + 1 < i)
        BY <1>1, <2>3
      <4>2. Below + 1 < i => PriceAt(Below + 1) < PriceAt(i)
        BY <1>2, <4>1
      <4> QED BY <1>1, <4>1, <4>2
    <3> DEFINE t == pool.ticks[i].index
    <3>3. t \in DOMAIN TickPrice /\ PriceAt(i) = TickPrice[t]
      BY <1>1 DEF PriceAt
    <3>a. t \in Int /\ TickAfter \in Int /\ TickPrice[t] \in Nat /\ TickPrice[TickAfter] \in Nat
      BY <2>1, <2>2, <3>3
    <3> HIDE DEF t
    <3>4. t <= TickAfter => TickPrice[t] <= sqrtPrice
      <4>1. t < TickAfter => TickPrice[t] < TickPrice[TickAfter]
        BY <2>1, <2>2, <3>3
      <4> QED BY <1>1, <2>1, <3>a, <4>1
    <3>5. TickPrice[t] <= sqrtPrice => t <= TickAfter
      BY <2>1, <3>3
    <3>6. t <= TickAfter <=> i <= Below
      BY <1>1, <3>1, <3>2, <3>3, <3>a, <3>4, <3>5
    <3> QED BY <3>6 DEF t
  <2> QED BY <1>1, <2>4
<1> QED BY <1>3, <1>4

LEMMA SellBackTrip ==
    ASSUME SwapAssumptions, NEW u, NEW v, Scales(u, v), TripInv(u, v), CurveInv', SellBack
    PROVE  TripInv(u, v)'
<1> DEFINE N == Len(pool.ticks)
           z == zeroForOne
<1>1. /\ CurveInv /\ TripTypes /\ pc = "done" /\ pc' = "start" /\ leg = 1 /\ leg' = 2
      /\ zeroForOne' = ~zeroForOne /\ amountIn' = amountOut /\ remaining' = amountOut
      /\ amountOut' = 0 /\ paid' = paid /\ paid = amountIn /\ remaining = 0 /\ ShortOfTick
      /\ paid \in Nat /\ amountOut \in Nat /\ zeroForOne \in BOOLEAN /\ SwapTypes /\ InRange
      /\ Directed /\ \E t \in DOMAIN TickPrice : TickPrice[t] <= sqrtPrice
  BY DEF SellBack, TripInv, TripTypes, CurveInv, SwapInv, SwapTypes, Walking
<1>2. PICK l, w, q : Fair(u, v, l, w, q)
  BY <1>1 DEF TripInv, Walking
<1>3. /\ Sums(l) /\ Curve(l, v, w) /\ liquidity = l[Below]
      /\ TradedTo(u, w, sqrtPrice, amountIn - remaining, amountOut)
  BY <1>1, <1>2 DEF Fair, Walking
<1>4. /\ pool'.ticks = pool.ticks /\ pool'.price = sqrtPrice
      /\ pool'.liquidity = liquidity /\ pool'.tick = TickAfter
  <2>1. TickAfter \in Int
    BY <1>1, TickAfterTypes DEF SwapAssumptions
  <2> QED BY <1>1, <2>1, SettledPool DEF SwapAssumptions
<1>5. Sums(l)' /\ Curve(l, v, w)'
  BY <1>3, <1>4, SameTicks
<1>6. Entered(l)'
  <2>1. Below \in 0 .. N /\ \A i \in DOMAIN pool.ticks : pool.ticks[i].index <= TickAfter <=> i <= Below
    BY <1>1, SettledTick
  <2>2. PICK j \in 0 .. N : /\ liquidity = l[j]
                            /\ \A i \in DOMAIN pool.ticks : pool.ticks[i].index <= TickAfter <=> i <= j
    BY <1>3, <2>1
  <2> QED BY <1>4, <2>2 DEF Entered
<1>7. PICK ps : ps = pool.price
  OBVIOUS
<1>8. /\ ps \in Prices /\ sqrtPrice \in Prices
      /\ w[z][sqrtPrice] - w[z][ps] <= paid * u[z]
      /\ amountOut * u[~z] <= w[~z][ps] - w[~z][sqrtPrice]
      /\ \A x \in Way(ps, sqrtPrice) : w[z][ps] <= w[z][x] /\ w[~z][x] <= w[~z][ps]
  <2>1. amountIn - remaining = paid
    BY <1>1
  <2> QED BY <1>3, <1>7, <2>1 DEF TradedTo
<1>9. Way(ps, sqrtPrice) = Way(sqrtPrice, ps)
  BY DEF Way
<1>10. ~Past(~z, ps, sqrtPrice)
  <2>1. ps \in Nat /\ sqrtPrice \in Nat
    BY <1>8, ScaleTypes, <1>1
  <2>2. IF z THEN sqrtPrice <= ps ELSE ps <= sqrtPrice
    BY <1>1, <1>7 DEF Directed
  <2> QED BY <1>1, <2>1, <2>2 DEF Past
<1>11. Returning(u, w, ps)'
  <2>1. (~(~z)) = z
    BY <1>1
  <2> HIDE DEF z
  <2>2. /\ ps \in Prices /\ sqrtPrice \in Prices /\ ~Past(~z, ps, sqrtPrice)
        /\ w[~(~z)][sqrtPrice] - w[~(~z)][ps] <= paid * u[~(~z)]
        /\ amountOut * u[~z] <= w[~z][ps] - w[~z][sqrtPrice]
        /\ \A x \in Way(sqrtPrice, ps) : w[~z][x] <= w[~z][ps] /\ w[~(~z)][ps] <= w[~(~z)][x]
    BY <1>8, <1>9, <1>10, <2>1
  <2> QED BY <1>1, <1>4, <2>2 DEF Returning, z
<1>12. Fair(u, v, l, w, ps)'
  BY <1>1, <1>5, <1>6, <1>11 DEF Fair, Walking
<1>13. \E a, b, c : Fair(u, v, a, b, c)'
  BY <1>12
<1>14. TripTypes'
  BY <1>1 DEF TripTypes
<1>15. ~Walking'
  BY <1>1 DEF Walking
<1> QED BY <1>13, <1>14, <1>15 DEF TripInv

(* A step that only moves the control: on in the swap, or to an error. *)
MovesOn ==
    /\ UNCHANGED <<args, swap>>
    /\ \/ pc' = pc
       \/ pc' \notin {"start", "loop", "end", "done"}
       \/ pc \in {"loop", "end"} /\ pc' = "end"
       \/ pc \in {"loop", "end"} /\ pc' = "done" /\ remaining = 0 /\ amountOut > 0

LEMMA MovesOnTrip ==
    ASSUME NEW u, NEW v, TripInv(u, v), CurveInv', MovesOn
    PROVE  TripInv(u, v)'
<1>1. UNCHANGED <<pool, zeroForOne, amountIn, leg, paid, sqrtPrice, liquidity, remaining, amountOut, idx>>
  BY DEF args, swap, MovesOn
<1>2. /\ Walking' => Walking
      /\ pc' = "start" => pc = "start"
  BY DEF Walking, MovesOn
<1>3. TripTypes'
  BY <1>1 DEF TripInv, TripTypes, MovesOn
<1>4. ShortOfTick' <=> ShortOfTick
  <2>1. Below' = Below /\ PriceAt(Below + 1)' = PriceAt(Below + 1)
    BY <1>1 DEF Below, PriceAt
  <2> QED BY <1>1, <2>1 DEF ShortOfTick
<1>5. ASSUME NEW l, NEW w, NEW ps, Fair(u, v, l, w, ps), Walking \/ (pc = "start" /\ leg = 2)
      PROVE  Fair(u, v, l, w, ps)'
  <2>1. Sums(l)' /\ Curve(l, v, w)'
    BY <1>1, <1>5, SameTicks DEF Fair
  <2>2. Walking' => liquidity' = l[Below']
    BY <1>1, <1>2, <1>5 DEF Fair, Below
  <2>3. Walking' => TradedTo(u, w, sqrtPrice, amountIn - remaining, amountOut)'
    BY <1>1, <1>2, <1>5, SameTrade DEF Fair
  <2>4. leg' = 2 => Returning(u, w, ps)'
    BY <1>1, <1>5, SameTrade DEF Fair
  <2>5. leg' = 2 /\ pc' = "start" => Entered(l)'
    BY <1>1, <1>2, <1>5 DEF Fair, Entered
  <2>6. leg' = 2 /\ Walking' => ~Past(zeroForOne, ps, sqrtPrice)'
    BY <1>1, <1>2, <1>5 DEF Fair, Past
  <2> QED BY <2>1, <2>2, <2>3, <2>4, <2>5, <2>6 DEF Fair
<1>6. ASSUME (Walking \/ (pc = "start" /\ leg = 2))' PROVE \E a, b, c : Fair(u, v, a, b, c)'
  <2>1. Walking \/ (pc = "start" /\ leg = 2)
    BY <1>1, <1>2, <1>6
  <2>2. PICK l, w, ps : Fair(u, v, l, w, ps)
    BY <2>1 DEF TripInv
  <2> QED BY <1>5, <2>1, <2>2
<1> QED BY <1>1, <1>2, <1>3, <1>4, <1>6 DEF TripInv

LEMMA NextTripInv ==
    ASSUME SwapAssumptions, NEW u, NEW v, Scales(u, v), TripInv(u, v), [Next]_vars
    PROVE  TripInv(u, v)'
<1>0. CurveInv /\ CurveInv'
  BY NextCurveInv DEF TripInv
<1>1. CASE UNCHANGED vars
  <2>1. MovesOn
    BY <1>1 DEF vars, MovesOn
  <2> QED BY <1>0, <2>1, MovesOnTrip
<1>2. CASE Reject \/ Dry
  <2>1. MovesOn
    BY <1>2 DEF Reject, Dry, Fail, MovesOn
  <2> QED BY <1>0, <2>1, MovesOnTrip
<1>3. CASE Finish
  <2>1. remaining \in Nat /\ amountOut \in Nat
    BY <1>0 DEF CurveInv, SwapInv, SwapTypes
  <2>2. MovesOn
    BY <1>3, <2>1 DEF Finish, Fail, MovesOn
  <2> QED BY <1>0, <2>2, MovesOnTrip
<1>4. CASE Begin
  BY <1>0, <1>4, BeginTrip
<1>5. CASE SwapStep
  <2>1. CASE pc' \in {"arithmetic", "noLiquidity", "end"} /\ UNCHANGED <<args, swap>>
    <3>1. MovesOn
      BY <1>5, <2>1 DEF SwapStep, MovesOn
    <3> QED BY <1>0, <3>1, MovesOnTrip
  <2>2. ASSUME pc = "loop", NEW s, Taken(s), Computed(s), Advance(s) PROVE TripInv(u, v)'
    BY <1>0, <2>2, AdvanceTrip
  <2> QED BY <1>0, <1>5, <2>1, <2>2, StepCases DEF CurveInv
<1>6. CASE SellBack
  BY <1>0, <1>6, SellBackTrip
<1> QED BY <1>1, <1>2, <1>3, <1>4, <1>5, <1>6 DEF Next

(* Selling what a quote bought back to the pool never returns more than    *)
(* was paid for it, whichever ticks the two swaps cross and whatever the   *)
(* width, the prices, the liquidity and the fee.                           *)
THEOREM RoundTripNeverGains ==
    ASSUME SwapMathAssumption, ConcentratedAssumption, \A p \in Pools : TickAgrees(p)
    PROVE  Spec => []NoRoundTripProfit
<1>1. SwapAssumptions
  BY DEF SwapAssumptions
<1>2. PICK u, v : Scales(u, v)
  BY <1>1, ScalesExist
<1>3. Init => TripInv(u, v)
  <2> SUFFICES ASSUME Init PROVE TripInv(u, v)
    OBVIOUS
  <2>1. CurveInv
    BY <1>1, InitCurveInv
  <2> QED BY <1>1, <2>1 DEF Init, TripInv, TripTypes, Walking, SwapAssumptions, ConcentratedAssumption
<1>4. TripInv(u, v) /\ [Next]_vars => TripInv(u, v)'
  BY <1>1, <1>2, NextTripInv
<1>5. TripInv(u, v) => NoRoundTripProfit
  <2> SUFFICES ASSUME TripInv(u, v), leg = 2, pc = "done" PROVE amountOut <= paid
    BY DEF NoRoundTripProfit
  <2>1. PICK l, w, ps : Fair(u, v, l, w, ps)
    BY DEF TripInv, Walking
  <2>2. /\ Curve(l, v, w) /\ TradedTo(u, w, sqrtPrice, amountIn - remaining, amountOut)
        /\ Returning(u, w, ps) /\ ~Past(zeroForOne, ps, sqrtPrice)
    BY <2>1 DEF Fair, Walking
  <2>3. CurveInv /\ paid \in Nat /\ amountIn - remaining \in Int
    BY DEF TripInv, TripTypes, CurveInv, SwapInv, SwapTypes
  <2> QED BY <1>1, <1>2, <2>2, <2>3, BackForLess
<1> QED BY <1>3, <1>4, <1>5, PTL DEF Spec

-----------------------------------------------------------------------------
(* The search for the smallest input. *)

(* The state of the loop, kept by a finished search that has an answer:    *)
(* the answer buys want and lies just above the range (or is the untouched *)
(* limit), and the range is smaller than the remaining probes can halve.   *)
LoopInv ==
    /\ bestIn >= 1 /\ Buys(bestIn)
    /\ lo <= hi + 1
    /\ bestIn = hi + 1 \/ (bestIn = hi /\ hi = maxIn)
    /\ hi - lo + 1 < Pow2[Iterations - probes]

(* For monotone quotes, everything below the range is too small. *)
BelowInv == Monotone => \A x \in 1 .. lo - 1 : ~Buys(x)

SearchInv ==
    /\ SearchTypeOK
    /\ searchPc = "full" => probes = 0 /\ lo = 1 /\ hi = maxIn
    /\ searchPc = "loop" => LoopInv /\ BelowInv
    /\ searchPc = "done" /\ bestIn # 0 => LoopInv /\ BelowInv /\ lo > hi
    /\ searchPc = "done" /\ bestIn = 0 => ~Buys(maxIn)

LEMMA InitSearchInv == SearchInit => SearchInv
<1> SUFFICES ASSUME SearchInit PROVE SearchInv
  OBVIOUS
<1>1. quote \in [Inputs -> Nat]
  BY QuotesAssumption DEF SearchInit
<1>2. maxIn \in Nat \ {0} /\ maxIn \in Inputs /\ want \in Nat \ {0} /\ Iterations \in Nat
  BY SizeAssumption DEF SearchInit, Inputs
<1>3. probes \in 0 .. Iterations /\ lo \in 1 .. maxIn + 1 /\ hi \in 0 .. maxIn /\ bestIn \in 0 .. maxIn
  BY <1>2 DEF SearchInit
<1>4. SearchTypeOK
  BY <1>1, <1>2, <1>3 DEF SearchInit, SearchTypeOK
<1> QED
  BY <1>4 DEF SearchInit, SearchInv

(* Halving: what one probe does to the range, in integers only. *)
LEMMA Halving ==
    ASSUME NEW l \in Nat, NEW h \in Nat, l <= h, NEW p \in Nat, h - l + 1 < 2 * p
    PROVE  LET m == (l + h) \div 2
           IN  /\ m \in Nat /\ l <= m /\ m <= h
               /\ m - l < p
               /\ h - m < p
  OBVIOUS

LEMMA FullStep == ASSUME SearchInv, Full PROVE SearchInv'
<1> USE DEF Full, searchArgs
<1>0. /\ searchPc = "full" /\ probes = 0 /\ lo = 1 /\ hi = maxIn /\ SearchTypeOK
      /\ UNCHANGED <<quote, want, maxIn, cancelled, probes, lo, hi>>
  BY DEF SearchInv
<1>1. CASE Buys(maxIn)
  <2>0. searchPc' = "loop" /\ bestIn' = maxIn
    BY <1>1
  <2>1. SearchTypeOK'
    BY <1>0, <2>0 DEF SearchTypeOK, Inputs
  <2>2. LoopInv'
    <3>1. Buys(bestIn)'
      BY <1>0, <1>1, <2>0 DEF Buys
    <3>2. maxIn \in Nat /\ maxIn >= 1 /\ maxIn < Pow2[Iterations - 0]
      BY <1>0, SizeAssumption DEF SearchTypeOK, Inputs
    <3> QED BY <1>0, <2>0, <3>1, <3>2 DEF LoopInv
  <2>3. BelowInv'
    BY <1>0 DEF BelowInv
  <2> QED BY <2>0, <2>1, <2>2, <2>3 DEF SearchInv
<1>2. CASE ~Buys(maxIn)
  <2>0. searchPc' = "done" /\ bestIn' = 0
    BY <1>2
  <2>1. SearchTypeOK'
    BY <1>0, <2>0 DEF SearchTypeOK, Inputs
  <2>2. ~Buys(maxIn)'
    BY <1>0, <1>2 DEF Buys
  <2> QED BY <2>0, <2>1, <2>2 DEF SearchInv
<1> QED BY <1>1, <1>2

LEMMA ProbeStep == ASSUME SearchInv, Probe PROVE SearchInv'
<1> USE DEF Probe, searchArgs
<1>0. /\ searchPc = "loop" /\ LoopInv /\ BelowInv /\ SearchTypeOK /\ Narrow
      /\ lo <= hi /\ probes < Iterations /\ probes' = probes + 1
      /\ UNCHANGED <<quote, want, maxIn, cancelled, searchPc>>
  BY DEF SearchInv, Continues
<1>1. /\ lo \in Nat /\ hi \in Nat /\ maxIn \in Nat /\ probes \in Nat /\ Iterations \in Nat
      /\ 1 <= lo /\ hi <= maxIn /\ maxIn <= MaxAmount /\ want \in Nat /\ MaxAmount \in Nat
  BY <1>0, SizeAssumption DEF SearchTypeOK, Inputs
<1>2. /\ Pow2[Iterations - (probes + 1)] \in Nat
      /\ Pow2[Iterations - probes] = 2 * Pow2[Iterations - (probes + 1)]
  <2>1. Iterations - (probes + 1) \in 0 .. Iterations - 1
    BY <1>0, <1>1
  <2>2. Iterations - (probes + 1) + 1 = Iterations - probes
    BY <1>0, <1>1
  <2>3. Pow2[Iterations - (probes + 1) + 1] = 2 * Pow2[Iterations - (probes + 1)]
    BY <2>1, SizeAssumption
  <2>4. Pow2[Iterations - (probes + 1)] \in Nat
    BY <1>1, <2>1, SizeAssumption
  <2> QED BY <2>2, <2>3, <2>4
<1>3. /\ Mid \in Nat /\ lo <= Mid /\ Mid <= hi
      /\ Mid - lo < Pow2[Iterations - (probes + 1)]
      /\ hi - Mid < Pow2[Iterations - (probes + 1)]
  <2>1. hi - lo + 1 < 2 * Pow2[Iterations - (probes + 1)]
    BY <1>0, <1>2 DEF LoopInv
  <2> QED BY <1>0, <1>1, <1>2, <2>1, Halving DEF Mid
<1>4. Mid \in Inputs /\ quote[Mid] \in Nat
  BY <1>0, <1>1, <1>3 DEF SearchTypeOK, Inputs
<1>5. CASE Buys(Mid)
  <2>0. bestIn' = Mid /\ hi' = Mid - 1 /\ lo' = lo
    BY <1>0, <1>5 DEF Narrow
  <2>1. SearchTypeOK'
    BY <1>0, <1>1, <1>3, <2>0 DEF SearchTypeOK
  <2>2. Buys(bestIn)'
    BY <1>0, <1>5, <2>0 DEF Buys
  <2>3. LoopInv'
    BY <1>0, <1>1, <1>2, <1>3, <2>0, <2>2 DEF LoopInv
  <2>4. BelowInv'
    BY <1>0, <2>0 DEF BelowInv, Monotone, Buys
  <2> QED BY <1>0, <2>1, <2>3, <2>4 DEF SearchInv
<1>6. CASE ~Buys(Mid)
  <2>0. bestIn' = bestIn /\ hi' = hi /\ lo' = Mid + 1
    BY <1>0, <1>6 DEF Narrow
  <2>1. SearchTypeOK'
    BY <1>0, <1>1, <1>3, <2>0 DEF SearchTypeOK
  <2>2. Buys(bestIn)'
    BY <1>0, <2>0 DEF Buys, LoopInv
  <2>3. LoopInv'
    BY <1>0, <1>1, <1>2, <1>3, <2>0, <2>2 DEF LoopInv
  <2>4. BelowInv'
    <3> SUFFICES ASSUME Monotone, NEW x \in 1 .. Mid PROVE ~Buys(x)
      BY <1>0, <1>3, <2>0 DEF BelowInv, Monotone, Buys
    <3>1. x \in Inputs /\ x <= Mid
      BY <1>1, <1>3 DEF Inputs
    <3>2. quote[x] <= quote[Mid] /\ quote[x] \in Nat
      BY <1>0, <1>4, <3>1 DEF Monotone, SearchTypeOK
    <3> QED BY <1>1, <1>4, <1>6, <3>2 DEF Buys
  <2> QED BY <1>0, <2>1, <2>3, <2>4 DEF SearchInv
<1> QED BY <1>5, <1>6

LEMMA SearchEndsStep == ASSUME SearchInv, SearchEnds PROVE SearchInv'
<1> USE DEF SearchEnds, searchArgs
<1>0. /\ searchPc = "loop" /\ searchPc' = "done" /\ LoopInv /\ BelowInv /\ SearchTypeOK /\ ~Continues
      /\ UNCHANGED <<quote, want, maxIn, cancelled, probes, lo, hi, bestIn>>
  BY DEF SearchInv
<1>1. lo > hi
  <2>1. lo \in Int /\ hi \in Int /\ probes \in Int /\ probes <= Iterations /\ Iterations \in Nat
    BY <1>0, SizeAssumption DEF SearchTypeOK, Inputs
  <2>2. CASE probes = Iterations
    <3>1. hi - lo + 1 < Pow2[0]
      BY <1>0, <2>1, <2>2 DEF LoopInv
    <3> QED BY <2>1, <3>1, SizeAssumption
  <2>3. CASE probes < Iterations
    BY <1>0, <2>1, <2>3 DEF Continues
  <2> QED BY <2>1, <2>2, <2>3
<1>2. SearchTypeOK' /\ LoopInv' /\ BelowInv' /\ bestIn' >= 1
  BY <1>0 DEF SearchTypeOK, LoopInv, BelowInv, Buys, Monotone
<1> QED BY <1>0, <1>1, <1>2 DEF SearchInv

LEMMA OtherStep == ASSUME SearchInv, Abort \/ Expire \/ UNCHANGED searchVars PROVE SearchInv'
<1> USE DEF searchArgs, searchVars
<1>1. CASE Abort
  <2>1. SearchTypeOK'
    BY <1>1, SizeAssumption DEF Abort, SearchInv, SearchTypeOK, Inputs
  <2> QED BY <1>1, <2>1 DEF Abort, SearchInv
<1>2. CASE Expire \/ UNCHANGED searchVars
  <2>0. UNCHANGED <<quote, want, maxIn, searchPc, probes, lo, hi, bestIn>> /\ cancelled' \in BOOLEAN
    BY <1>2 DEF Expire, SearchInv, SearchTypeOK
  <2> QED BY <2>0 DEF SearchInv, SearchTypeOK, LoopInv, BelowInv, Buys, Monotone
<1> QED BY <1>1, <1>2

LEMMA NextSearchInv == SearchInv /\ [SearchNext]_searchVars => SearchInv'
  BY FullStep, ProbeStep, SearchEndsStep, OtherStep DEF SearchNext, SearchStep, Returned

(* The search keeps to the range of the order's limit. *)
THEOREM SearchTyped == SearchSpec => []SearchTypeOK
<1>1. SearchInv => SearchTypeOK
  BY DEF SearchInv
<1> QED BY <1>1, InitSearchInv, NextSearchInv, PTL DEF SearchSpec

(* For every width, loop bound and quote function: an answer of            *)
(* minInputFor buys the wanted amount within the sell limit.               *)
THEOREM SearchSound == SearchSpec => []AnswerBuys
<1>1. SearchInv => AnswerBuys
  BY DEF SearchInv, AnswerBuys, LoopInv, SearchTypeOK
<1> QED BY <1>1, InitSearchInv, NextSearchInv, PTL DEF SearchSpec

(* The loop never stops because of its iteration bound: 256 halvings       *)
(* exhaust every range of 256 bits.                                        *)
THEOREM BoundSuffices == SearchSpec => []RangeExhausted
<1>1. SearchInv => RangeExhausted
  BY DEF SearchInv, RangeExhausted, LoopInv, SearchTypeOK
<1> QED BY <1>1, InitSearchInv, NextSearchInv, PTL DEF SearchSpec

(* If route output grows with the input, the answer is the smallest input  *)
(* that buys the wanted amount, and there is one whenever any input within *)
(* the limit does.                                                         *)
THEOREM SearchComplete == SearchSpec => []SmallestIfMonotone
<1>1. SearchInv => SmallestIfMonotone
  <2> SUFFICES ASSUME SearchInv, searchPc = "done", Monotone, NEW x \in 1 .. maxIn, Buys(x)
               PROVE  bestIn # 0 /\ bestIn <= x
    BY DEF SmallestIfMonotone
  <2>1. /\ x \in Inputs /\ maxIn \in Inputs /\ x <= maxIn
        /\ quote[x] \in Nat /\ quote[maxIn] \in Nat /\ want \in Nat
    BY SizeAssumption DEF SearchInv, SearchTypeOK, Inputs
  <2>2. Buys(maxIn)
    <3>1. quote[x] <= quote[maxIn]
      BY <2>1 DEF Monotone
    <3> QED BY <2>1, <3>1 DEF Buys
  <2>3. bestIn # 0
    BY <2>2 DEF SearchInv
  <2>4. LoopInv /\ BelowInv /\ lo > hi /\ SearchTypeOK
    BY <2>3 DEF SearchInv
  <2>5. x >= lo /\ lo = hi + 1 /\ lo \in Int /\ hi \in Int /\ x \in Int /\ maxIn \in Int
    <3>1. lo \in Int /\ hi \in Int /\ x \in Int /\ x >= 1 /\ maxIn \in Int
      BY <2>1, <2>4, SizeAssumption DEF SearchTypeOK, Inputs
    <3>2. ~(x \in 1 .. lo - 1)
      BY <2>4 DEF BelowInv
    <3> QED BY <2>4, <3>1, <3>2 DEF LoopInv
  <2>6. bestIn = hi + 1 \/ bestIn = hi
    BY <2>4 DEF LoopInv
  <2> QED BY <2>3, <2>5, <2>6
<1> QED BY <1>1, InitSearchInv, NextSearchInv, PTL DEF SearchSpec

-----------------------------------------------------------------------------
(***************************************************************************)
(* A quote of a stable pool is an amount or an error: the invariant of     *)
(* positive balances is positive when it is computed at all.               *)
(***************************************************************************)

(* What a loop computes lies where each of its turns leads. *)
LEMMA LoopIn ==
    ASSUME NEW n \in Nat, NEW base, NEW step, NEW T, base \in T[0],
           \A i \in 1 .. n : \A v \in T[i - 1] : step[i][v] \in T[i]
    PROVE  St!Loop(n, base, step) \in T[n]
<1> DEFINE A     == UNION { T[i] : i \in 0 .. n }
           turn  == [p \in (1 .. n) \X A |->
                        IF step[p[1]][p[2]] \in A THEN step[p[1]][p[2]] ELSE base]
           Body(d) == [i \in 0 .. n |-> IF i = 0 THEN base ELSE step[i][d[i - 1]]]
<1>1. base \in A /\ turn \in [(1 .. n) \X A -> A]
  <2>1. base \in A
    BY 0 \in 0 .. n
  <2> HIDE DEF A
  <2> QED BY <2>1
<1>2. PICK g : Iterates(g, n, A, base, turn)
  <2> HIDE DEF A, turn
  <2> QED BY <1>1, RecursionExists
<1>3. \A i \in 1 .. n : g[i - 1] \in T[i - 1] => g[i] = step[i][g[i - 1]] /\ g[i] \in T[i]
  <2> TAKE i \in 1 .. n
  <2> SUFFICES ASSUME g[i - 1] \in T[i - 1]
               PROVE  g[i] = step[i][g[i - 1]] /\ g[i] \in T[i]
    OBVIOUS
  <2>1. i \in 0 .. n /\ i - 1 \in 0 .. n
    OBVIOUS
  <2>2. step[i][g[i - 1]] \in T[i]
    OBVIOUS
  <2>3. step[i][g[i - 1]] \in A /\ g[i - 1] \in A
    BY <2>1, <2>2
  <2>4. g[i] = turn[<<i, g[i - 1]>>]
    BY <1>2 DEF Iterates
  <2> HIDE DEF A
  <2>5. turn[<<i, g[i - 1]>>] = step[i][g[i - 1]]
    BY <2>3
  <2> QED BY <2>2, <2>4, <2>5
<1>4. g[0] = base
  BY <1>2 DEF Iterates
<1> DEFINE d == CHOOSE d : d = Body(d)
<1>5. \A f : f[0] = base /\ (\A i \in 1 .. n : f[i - 1] \in T[i - 1] => f[i] \in T[i])
             => \A i \in 0 .. n : f[i] \in T[i]
  <2> SUFFICES ASSUME NEW f, f[0] = base, \A i \in 1 .. n : f[i - 1] \in T[i - 1] => f[i] \in T[i]
               PROVE  \A i \in 0 .. n : f[i] \in T[i]
    OBVIOUS
  <2> DEFINE S == { i \in Nat : i <= n => f[i] \in T[i] }
  <2>1. 0 \in S
    OBVIOUS
  <2>2. ASSUME NEW i \in Nat, i \in S PROVE i + 1 \in S
    <3> SUFFICES ASSUME i + 1 <= n PROVE f[i + 1] \in T[i + 1]
      OBVIOUS
    <3>1. i + 1 \in 1 .. n /\ i + 1 - 1 = i /\ f[i] \in T[i]
      BY <2>2
    <3> QED BY <3>1
  <2> HIDE DEF S
  <2>3. Nat \subseteq S
    BY <2>1, <2>2, SetInduction
  <2> QED BY <2>3 DEF S
<1>6. \A i \in 0 .. n : g[i] \in T[i]
  BY <1>3, <1>4, <1>5
<1>7. [i \in 0 .. n |-> g[i]] = Body([i \in 0 .. n |-> g[i]])
  <2>1. ASSUME NEW i \in 0 .. n
        PROVE  g[i] = IF i = 0 THEN base ELSE step[i][[j \in 0 .. n |-> g[j]][i - 1]]
    <3>1. CASE i = 0
      BY <1>4, <3>1
    <3>2. CASE i # 0
      <4>1. i \in 1 .. n /\ i - 1 \in 0 .. n
        BY <3>2
      <4>2. g[i - 1] \in T[i - 1]
        BY <1>6, <4>1
      <4> QED BY <1>3, <3>2, <4>1, <4>2
    <3> QED BY <3>1, <3>2
  <2> QED BY <2>1
<1>8. d = Body(d)
  BY <1>7
<1>9. St!Loop(n, base, step) = d[n]
  BY DEF St!Loop
<1> HIDE DEF d
<1>10. d[0] = base /\ \A i \in 1 .. n : d[i] = step[i][d[i - 1]]
  <2>1. 0 \in 0 .. n /\ \A i \in 1 .. n : i \in 0 .. n /\ i # 0
    OBVIOUS
  <2> QED BY <1>8, <2>1
<1>11. \A i \in 1 .. n : d[i - 1] \in T[i - 1] => d[i] \in T[i]
  <2> TAKE i \in 1 .. n
  <2> HAVE d[i - 1] \in T[i - 1]
  <2>1. step[i][d[i - 1]] \in T[i]
    OBVIOUS
  <2> QED BY <1>10, <2>1
<1>12. \A i \in 0 .. n : d[i] \in T[i]
  BY <1>5, <1>10, <1>11
<1> QED BY <1>9, <1>12

(* The numbers of the stable pools' arithmetic, and an error. *)
Amount == 0 .. StableWidth
Positive == 1 .. StableWidth
OrErr(V) == V \cup {St!Err}

LEMMA StableOps ==
    ASSUME NEW a \in Int, NEW b \in Int
    PROVE  /\ St!addU256(a, b) \in OrErr(Amount)
           /\ St!subU256(a, b) \in OrErr(Amount)
           /\ St!mulU256(a, b) \in OrErr(Amount)
           /\ St!divDownU256(a, b) \in OrErr(Amount)
           /\ St!divUpU256(a, b) \in OrErr(Amount)
<1>0. StableWidth \in Nat
  BY StablePoolsAssumption
<1>1. \A v \in Int : St!Fits(v) \in OrErr(Amount)
  BY <1>0 DEF St!Fits, St!isU256, OrErr, Amount, St!Err
<1>2. a + b \in Int /\ a - b \in Int
  OBVIOUS
<1>3. a * b \in Int
  OBVIOUS
<1>4. St!Err \in OrErr(Amount)
  BY DEF OrErr
<1>5. ASSUME St!isU256(a), St!isU256(b), b # 0
      PROVE  St!DivDown(a, b) \in OrErr(Amount) /\ St!DivUp(a, b) \in Int
  <2>1. a \in Nat /\ b \in Nat \ {0} /\ a <= StableWidth
    BY <1>5 DEF St!isU256
  <2>2. a \div b \in Nat /\ (a \div b) * b <= a
    BY <2>1, Floor
  <2> DEFINE q == a \div b
  <2> HIDE DEF q
  <2>3. q <= q * b
    <3>1. PICK c \in Nat : b = c + 1
      BY <2>1, b - 1 \in Nat
    <3>2. q * b = q * c + q
      BY <2>2, <3>1 DEF q
    <3>3. q * c \in Nat
      BY <2>2, <3>1 DEF q
    <3> QED BY <2>2, <3>2, <3>3 DEF q
  <2>4. q \in 0 .. StableWidth
    BY <1>0, <2>1, <2>2, <2>3 DEF q
  <2> QED BY <2>4 DEF q, St!DivDown, St!DivUp, OrErr, Amount
<1> QED BY <1>1, <1>2, <1>3, <1>4, <1>5
        DEF St!addU256, St!subU256, St!mulU256, St!divDownU256, St!divUpU256

LEMMA AmountIsInt == ASSUME NEW v \in OrErr(Amount) PROVE v \in Int
  BY StablePoolsAssumption DEF OrErr, Amount, St!Err

(* What Newton returns lies where each of its steps leads. *)
LEMMA NewtonIn ==
    ASSUME NEW V, V \subseteq Amount, NEW step, NEW first, first \in OrErr(V),
           \A v \in V : step[v] \in OrErr(V)
    PROVE  St!Newton(step, first) \in OrErr(V)
<1> DEFINE Now == { now \in [value : OrErr(V), stop : BOOLEAN] : now.value = St!Err => now.stop }
           base == [value |-> first, stop |-> first = St!Err]
           Turn(now) == [value |-> step[now.value],
                         stop |-> \/ step[now.value] = St!Err
                                   \/ St!converged(step[now.value], now.value)]
           turns == [i \in 1 .. MaxIterations |-> [now \in [value : Int, stop : BOOLEAN] |->
                        IF now.stop THEN now ELSE Turn(now)]]
<1>1. MaxIterations \in Nat
  BY StablePoolsAssumption DEF St!StableAssumption
<1>2. V \subseteq Int /\ OrErr(V) \subseteq Int
  BY StablePoolsAssumption DEF OrErr, Amount, St!Err
<1>3. base \in Now
  OBVIOUS
<1>4. ASSUME NEW i \in 1 .. MaxIterations, NEW now \in Now PROVE turns[i][now] \in Now
  <2>0. now \in [value : Int, stop : BOOLEAN]
    BY <1>2
  <2>1. turns[i][now] = IF now.stop THEN now ELSE Turn(now)
    <3> HIDE DEF Turn, Now
    <3> QED BY <2>0
  <2>2. ASSUME ~now.stop PROVE Turn(now) \in Now
    <3>1. now.value \in V
      BY <2>2 DEF OrErr
    <3>2. step[now.value] \in OrErr(V)
      BY <3>1
    <3>3. (step[now.value] = St!Err \/ St!converged(step[now.value], now.value)) \in BOOLEAN
      BY DEF St!converged
    <3> QED BY <3>2, <3>3
  <2>3. CASE now.stop
    BY <2>1, <2>3
  <2>4. CASE ~now.stop
    <3> HIDE DEF Turn, Now, turns
    <3> QED BY <2>1, <2>2, <2>4
  <2> QED BY <2>3, <2>4
<1> DEFINE T == [i \in 0 .. MaxIterations |-> Now]
           last == St!Loop(MaxIterations, base, turns)
<1>5. last \in Now
  <2>1. base \in T[0] /\ \A i \in 1 .. MaxIterations : \A v \in T[i - 1] : turns[i][v] \in T[i]
    <3> HIDE DEF Now, base, turns
    <3>1. T[0] = Now /\ \A i \in 1 .. MaxIterations : T[i] = Now /\ T[i - 1] = Now
      BY <1>1
    <3> QED BY <1>3, <1>4, <3>1
  <2>2. T[MaxIterations] = Now
    BY <1>1
  <2> HIDE DEF T, base, turns, Now
  <2> QED BY <1>1, <2>1, <2>2, LoopIn
<1>6. St!Newton(step, first) = IF last.stop THEN last.value ELSE St!Err
  BY DEF St!Newton
<1> HIDE DEF last
<1> QED BY <1>5, <1>6 DEF OrErr

(***************************************************************************)
(* One Newton step for D.                                                  *)
(***************************************************************************)
(* Its numerator is no smaller than its denominator: with t the floor of   *)
(* m * s / c, and p = 0 when d = 1.                                        *)
LEMMA StepGrows ==
    ASSUME NEW m \in Nat, NEW s \in Nat \ {0}, NEW c \in Nat \ {0}, NEW d \in Nat \ {0},
           NEW n \in Nat, NEW p \in Nat, c <= m, n >= 2, d = 1 => p = 0
    PROVE  ((m - c) * d) \div c + (n + 1) * p <= ((m * s) \div c + p * n) * d
<1> DEFINE q == m \div c
           r == m - q * c
           t == (m * s) \div c
           u == ((m - c) * d) \div c
<1>1. q \in Nat /\ q * c <= m /\ m < q * c + c
  BY Floor
<1>2. r \in Nat /\ r < c /\ m = q * c + r
  <2> HIDE DEF q
  <2>1. q * c \in Nat
    BY <1>1
  <2> QED BY <1>1, <2>1
<1>3. m * s \in Nat /\ (m - c) * d \in Nat
  <2>1. m - c \in Nat
    OBVIOUS
  <2> QED BY <2>1
<1>4. t \in Nat /\ m * s < t * c + c
  <2> HIDE DEF q
  <2> QED BY <1>3, Floor
<1>5. u \in Nat /\ u * c <= (m - c) * d
  BY <1>3, Floor
<1> HIDE DEF q, r, t, u
<1>6. q <= t
  <2> SUFFICES ASSUME t + 1 <= q PROVE FALSE
    BY <1>1, <1>4
  <2>1. PICK e \in Nat : q = t + 1 + e
    BY <1>1, <1>4, q - (t + 1) \in Nat
  <2>2. q * c = t * c + c + e * c /\ e * c \in Nat /\ t * c \in Nat
    BY <1>4, <2>1
  <2>3. PICK f \in Nat : s = f + 1
    BY s - 1 \in Nat
  <2>4. m * s = m * f + m /\ m * f \in Nat
    BY <2>3
  <2>5. m * s \in Nat /\ q * c \in Nat
    BY <1>1
  <2> QED BY <1>1, <1>4, <2>2, <2>4, <2>5
<1>7. u <= q * d
  <2> SUFFICES ASSUME q * d + 1 <= u PROVE FALSE
    BY <1>1, <1>5
  <2>1. q * d \in Nat
    BY <1>1
  <2>2. PICK e \in Nat : u = q * d + 1 + e
    BY <1>5, <2>1, u - (q * d + 1) \in Nat
  <2>3. u * c = (q * d) * c + c + e * c /\ e * c \in Nat /\ (q * d) * c \in Nat
    BY <2>1, <2>2
  <2>4. m - c < q * c
    BY <1>1, <1>2
  <2>5. (m - c) * d <= (q * c) * d
    <3>1. PICK k \in Nat : q * c = (m - c) + k
      BY <1>1, <2>4, q * c - (m - c) \in Nat
    <3>2. (q * c) * d = (m - c) * d + k * d /\ k * d \in Nat
      BY <3>1
    <3> QED BY <1>3, <3>2
  <2>6. (q * c) * d = (q * d) * c
    BY <1>1
  <2> QED BY <1>3, <1>5, <2>3, <2>5, <2>6
<1>8. q * d <= t * d
  <2>1. PICK k \in Nat : t = q + k
    BY <1>1, <1>4, <1>6, t - q \in Nat
  <2>2. t * d = q * d + k * d /\ k * d \in Nat /\ q * d \in Nat
    BY <1>1, <2>1
  <2> QED BY <2>2
<1>9. (n + 1) * p <= (p * n) * d
  <2>1. CASE d = 1
    BY <2>1
  <2>2. CASE d # 1
    <3>1. PICK k \in Nat : d = k + 2
      BY <2>2, d - 2 \in Nat
    <3>2. (p * n) * d = (p * n) * k + 2 * (p * n) /\ p * n \in Nat
      BY <3>1
    <3>3. (p * n) * k \in Nat
      BY <3>2
    <3>4. PICK j \in Nat : n = j + 2
      BY n - 2 \in Nat
    <3>5. p * n = p * j + 2 * p /\ p * j \in Nat /\ (n + 1) * p = p * j + 3 * p
      BY <3>4
    <3> QED BY <3>2, <3>3, <3>5
  <2> QED BY <2>1, <2>2
<1>10. (t + p * n) * d = t * d + (p * n) * d
  BY <1>4
<1>11. t * d \in Nat /\ q * d \in Nat /\ (p * n) * d \in Nat /\ (n + 1) * p \in Nat
  <2>1. p * n \in Nat
    OBVIOUS
  <2> QED BY <1>1, <1>4, <2>1
<1>12. u + (n + 1) * p <= (t + p * n) * d
  BY <1>5, <1>7, <1>8, <1>9, <1>10, <1>11
<1> QED BY <1>12 DEF t, u

LEMMA SumPositive ==
    ASSUME NEW balances \in Seq(Positive), balances # <<>>
    PROVE  St!SumU256(balances) \in OrErr(Positive)
<1> DEFINE n == Len(balances)
           turns == [i \in DOMAIN balances |-> [sum \in Int |-> St!addU256(sum, balances[i])]]
           T == [i \in 0 .. n |-> IF i = 0 THEN {0} ELSE OrErr(Positive)]
<1>1. n \in Nat \ {0} /\ DOMAIN balances = 1 .. n
  OBVIOUS
<1> HIDE DEF n
<1>2. ASSUME NEW i \in 1 .. n, NEW v \in T[i - 1] PROVE turns[i][v] \in T[i]
  <2>1. i - 1 \in 0 .. n /\ i \in 0 .. n /\ i # 0
    BY <1>1
  <2>2. v \in {0} \cup OrErr(Positive)
    BY <1>2, <2>1
  <2>3. balances[i] \in Positive
    BY <1>1
  <2>4. v \in Int /\ balances[i] \in Int
    BY <2>2, <2>3, StablePoolsAssumption DEF OrErr, Positive, St!Err
  <2>5. St!addU256(v, balances[i]) \in OrErr(Positive)
    BY <2>2, <2>3, StablePoolsAssumption
       DEF OrErr, Positive, St!addU256, St!Fits, St!isU256, St!Err
  <2>6. turns[i][v] = St!addU256(v, balances[i])
    BY <1>1, <2>4
  <2>7. T[i] = OrErr(Positive)
    BY <2>1
  <2> QED BY <2>5, <2>6, <2>7
<1>3. 0 \in T[0] /\ T[n] = OrErr(Positive)
  BY <1>1
<1> HIDE DEF T, turns
<1>4. St!Loop(n, 0, turns) \in T[n]
  BY <1>1, <1>2, <1>3, LoopIn
<1> QED BY <1>3, <1>4 DEF St!SumU256, n, turns

(* The product over the balances is rounded down to zero when D is one. *)
LEMMA ProductIs ==
    ASSUME NEW balances \in Seq(Positive), Len(balances) >= 2, NEW d \in Positive
    PROVE  LET n == Len(balances)
               p == St!Loop(n, d, [i \in 1 .. n |-> [v \in Int |->
                        St!divDownU256(St!mulU256(v, d), St!mulU256(balances[i], n))]])
           IN  p \in OrErr(Amount) /\ (d = 1 => p \in OrErr({0}))
<1> DEFINE n == Len(balances)
           step(i, v) == St!divDownU256(St!mulU256(v, d), St!mulU256(balances[i], n))
           turns == [i \in 1 .. n |-> [v \in Int |-> step(i, v)]]
           T == [i \in 0 .. n |->
                   IF i = 0 THEN {d} ELSE IF d = 1 THEN OrErr({0}) ELSE OrErr(Amount)]
<1>1. n \in Nat /\ n >= 2 /\ DOMAIN balances = 1 .. n
  OBVIOUS
<1> HIDE DEF n
<1>2. d \in Int /\ d \in Nat \ {0} /\ d <= StableWidth /\ StableWidth \in Nat
  BY StablePoolsAssumption DEF Positive
<1>3. ASSUME NEW i \in 1 .. n, NEW v \in T[i - 1] PROVE turns[i][v] \in T[i]
  <2>1. i - 1 \in 0 .. n /\ i \in 0 .. n /\ i # 0
    BY <1>1
  <2>2. v \in {d} \cup OrErr(Amount) /\ (d = 1 => v \in {0, 1, St!Err})
    <3>1. T[i - 1] = IF i - 1 = 0 THEN {d} ELSE IF d = 1 THEN OrErr({0}) ELSE OrErr(Amount)
      BY <2>1
    <3>2. v \in IF i - 1 = 0 THEN {d} ELSE IF d = 1 THEN OrErr({0}) ELSE OrErr(Amount)
      BY <3>1
    <3>3. 0 \in Amount
      BY StablePoolsAssumption DEF Amount
    <3> HIDE DEF T, turns, step
    <3> QED BY <3>2, <3>3 DEF OrErr
  <2>3. balances[i] \in Nat \ {0} /\ balances[i] <= StableWidth
    BY <1>1, StablePoolsAssumption DEF Positive
  <2>4. v \in Int
    BY <1>2, <2>2, AmountIsInt
  <2>5. St!mulU256(v, d) \in Int /\ St!mulU256(balances[i], n) \in Int
    <3>1. balances[i] \in Int /\ n \in Int
      BY <1>1, <2>3
    <3> HIDE DEF T, turns, step
    <3> QED BY <1>2, <2>4, <3>1, StableOps, AmountIsInt
  <2>6. step(i, v) \in OrErr(Amount)
    BY <2>5, StableOps
  <2>7. ASSUME d = 1 PROVE step(i, v) \in OrErr({0})
    <3>1. v = St!Err => St!mulU256(v, d) = St!Err
      BY DEF St!mulU256, St!isU256, St!Err
    <3>2. v \in {0, 1} => St!mulU256(v, d) \in {0, 1}
      <4>1. StableWidth \in Nat /\ StableWidth >= 1 /\ \A w \in Int : w * 1 = w
        BY <1>2, <2>7
      <4> HIDE DEF T, turns, step
      <4> QED BY <2>7, <4>1 DEF St!mulU256, St!isU256, St!Fits, St!Err
    <3>3. balances[i] * n \in Nat /\ balances[i] * n >= 2
      <4>0. balances[i] - 1 \in Nat /\ balances[i] = (balances[i] - 1) + 1
        BY <2>3
      <4>1. PICK k \in Nat : balances[i] = k + 1
        BY <4>0
      <4>2. balances[i] * n = k * n + n /\ k * n \in Nat
        BY <1>1, <4>1
      <4> QED BY <1>1, <4>2
    <3>4. St!mulU256(balances[i], n) = St!Err \/ St!mulU256(balances[i], n) >= 2
      BY <2>5, <3>3 DEF St!mulU256, St!Fits
    <3>5. \A a \in {0, 1}, b \in Int : b >= 2 => St!divDownU256(a, b) \in OrErr({0})
      <4> SUFFICES ASSUME NEW a \in {0, 1}, NEW b \in Int, b >= 2
                   PROVE  St!divDownU256(a, b) \in OrErr({0})
        OBVIOUS
      <4>1. a \div b \in Nat /\ (a \div b) * b <= a
        BY Floor
      <4> DEFINE q == a \div b
      <4> HIDE DEF q
      <4>2. q = 0
        <5> SUFFICES ASSUME q # 0 PROVE FALSE
          OBVIOUS
        <5>1. PICK k \in Nat : q = k + 1
          BY <4>1, q - 1 \in Nat DEF q
        <5>2. q * b = k * b + b /\ k * b \in Nat
          BY <5>1
        <5> QED BY <4>1, <5>2 DEF q
      <4> QED BY <4>2 DEF q, St!divDownU256, St!DivDown, OrErr
    <3>6. \A a, b : a = St!Err \/ b = St!Err => St!divDownU256(a, b) = St!Err
      BY DEF St!divDownU256, St!isU256, St!Err
    <3>7. St!Err \in OrErr({0})
      BY DEF OrErr
    <3> QED BY <2>2, <2>5, <2>7, <3>1, <3>2, <3>4, <3>5, <3>6, <3>7
  <2>8. turns[i][v] = step(i, v)
    <3> HIDE DEF step
    <3> QED BY <2>4
  <2>9. T[i] = IF d = 1 THEN OrErr({0}) ELSE OrErr(Amount)
    BY <2>1
  <2> HIDE DEF step, turns, T
  <2> QED BY <2>6, <2>7, <2>8, <2>9
<1>4. d \in T[0] /\ T[n] = IF d = 1 THEN OrErr({0}) ELSE OrErr(Amount)
  BY <1>1
<1>5. OrErr({0}) \subseteq OrErr(Amount)
  BY StablePoolsAssumption DEF OrErr, Amount
<1> HIDE DEF T, turns
<1>6. St!Loop(n, d, turns) \in T[n]
  BY <1>1, <1>3, <1>4, LoopIn
<1> QED BY <1>4, <1>5, <1>6 DEF n, turns

(* An operation that succeeds had operands in range and is exact. *)
LEMMA Succeeds ==
    ASSUME NEW a \in Int, NEW b \in Int
    PROVE  /\ St!addU256(a, b) # St!Err => a \in Amount /\ b \in Amount /\ St!addU256(a, b) = a + b
           /\ St!subU256(a, b) # St!Err =>
                 a \in Amount /\ b \in Amount /\ b <= a /\ St!subU256(a, b) = a - b
           /\ St!mulU256(a, b) # St!Err => a \in Amount /\ b \in Amount /\ St!mulU256(a, b) = a * b
           /\ St!divDownU256(a, b) # St!Err =>
                 a \in Amount /\ b \in Amount /\ b # 0 /\ St!divDownU256(a, b) = a \div b
<1>1. StableWidth \in Nat
  BY StablePoolsAssumption
<1>2. /\ St!addU256(a, b) # St!Err => a \in Amount /\ b \in Amount /\ St!addU256(a, b) = a + b
      /\ St!subU256(a, b) # St!Err =>
                 a \in Amount /\ b \in Amount /\ b <= a /\ St!subU256(a, b) = a - b
  BY <1>1 DEF St!addU256, St!subU256, St!Fits, St!isU256, St!Err, Amount
<1>3. a * b \in Int
  OBVIOUS
<1>4. St!mulU256(a, b) # St!Err => a \in Amount /\ b \in Amount /\ St!mulU256(a, b) = a * b
  BY <1>1, <1>3 DEF St!mulU256, St!Fits, St!isU256, St!Err, Amount
<1>5. St!divDownU256(a, b) # St!Err =>
         a \in Amount /\ b \in Amount /\ b # 0 /\ St!divDownU256(a, b) = a \div b
  BY <1>1 DEF St!divDownU256, St!DivDown, St!isU256, St!Err, Amount
<1> QED BY <1>2, <1>4, <1>5

LEMMA NextInvariantPositive ==
    ASSUME NEW balances \in Seq(Positive), Len(balances) >= 2,
           NEW m \in Positive, NEW sum \in Positive, NEW d \in Positive
    PROVE  St!NextInvariant(m, balances, sum, d) \in OrErr(Positive)
<1> DEFINE n == Len(balances)
           c == AmpPrecision
           p == St!Loop(n, d, [i \in 1 .. n |-> [v \in Int |->
                    St!divDownU256(St!mulU256(v, d), St!mulU256(balances[i], n))]])
           ms    == St!mulU256(m, sum)
           term  == St!divDownU256(ms, c)
           pn    == St!mulU256(p, n)
           total == St!addU256(term, pn)
           num   == St!mulU256(total, d)
           less  == St!subU256(m, c)
           md    == St!mulU256(less, d)
           part  == St!divDownU256(md, c)
           np    == St!mulU256(St!addU256(n, 1), p)
           den   == St!addU256(part, np)
<1>1. St!NextInvariant(m, balances, sum, d) = St!divDownU256(num, den)
  BY DEF St!NextInvariant
<1>2. p \in OrErr(Amount) /\ (d = 1 => p \in OrErr({0}))
  BY ProductIs
<1>3. n \in Nat /\ n >= 2
  OBVIOUS
<1>4. c \in Nat \ {0}
  BY StablePoolsAssumption DEF St!StableAssumption
<1>5. /\ m \in Nat \ {0} /\ sum \in Nat \ {0} /\ d \in Nat \ {0} /\ StableWidth \in Nat
      /\ Amount \subseteq Nat
  BY StablePoolsAssumption DEF Positive, Amount
<1> HIDE DEF p, n, c
<1>6. p \in Int /\ n \in Int /\ m \in Int /\ sum \in Int /\ d \in Int /\ c \in Int
  BY <1>2, <1>3, <1>4, <1>5, AmountIsInt
<1>7. ms \in Int /\ pn \in Int /\ less \in Int /\ St!addU256(n, 1) \in Int
  <2>1. ms \in OrErr(Amount) /\ pn \in OrErr(Amount)
    BY <1>6, StableOps
  <2>2. less \in OrErr(Amount)
    BY <1>6, StableOps
  <2>3. St!addU256(n, 1) \in OrErr(Amount)
    BY <1>6, StableOps
  <2> HIDE DEF ms, pn, less
  <2> QED BY <2>1, <2>2, <2>3, AmountIsInt
<1> HIDE DEF ms, pn, less
<1>8. term \in Int /\ md \in Int /\ np \in Int
  BY <1>6, <1>7, StableOps, AmountIsInt
<1> HIDE DEF term, md, np
<1>9. total \in Int /\ part \in Int
  BY <1>6, <1>7, <1>8, StableOps, AmountIsInt
<1> HIDE DEF total, part
<1>10. num \in Int /\ den \in Int
  BY <1>6, <1>8, <1>9, StableOps, AmountIsInt
<1> HIDE DEF num, den
<1> SUFFICES ASSUME St!divDownU256(num, den) # St!Err PROVE St!divDownU256(num, den) \in Positive
  BY <1>1 DEF OrErr
<1>11. num \in Amount /\ den \in Amount /\ den # 0 /\ St!divDownU256(num, den) = num \div den
  BY <1>10, Succeeds
<1>12. num # St!Err /\ den # St!Err
  BY <1>5, <1>11 DEF St!Err
<1>13. total \in Amount /\ num = total * d
  BY <1>6, <1>9, <1>12, Succeeds DEF num
<1>14. part \in Amount /\ np \in Amount /\ den = part + np
  BY <1>8, <1>9, <1>12, Succeeds DEF den
<1>15. term \in Amount /\ pn \in Amount /\ total = term + pn
  <2>1. total # St!Err
    BY <1>5, <1>13 DEF St!Err
  <2> QED BY <1>7, <1>8, <2>1, Succeeds DEF total
<1>16. pn = p * n /\ p \in Amount
  <2>1. pn # St!Err
    BY <1>5, <1>15 DEF St!Err
  <2> QED BY <1>6, <2>1, Succeeds DEF pn
<1>17. term = (m * sum) \div c
  <2>1. term # St!Err
    BY <1>5, <1>15 DEF St!Err
  <2>2. ms \in Amount /\ term = ms \div c
    BY <1>6, <1>7, <2>1, Succeeds DEF term
  <2>3. ms # St!Err
    BY <1>5, <2>2 DEF St!Err
  <2> QED BY <1>6, <2>2, <2>3, Succeeds DEF ms
<1>18. c <= m /\ part = ((m - c) * d) \div c
  <2>1. part # St!Err
    BY <1>5, <1>14 DEF St!Err
  <2>2. md \in Amount /\ part = md \div c
    BY <1>6, <1>8, <2>1, Succeeds DEF part
  <2>3. md # St!Err
    BY <1>5, <2>2 DEF St!Err
  <2>4. less \in Amount /\ md = less * d
    BY <1>6, <1>7, <2>3, Succeeds DEF md
  <2>5. less # St!Err
    BY <1>5, <2>4 DEF St!Err
  <2> QED BY <1>6, <2>2, <2>4, <2>5, Succeeds DEF less
<1>19. np = (n + 1) * p
  <2>1. np # St!Err
    BY <1>5, <1>14 DEF St!Err
  <2>2. St!addU256(n, 1) \in Amount /\ np = St!addU256(n, 1) * p
    BY <1>6, <1>7, <2>1, Succeeds DEF np
  <2>3. St!addU256(n, 1) # St!Err
    BY <1>5, <2>2 DEF St!Err
  <2> QED BY <1>6, <2>2, <2>3, Succeeds
<1>20. d = 1 => p = 0
  BY <1>2, <1>5, <1>16 DEF OrErr, St!Err
<1>21. den <= num
  <2>1. p \in Nat
    BY <1>5, <1>16
  <2> QED BY <1>3, <1>4, <1>5, <1>13, <1>14, <1>15, <1>16, <1>17, <1>18, <1>19, <1>20,
             <2>1, StepGrows
<1>22. num \div den \in Nat /\ num < (num \div den) * den + den
  BY <1>5, <1>11, Floor
<1>23. num \div den # 0
  BY <1>5, <1>11, <1>21, <1>22
<1>24. num \div den \in OrErr(Amount)
  BY <1>10, <1>11, StableOps
<1> QED BY <1>11, <1>22, <1>23, <1>24 DEF OrErr, Amount, Positive, St!Err

(* The invariant of positive balances is never zero. *)
LEMMA InvariantPositive ==
    ASSUME NEW balances \in Seq(Positive), Len(balances) >= 2, NEW amp \in Int, amp > 0
    PROVE  St!stableInvariant(amp, balances) \in OrErr(Positive)
<1> DEFINE sum == St!SumU256(balances)
           m   == St!mulU256(amp, Len(balances))
           step == [d \in 0 .. StableWidth |-> St!NextInvariant(m, balances, sum, d)]
<1>1. sum \in OrErr(Positive)
  BY SumPositive
<1>2. 0 \notin OrErr(Positive) /\ Positive \subseteq Amount
  BY StablePoolsAssumption DEF OrErr, Positive, Amount, St!Err
<1>3. m # St!Err => m \in Positive
  <2>1. m # St!Err => m = amp * Len(balances) /\ m \in OrErr(Amount)
    BY Succeeds, StableOps
  <2>2. amp * Len(balances) >= 1
    <3>1. Len(balances) \in Nat \ {0} /\ amp \in Nat \ {0}
      OBVIOUS
    <3>2. amp - 1 \in Nat /\ amp = (amp - 1) + 1
      BY <3>1
    <3>3. PICK k \in Nat : amp = k + 1
      BY <3>2
    <3>4. amp * Len(balances) = k * Len(balances) + Len(balances) /\ k * Len(balances) \in Nat
      BY <3>1, <3>3
    <3> QED BY <3>1, <3>4
  <2> HIDE DEF m
  <2> QED BY <2>1, <2>2 DEF OrErr, Amount, Positive
<1> HIDE DEF sum, m
<1>4. St!stableInvariant(amp, balances) =
        IF sum = 0 THEN 0 ELSE IF m = St!Err THEN St!Err ELSE St!Newton(step, sum)
  BY DEF St!stableInvariant, sum, m
<1>5. ASSUME m # St!Err PROVE St!Newton(step, sum) \in OrErr(Positive)
  <2>1. CASE sum = St!Err
    <3>1. \A v \in {} : step[v] \in OrErr({})
      OBVIOUS
    <3>2. sum \in OrErr({})
      BY <2>1 DEF OrErr
    <3> HIDE DEF step
    <3>3. St!Newton(step, sum) \in OrErr({})
      BY <3>1, <3>2, NewtonIn
    <3> QED BY <3>3 DEF OrErr
  <2>2. CASE sum # St!Err
    <3>1. sum \in Positive
      BY <1>1, <2>2 DEF OrErr
    <3>2. \A v \in Positive : step[v] \in OrErr(Positive)
      BY <1>2, <1>3, <1>5, <3>1, NextInvariantPositive DEF Amount
    <3> HIDE DEF step
    <3> QED BY <1>1, <1>2, <3>2, NewtonIn
  <2> QED BY <2>1, <2>2
<1>6. St!Err \in OrErr(Positive)
  BY DEF OrErr
<1> QED BY <1>1, <1>2, <1>4, <1>5, <1>6

(* What the arithmetic makes of numbers is a number in range, or an error. *)
LEMMA BalanceTyped ==
    ASSUME NEW balances \in Seq(Int), balances # <<>>, NEW amp \in Int, NEW inv \in Int,
           NEW k \in DOMAIN balances
    PROVE  St!stableBalanceGivenInvariant(amp, balances, inv, k) \in OrErr(Amount)
<1> DEFINE n    == Len(balances)
           m    == St!mulU256(amp, n)
           turn(i, v) == St!divDownU256(St!mulU256(St!mulU256(v, balances[i + 1]), n), inv)
           turns == [i \in 1 .. n - 1 |-> [v \in Int |-> turn(i, v)]]
           first == St!mulU256(balances[1], n)
           pD   == St!Loop(n - 1, first, turns)
           add(i, v) == St!addU256(v, balances[i])
           adds == [i \in DOMAIN balances |-> [sum \in Int |-> add(i, sum)]]
           all  == St!Loop(n, 0, adds)
           sum  == St!subU256(all, balances[k])
           inv2 == St!mulU256(inv, inv)
           c    == St!BalanceTerm(inv2, m, pD, balances[k])
           b    == St!addU256(sum, St!mulU256(St!divDownU256(inv, m), AmpPrecision))
           step == [y \in 0 .. StableWidth |-> St!NextBalance(b, c, inv, y)]
           start1 == St!divUpU256(St!addU256(inv2, c), St!addU256(inv, b))
<1>1. St!stableBalanceGivenInvariant(amp, balances, inv, k) = St!Newton(step, start1)
  BY DEF St!stableBalanceGivenInvariant, St!SumU256
<1>2. n \in Nat \ {0} /\ DOMAIN balances = 1 .. n /\ n - 1 \in Nat /\ n \in Int
  OBVIOUS
<1>3. AmpPrecision \in Int
  BY StablePoolsAssumption DEF St!StableAssumption
<1>4. OrErr(Amount) \subseteq Int /\ 0 \in OrErr(Amount)
  <2>1. 0 \in 0 .. StableWidth
    BY StablePoolsAssumption
  <2> QED BY <2>1, AmountIsInt DEF OrErr, Amount
<1>5. \A i \in 1 .. n : balances[i] \in Int
  BY <1>2
<1> HIDE DEF n
<1>6. pD \in OrErr(Amount)
  <2> DEFINE T == [i \in 0 .. n - 1 |-> OrErr(Amount)]
  <2>1. first \in OrErr(Amount)
    BY <1>2, <1>5, StableOps
  <2>2. ASSUME NEW i \in 1 .. n - 1, NEW v \in OrErr(Amount) PROVE turns[i][v] \in OrErr(Amount)
    <3>1. v \in Int /\ balances[i + 1] \in Int
      BY <1>2, <1>4, <1>5
    <3>2. St!mulU256(v, balances[i + 1]) \in Int
      BY <1>4, <3>1, StableOps
    <3>3. St!mulU256(St!mulU256(v, balances[i + 1]), n) \in Int
      BY <1>2, <1>4, <3>2, StableOps
    <3>4. turn(i, v) \in OrErr(Amount)
      BY <3>3, StableOps
    <3>5. turns[i][v] = turn(i, v)
      <4> HIDE DEF turn
      <4> QED BY <3>1
    <3> QED BY <3>4, <3>5
  <2> HIDE DEF turns, first
  <2>3. first \in T[0] /\ \A i \in 1 .. n - 1 : \A v \in T[i - 1] : turns[i][v] \in T[i]
    <3>1. /\ T[0] = OrErr(Amount)
          /\ \A i \in 1 .. n - 1 : T[i - 1] = OrErr(Amount) /\ T[i] = OrErr(Amount)
      BY <1>2
    <3> HIDE DEF T
    <3> QED BY <2>1, <2>2, <3>1
  <2>4. T[n - 1] = OrErr(Amount)
    BY <1>2
  <2> HIDE DEF T
  <2> QED BY <1>2, <2>3, <2>4, LoopIn
<1>7. all \in OrErr(Amount)
  <2> DEFINE T == [i \in 0 .. n |-> OrErr(Amount)]
  <2>2. ASSUME NEW i \in 1 .. n, NEW v \in OrErr(Amount) PROVE adds[i][v] \in OrErr(Amount)
    <3>1. v \in Int /\ balances[i] \in Int /\ i \in DOMAIN balances
      BY <1>2, <1>4, <1>5
    <3>2. add(i, v) \in OrErr(Amount)
      BY <3>1, StableOps
    <3>3. adds[i][v] = add(i, v)
      <4> HIDE DEF add
      <4> QED BY <3>1
    <3> QED BY <3>2, <3>3
  <2> HIDE DEF adds
  <2>3. 0 \in T[0] /\ \A i \in 1 .. n : \A v \in T[i - 1] : adds[i][v] \in T[i]
    <3>1. T[0] = OrErr(Amount) /\ \A i \in 1 .. n : T[i - 1] = OrErr(Amount) /\ T[i] = OrErr(Amount)
      BY <1>2
    <3> HIDE DEF T
    <3> QED BY <1>4, <2>2, <3>1
  <2>4. T[n] = OrErr(Amount)
    BY <1>2
  <2> HIDE DEF T
  <2> QED BY <1>2, <2>3, <2>4, LoopIn
<1> HIDE DEF pD, all
<1>8. pD \in Int /\ all \in Int /\ balances[k] \in Int
  BY <1>2, <1>4, <1>5, <1>6, <1>7
<1>9. m \in Int /\ sum \in Int /\ inv2 \in Int
  <2>1. m \in OrErr(Amount)
    BY <1>2, StableOps
  <2>2. sum \in OrErr(Amount)
    BY <1>8, StableOps
  <2>3. inv2 \in OrErr(Amount)
    BY StableOps
  <2> HIDE DEF m, sum, inv2
  <2> QED BY <1>4, <2>1, <2>2, <2>3
<1> HIDE DEF m, sum, inv2
<1>10. c \in Int
  <2>1. St!mulU256(m, pD) \in Int
    BY <1>4, <1>8, <1>9, StableOps
  <2>2. St!divUpU256(inv2, St!mulU256(m, pD)) \in Int
    BY <1>4, <1>9, <2>1, StableOps
  <2>3. St!mulU256(St!divUpU256(inv2, St!mulU256(m, pD)), AmpPrecision) \in Int
    BY <1>3, <1>4, <2>2, StableOps
  <2>4. St!mulU256(St!mulU256(St!divUpU256(inv2, St!mulU256(m, pD)), AmpPrecision), balances[k])
            \in Int
    BY <1>4, <1>8, <2>3, StableOps
  <2> QED BY <2>4 DEF St!BalanceTerm
<1>11. b \in Int
  <2>1. St!divDownU256(inv, m) \in Int
    BY <1>4, <1>9, StableOps
  <2>2. St!mulU256(St!divDownU256(inv, m), AmpPrecision) \in Int
    BY <1>3, <1>4, <2>1, StableOps
  <2> QED BY <1>4, <1>9, <2>2, StableOps
<1> HIDE DEF b, c
<1>12. start1 \in OrErr(Amount)
  <2>1. St!addU256(inv2, c) \in Int /\ St!addU256(inv, b) \in Int
    BY <1>4, <1>9, <1>10, <1>11, StableOps
  <2> QED BY <2>1, StableOps
<1>13. \A y \in Amount : step[y] \in OrErr(Amount)
  <2> TAKE y \in Amount
  <2>1. y \in Int /\ y \in 0 .. StableWidth
    BY StablePoolsAssumption DEF Amount
  <2>2. St!mulU256(y, y) \in Int /\ St!mulU256(y, 2) \in Int
    BY <1>4, <2>1, StableOps
  <2>3. St!addU256(St!mulU256(y, y), c) \in Int /\ St!addU256(St!mulU256(y, 2), b) \in Int
    BY <1>4, <1>10, <1>11, <2>2, StableOps
  <2>4. St!subU256(St!addU256(St!mulU256(y, 2), b), inv) \in Int
    BY <1>4, <2>3, StableOps
  <2>5. St!NextBalance(b, c, inv, y) \in OrErr(Amount)
    BY <2>3, <2>4, StableOps DEF St!NextBalance
  <2>6. step[y] = St!NextBalance(b, c, inv, y)
    BY <2>1
  <2> QED BY <2>5, <2>6
<1> HIDE DEF step, start1
<1>14. St!Newton(step, start1) \in OrErr(Amount)
  BY <1>12, <1>13, NewtonIn
<1> QED BY <1>1, <1>14

(* The amounts of a pool and its parameters are numbers. *)
StablePool(p) ==
    /\ p.amp \in Int /\ p.fee \in Int \X Int
    /\ p.balances \in Seq(Int) /\ p.scaling \in [DOMAIN p.balances -> Int]

LEMMA ScaledIs ==
    ASSUME NEW p, StablePool(p)
    PROVE  /\ St!Scaled(p) \in Seq(OrErr(Positive)) /\ Len(St!Scaled(p)) = Len(p.balances)
           /\ DOMAIN St!Scaled(p) = DOMAIN p.balances
<1> DEFINE n == Len(p.balances)
<1>1. n \in Nat /\ DOMAIN p.balances = 1 .. n
  BY DEF StablePool
<1>2. ASSUME NEW i \in 1 .. n PROVE St!Scaled(p)[i] \in OrErr(Positive)
  <2> DEFINE v == St!fpMulDown(p.balances[i], p.scaling[i])
  <2>0. FpOne \in Int
    BY StablePoolsAssumption DEF St!StableAssumption
  <2>1. p.balances[i] \in Int /\ p.scaling[i] \in Int
    BY <1>1 DEF StablePool
  <2>2. St!mulU256(p.balances[i], p.scaling[i]) \in Int
    BY <2>1, StableOps, AmountIsInt
  <2>3. v \in OrErr(Amount)
    BY <2>0, <2>2, StableOps DEF St!fpMulDown
  <2> HIDE DEF v
  <2>4. St!Scaled(p)[i] = IF v > 0 THEN v ELSE St!Err
    BY <1>1 DEF St!Scaled, v
  <2> QED BY <2>3, <2>4, StablePoolsAssumption DEF OrErr, Amount, Positive, St!Err
<1>3. St!Scaled(p) = [i \in 1 .. n |-> St!Scaled(p)[i]]
  BY <1>1 DEF St!Scaled
<1>4. DOMAIN St!Scaled(p) = 1 .. n
  BY <1>1 DEF St!Scaled
<1> HIDE DEF n
<1>5. St!Scaled(p) \in Seq(OrErr(Positive))
  BY <1>1, <1>2, <1>3
<1> QED BY <1>1, <1>4, <1>5 DEF n

LEMMA QuoteIs ==
    ASSUME NEW p, StablePool(p), NEW i \in DOMAIN p.balances, NEW o \in DOMAIN p.balances,
           NEW x \in Int
    PROVE  /\ St!quoteStableIndexed(p, i, o, x) \in Int
           /\ St!quoteStableIndexed(p, i, o, x) # St!NilNil
<1> DEFINE feeUp == St!fpMulUp(x, St!feeBfp(p.fee))
           after == St!subU256(x, feeUp)
           scaled == St!Scaled(p)
           upIn == St!fpMulDown(after, p.scaling[i])
           inv == St!stableInvariant(p.amp, scaled)
           moved == [scaled EXCEPT ![i] = St!addU256(@, upIn)]
           finalOut == St!stableBalanceGivenInvariant(p.amp, moved, inv, o)
           upOut == St!subU256(St!subU256(scaled[o], finalOut), 1)
           out == St!fpDivDown(upOut, p.scaling[o])
           Refused == \/ i = o \/ x <= 0 \/ p.amp <= 0
                      \/ St!feeBfp(p.fee) \notin 0 .. FpOne - 1
                      \/ after <= 0 \/ upIn <= 0
                      \/ \E j \in DOMAIN scaled : scaled[j] = St!Err
           Sold == inv # St!Err /\ upOut > 0 /\ 0 < out /\ out < p.balances[o]
<1>1. St!quoteStableIndexed(p, i, o, x) =
        IF Refused THEN St!Err ELSE IF inv = 0 THEN St!NilNil ELSE IF Sold THEN out ELSE St!Err
  BY DEF St!quoteStableIndexed
<1>2. /\ scaled \in Seq(OrErr(Positive)) /\ Len(scaled) = Len(p.balances)
      /\ DOMAIN scaled = DOMAIN p.balances
  BY ScaledIs
<1>3. p.amp \in Int /\ p.fee[1] \in Int /\ p.fee[2] \in Int /\ FpOne \in Int
      /\ p.scaling[i] \in Int /\ p.scaling[o] \in Int
  <2>1. FpOne \in Int
    BY StablePoolsAssumption DEF St!StableAssumption
  <2> QED BY <2>1 DEF StablePool
<1>4. OrErr(Amount) \subseteq Int /\ OrErr(Positive) \subseteq Int
  <2>1. Positive \subseteq Amount
    BY StablePoolsAssumption DEF Positive, Amount
  <2> QED BY <2>1, AmountIsInt DEF OrErr
<1>5. St!Err # St!NilNil /\ St!Err \in Int
  BY DEF St!Err, St!NilNil
<1> SUFFICES ASSUME ~Refused
             PROVE  inv # 0 /\ (Sold => out \in Int /\ out # St!NilNil)
  BY <1>1, <1>5
<1> HIDE DEF scaled, inv
<1>6. i # o /\ p.amp > 0 /\ \A j \in DOMAIN scaled : scaled[j] # St!Err
  BY <1>3
<1>7. scaled \in Seq(Positive) /\ Len(scaled) >= 2
  <2>1. \A j \in 1 .. Len(scaled) : scaled[j] \in Positive
    BY <1>2, <1>6 DEF OrErr
  <2>2. scaled \in Seq(Positive)
    BY <1>2, <2>1
  <2>3. i \in 1 .. Len(scaled) /\ o \in 1 .. Len(scaled)
    BY <1>2
  <2> QED BY <1>6, <2>2, <2>3
<1>8. inv \in OrErr(Positive)
  BY <1>3, <1>6, <1>7, InvariantPositive DEF inv
<1>9. inv # 0
  BY <1>8 DEF OrErr, Positive, St!Err
<1>10. ASSUME Sold PROVE out \in Int /\ out # St!NilNil
  <2>1. after \in Int
    <3>1. St!mulU256(p.fee[1], FpOne) \in Int
      BY <1>3, <1>4, StableOps
    <3>2. St!feeBfp(p.fee) \in Int
      BY <1>3, <1>4, <3>1, StableOps DEF St!feeBfp
    <3>3. St!mulU256(x, St!feeBfp(p.fee)) \in Int
      BY <1>4, <3>2, StableOps
    <3>4. St!subU256(St!mulU256(x, St!feeBfp(p.fee)), 1) \in Int
      BY <1>4, <3>3, StableOps
    <3>5. St!divDownU256(St!subU256(St!mulU256(x, St!feeBfp(p.fee)), 1), FpOne) \in Int
      BY <1>3, <1>4, <3>4, StableOps
    <3>6. St!addU256(St!divDownU256(St!subU256(St!mulU256(x, St!feeBfp(p.fee)), 1), FpOne), 1)
             \in Int
      BY <1>4, <3>5, StableOps
    <3>7. feeUp \in Int
      BY <3>6 DEF St!fpMulUp
    <3> HIDE DEF feeUp
    <3> QED BY <1>4, <3>7, StableOps
  <2> HIDE DEF after
  <2>2. upIn \in Int
    <3>1. St!mulU256(after, p.scaling[i]) \in Int
      BY <1>3, <1>4, <2>1, StableOps
    <3> QED BY <1>3, <1>4, <3>1, StableOps DEF St!fpMulDown
  <2> HIDE DEF upIn
  <2>3. /\ moved \in Seq(Int) /\ moved # <<>> /\ o \in DOMAIN moved
        /\ scaled[o] \in Int
    <3>1. scaled \in Seq(Int) /\ i \in DOMAIN scaled /\ o \in DOMAIN scaled
      BY <1>2, <1>4
    <3>2. scaled[i] \in Int /\ scaled[o] \in Int
      BY <3>1
    <3>3. St!addU256(scaled[i], upIn) \in Int
      BY <1>4, <2>2, <3>2, StableOps
    <3> QED BY <3>1, <3>2, <3>3
  <2> HIDE DEF moved
  <2>4. finalOut \in Int
    BY <1>3, <1>4, <1>8, <2>3, BalanceTyped
  <2> HIDE DEF finalOut
  <2>5. St!subU256(scaled[o], finalOut) \in Int
    BY <1>4, <2>3, <2>4, StableOps
  <2>6. upOut \in Int
    BY <1>4, <2>5, StableOps
  <2> HIDE DEF upOut
  <2>7. St!mulU256(upOut, FpOne) \in Int
    BY <1>3, <1>4, <2>6, StableOps
  <2>8. out \in Int
    BY <1>3, <1>4, <1>5, <2>7, StableOps DEF St!fpDivDown
  <2> HIDE DEF out
  <2> QED BY <1>10, <2>8 DEF St!NilNil
<1> QED BY <1>9, <1>10

-----------------------------------------------------------------------------
(* The amounts of the traded pool and of the trader stay whole numbers. *)
StableInv ==
    kind = "stable" => StablePool(sPool) /\ sHold \in [DOMAIN sPool.balances -> Int]

LEMMA StableInit == PoolsInit => StableInv
<1> SUFFICES ASSUME PoolsInit, kind = "stable" PROVE StableInv
  BY DEF StableInv
<1>1. St!Init
  BY DEF PoolsInit
<1>2. StablePool(sPool)
  BY <1>1, StablePoolsAssumption DEF St!Init, St!TradingAssumption, StablePool
<1>3. StableHoldings \subseteq Int
  BY StablePoolsAssumption DEF St!TradingAssumption
<1>4. sHold \in [DOMAIN sPool.balances -> Int]
  BY <1>1, <1>3 DEF St!Init, St!Tokens
<1> QED BY <1>2, <1>4 DEF StableInv

(* A swap adds to one balance and takes a quote off another. *)
LEMMA StableSwap ==
    ASSUME StableInv, kind = "stable",
           NEW i \in St!Tokens, NEW o \in St!Tokens, NEW x \in Int, St!Swap(i, o, x)
    PROVE  StablePool(sPool') /\ sHold' \in [DOMAIN sPool'.balances -> Int]
<1> DEFINE out == St!quoteStableIndexed(sPool, i, o, x)
<1>1. /\ StablePool(sPool) /\ sHold \in [DOMAIN sPool.balances -> Int]
      /\ i \in DOMAIN sPool.balances /\ o \in DOMAIN sPool.balances
  BY DEF StableInv, St!Tokens
<1>2. out \in Int
  BY <1>1, QuoteIs
<1>3. /\ sPool' = [sPool EXCEPT !.balances[i] = @ + x, !.balances[o] = @ - out]
      /\ sHold' = [sHold EXCEPT ![i] = @ - x, ![o] = @ + out]
  BY DEF St!Swap
<1> HIDE DEF out
<1>4. sHold' \in [DOMAIN sPool.balances -> Int]
  BY <1>1, <1>2, <1>3
<1>5. /\ sPool'.amp = sPool.amp /\ sPool'.fee = sPool.fee /\ sPool'.scaling = sPool.scaling
      /\ sPool'.balances = [sPool.balances EXCEPT ![i] = @ + x, ![o] = @ - out]
  BY <1>3
<1>6. sPool.balances \in Seq(Int)
  BY <1>1 DEF StablePool
<1>7. sPool'.balances \in Seq(Int) /\ DOMAIN sPool'.balances = DOMAIN sPool.balances
  BY <1>1, <1>2, <1>5, <1>6
<1> QED BY <1>1, <1>4, <1>5, <1>7 DEF StablePool

LEMMA StableNext == StableInv /\ [PoolsNext]_poolsVars => StableInv'
<1> SUFFICES ASSUME StableInv, [PoolsNext]_poolsVars, kind' = "stable" PROVE StableInv'
  BY DEF StableInv
<1>1. CASE UNCHANGED <<kind, sPool, sHold>>
  BY <1>1 DEF StableInv, StablePool
<1>2. CASE kind = "stable" /\ St!Next /\ UNCHANGED kind
  <2>1. PICK i \in St!Tokens, o \in St!Tokens : \E x \in 1 .. sHold[i] : St!Swap(i, o, x)
    BY <1>2 DEF St!Next
  <2>2. PICK x \in Int : St!Swap(i, o, x)
    BY <2>1
  <2> QED BY <1>2, <2>2, StableSwap DEF StableInv, StablePool
<1> QED BY <1>1, <1>2 DEF PoolsNext, poolsVars, stableVars

(* A quote of a stable pool is an amount or an error, whatever its amounts *)
(* and the width: the invariant of scaled balances, all positive, comes    *)
(* out positive or not at all, so that stable.go never gets to the return  *)
(* of err where err is nil, which would hand the router a missing amount.  *)
THEOREM StableAnswers == PoolsSpec => []AmountOrError
<1>1. PoolsInit => StableInv
  BY StableInit
<1>2. StableInv /\ [PoolsNext]_poolsVars => StableInv'
  BY StableNext
<1>3. StableInv => AmountOrError
  <2> SUFFICES ASSUME StableInv, kind = "stable",
                      NEW i \in St!Tokens, NEW o \in St!Tokens, NEW x \in Int
               PROVE  St!quoteStableIndexed(sPool, i, o, x) # St!NilNil
    BY DEF AmountOrError, St!AmountOrError
  <2>1. StablePool(sPool) /\ i \in DOMAIN sPool.balances /\ o \in DOMAIN sPool.balances
    BY DEF StableInv, St!Tokens
  <2> QED BY <2>1, QuoteIs
<1> QED BY <1>1, <1>2, <1>3, PTL DEF PoolsSpec
=============================================================================
