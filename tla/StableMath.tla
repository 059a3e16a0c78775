----------------------------- MODULE StableMath -----------------------------
(***************************************************************************)
(* The stable-pool quote of internal/amm/stable.go: Balancer's StableMath  *)
(* in checked arithmetic.  A pool is [amp, fee, scaling, balances]: the    *)
(* raw amplification, the fee fraction <<numerator, denominator>>, and per *)
(* token the scaling factor and the balance.  Every failure is Err; the    *)
(* callers do not tell one error from another.                             *)
(***************************************************************************)
EXTENDS U256, Sequences

CONSTANTS FpOne,           \* fpOne, 10^18 in the code
          AmpPrecision,    \* ampPrecision, 1000 in the code
          MaxIterations    \* stableMaxIterations, 255 in the code

StableAssumption ==
    {FpOne, AmpPrecision, MaxIterations} \subseteq Nat \ {0}

(* (nil, nil): neither an amount nor an error. *)
NilNil == -2

fpMulDown(a, b) == divDownU256(mulU256(a, b), FpOne)

fpMulUp(a, b) ==
    IF mulU256(a, b) = 0 THEN 0
    ELSE addU256(divDownU256(subU256(mulU256(a, b), 1), FpOne), 1)

(* Mutant: the output is rounded up when it is scaled back. *)
fpDivDown_rounds_up(a, scalingFactor) ==
    IF scalingFactor > 0 THEN divUpU256(mulU256(a, FpOne), scalingFactor) ELSE Err

fpDivDown(a, scalingFactor) ==
    IF scalingFactor > 0 THEN divDownU256(mulU256(a, FpOne), scalingFactor) ELSE Err

feeBfp(fee) == divDownU256(mulU256(fee[1], FpOne), fee[2])

converged(current, previous) == current - previous \in -1 .. 1

(* A loop over 1 .. n: what step makes, turn by turn, of base. *)
Loop(n, base, step) ==
    LET value[i \in 0 .. n] == IF i = 0 THEN base ELSE step[i][value[i - 1]]
    IN  value[n]

(* The loop of both solvers: iterate until two values are within one of    *)
(* each other, at most MaxIterations times.                                *)
Newton(step, start) ==
    LET Turn(now) ==
            LET next == step[now.value]
            IN  [value |-> next, stop |-> next = Err \/ converged(next, now.value)]
        last == Loop(MaxIterations, [value |-> start, stop |-> start = Err],
                     [i \in 1 .. MaxIterations |-> [now \in [value : Int, stop : BOOLEAN] |->
                        IF now.stop THEN now ELSE Turn(now)]])
    IN  IF last.stop THEN last.value ELSE Err

SumU256(balances) ==
    Loop(Len(balances), 0, [i \in DOMAIN balances |-> [sum \in Int |-> addU256(sum, balances[i])]])

(* One Newton step for D. *)
NextInvariant(ampTimesTotal, balances, sum, invariant) ==
    LET n    == Len(balances)
        dP   == Loop(n, invariant,
                     [i \in 1 .. n |-> [p \in Int |->
                        divDownU256(mulU256(p, invariant), mulU256(balances[i], n))]])
        term == divDownU256(mulU256(ampTimesTotal, sum), AmpPrecision)
        numerator   == mulU256(addU256(term, mulU256(dP, n)), invariant)
        denominator == addU256(
            divDownU256(mulU256(subU256(ampTimesTotal, AmpPrecision), invariant),
                        AmpPrecision),
            mulU256(addU256(n, 1), dP))
    IN  divDownU256(numerator, denominator)

stableInvariant(amp, balances) ==
    LET sum           == SumU256(balances)
        ampTimesTotal == mulU256(amp, Len(balances))
    IN  IF sum = 0 THEN 0
        ELSE IF ampTimesTotal = Err THEN Err
        ELSE Newton([d \in 0 .. MaxU256 |-> NextInvariant(ampTimesTotal, balances, sum, d)], sum)

(* Mutant: the term is rounded down, as everything in the other solver. *)
BalanceTerm_rounds_down(inv2, ampTimesTotal, pD, balance) ==
    mulU256(mulU256(divDownU256(inv2, mulU256(ampTimesTotal, pD)), AmpPrecision), balance)

(* The constant term c of the equation for the balance, rounded up. *)
BalanceTerm(inv2, ampTimesTotal, pD, balance) ==
    mulU256(mulU256(divUpU256(inv2, mulU256(ampTimesTotal, pD)), AmpPrecision), balance)

(* One Newton step for the balance, which rounds up. *)
NextBalance(b, c, invariant, y) ==
    LET numerator   == addU256(mulU256(y, y), c)
        denominator == subU256(addU256(mulU256(y, 2), b), invariant)
    IN  divUpU256(numerator, denominator)

(* The balance of token k that holds D fixed, given the other balances. *)
stableBalanceGivenInvariant(amp, balances, invariant, k) ==
    LET n             == Len(balances)
        ampTimesTotal == mulU256(amp, n)
        pD   == Loop(n - 1, mulU256(balances[1], n),
                     [i \in 1 .. n - 1 |-> [p \in Int |->
                        divDownU256(mulU256(mulU256(p, balances[i + 1]), n), invariant)]])
        sum  == subU256(SumU256(balances), balances[k])
        inv2 == mulU256(invariant, invariant)
        c    == BalanceTerm(inv2, ampTimesTotal, pD, balances[k])
        b    == addU256(sum, mulU256(divDownU256(invariant, ampTimesTotal), AmpPrecision))
    IN  Newton([y \in 0 .. MaxU256 |-> NextBalance(b, c, invariant, y)],
               divUpU256(addU256(inv2, c), addU256(invariant, b)))

(* Mutant: a balance that scales down to zero is not refused. *)
Scaled_zero(pool) ==
    [i \in DOMAIN pool.balances |-> fpMulDown(pool.balances[i], pool.scaling[i])]

(* The balances in the pool's common unit; one that vanishes is an error.  *)
Scaled(pool) ==
    [i \in DOMAIN pool.balances |->
        LET balance == fpMulDown(pool.balances[i], pool.scaling[i])
        IN  IF balance > 0 THEN balance ELSE Err]

(* The output for amountIn of token inIdx, in token outIdx. *)
quoteStableIndexed(pool, inIdx, outIdx, amountIn) ==
    LET amountAfterFee == subU256(amountIn, fpMulUp(amountIn, feeBfp(pool.fee)))
        balances  == Scaled(pool)
        upIn      == fpMulDown(amountAfterFee, pool.scaling[inIdx])
        invariant == stableInvariant(pool.amp, balances)
        finalOut  == stableBalanceGivenInvariant(pool.amp,
                        [balances EXCEPT ![inIdx] = addU256(@, upIn)], invariant, outIdx)
        upOut     == subU256(subU256(balances[outIdx], finalOut), 1)
        out       == fpDivDown(upOut, pool.scaling[outIdx])
    IN  IF \/ inIdx = outIdx \/ amountIn <= 0 \/ pool.amp <= 0
           \/ feeBfp(pool.fee) \notin 0 .. FpOne - 1
           \/ amountAfterFee <= 0 \/ upIn <= 0
           \/ \E i \in DOMAIN balances : balances[i] = Err
        THEN Err
        ELSE IF invariant = 0 THEN NilNil
        ELSE IF /\ invariant # Err /\ upOut > 0
                /\ 0 < out /\ out < pool.balances[outIdx]
             THEN out ELSE Err
=============================================================================
