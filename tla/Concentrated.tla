---------------------------- MODULE Concentrated ----------------------------
(***************************************************************************)
(* Pool.quoteConcentrated of internal/amm: an exact-input swap through the *)
(* initialised ticks of a concentrated-liquidity pool, one price range at  *)
(* a time.  Ticks are sorted; prices of ticks are a table (the code        *)
(* computes them, GetSqrtRatioAtTick).  Once a quote is answered, the swap *)
(* it stands for is settled and its output is sold back to the same pool,  *)
(* which is how rounding in the trader's favour would show.                *)
(***************************************************************************)
EXTENDS SwapMath, Sequences, FiniteSets

CONSTANTS
    MinRatio, MaxRatio,   \* minSqrtRatio, maxSqrtRatio
    TickPrice,            \* the price of each tick, increasing
    StepLimit,            \* 512 in the code
    Pools,                \* [price, liquidity, tick, ticks, pips]; ticks a sorted
                          \* sequence of [index, net]
    Amounts               \* inputs

TickPool ==
    [price : Nat, liquidity : Int, tick : Int, pips : Nat,
     ticks : Seq([index : DOMAIN TickPrice, net : Int])]

Sorted(ticks) == \A i, j \in DOMAIN ticks : i < j => ticks[i].index < ticks[j].index

(* The table of prices increases, begins no higher than MinRatio, and has  *)
(* no tick at the limit of an upward swap: the ticks next to the highest   *)
(* one are far more than a unit apart.                                     *)
ConcentratedAssumption ==
    /\ {MinRatio, MaxRatio} \subseteq Nat \ {0} /\ MinRatio < MaxRatio
    /\ StepLimit \in Nat /\ Amounts \subseteq Nat
    /\ DOMAIN TickPrice \subseteq Int /\ TickPrice \in [DOMAIN TickPrice -> Nat]
    /\ \A t, u \in DOMAIN TickPrice : t < u => TickPrice[t] < TickPrice[u]
    /\ \E t \in DOMAIN TickPrice : TickPrice[t] <= MinRatio
    /\ \A t \in DOMAIN TickPrice : TickPrice[t] # MaxRatio - 1
    /\ Pools \subseteq TickPool /\ \A p \in Pools : Sorted(p.ticks)

VARIABLES
    pool,           \* the pool of the quote
    zeroForOne,     \* the direction
    amountIn,       \* the input
    pc,             \* start, loop, end, done, or the error that was returned
    sqrtPrice, liquidity, remaining, amountOut, idx, steps,
    leg,            \* 1: the quote; 2: its output is sold back
    paid            \* the input of leg 1

swap == <<sqrtPrice, liquidity, remaining, amountOut, idx, steps>>
args == <<pool, zeroForOne, amountIn, leg, paid>>
vars == <<args, pc, swap>>

Init ==
    /\ pool \in Pools /\ zeroForOne \in BOOLEAN /\ amountIn \in Amounts
    /\ pc = "start"
    /\ sqrtPrice = pool.price /\ liquidity = pool.liquidity
    /\ remaining = amountIn /\ amountOut = 0 /\ idx = 0 /\ steps = 0
    /\ leg = 1 /\ paid = amountIn

limit == IF zeroForOne THEN MinRatio + 1 ELSE MaxRatio - 1

Usable ==
    /\ MinRatio <= pool.price /\ pool.price <= MaxRatio
    /\ pool.liquidity > 0 /\ pool.liquidity <= MaxLiquidity
    /\ pool.pips < Million
    /\ IF zeroForOne THEN pool.price > limit ELSE pool.price < limit

Fail(error) == pc' = error /\ UNCHANGED <<args, swap>>

Reject == pc = "start" /\ ~Usable /\ Fail("noLiquidity")

(* Mutant: the search starts above the pool's tick in both directions. *)
FirstTick_above ==
    LET above == { i \in DOMAIN pool.ticks : pool.ticks[i].index > pool.tick }
    IN  Len(pool.ticks) + 1 - Cardinality(above)

(* The first tick above the pool's; downwards, the one before it. *)
FirstTick ==
    LET above == { i \in DOMAIN pool.ticks : pool.ticks[i].index > pool.tick }
        first == Len(pool.ticks) + 1 - Cardinality(above)
    IN  IF zeroForOne THEN first - 1 ELSE first

Begin ==
    /\ pc = "start" /\ Usable
    /\ idx' = FirstTick
    /\ pc' = "loop"
    /\ UNCHANGED <<args, sqrtPrice, liquidity, remaining, amountOut, steps>>

PriceAt(i) == TickPrice[pool.ticks[i].index]

(* The step stops at the next tick when that is nearer than the limit. *)
Crossing ==
    /\ idx \in DOMAIN pool.ticks
    /\ IF zeroForOne THEN PriceAt(idx) > limit ELSE PriceAt(idx) < limit

Target == IF Crossing THEN PriceAt(idx) ELSE limit

(* Mutant: the sign of the net liquidity is not turned on the way down. *)
CrossedLiquidity_unsigned == liquidity + pool.ticks[idx].net

CrossedLiquidity ==
    liquidity + (IF zeroForOne THEN -pool.ticks[idx].net ELSE pool.ticks[idx].net)

StepsLeft == remaining > 0 /\ steps < StepLimit

Dry == pc = "loop" /\ StepsLeft /\ (liquidity <= 0 \/ liquidity > MaxLiquidity)
       /\ Fail("noLiquidity")

(* The step is taken: account for it, then cross the tick, go on, or stop. *)
Advance(s) ==
    /\ remaining' = remaining - (s.in + s.fee)
    /\ amountOut' = amountOut + s.out
    /\ sqrtPrice' = s.next
    /\ steps' = steps + 1
    /\ IF Crossing /\ s.next = Target
       THEN /\ liquidity' = CrossedLiquidity
            /\ idx' = IF zeroForOne THEN idx - 1 ELSE idx + 1
            /\ pc' = "loop"
       ELSE /\ UNCHANGED <<liquidity, idx>>
            /\ pc' = IF s.next = limit \/ (remaining' > 0 /\ ~Crossing)
                     THEN "end" ELSE "loop"
    /\ UNCHANGED args

CrossFails(s) ==
    Crossing /\ s.next = Target
        /\ (CrossedLiquidity < 0 \/ CrossedLiquidity > MaxLiquidity)

SwapStep ==
    /\ pc = "loop" /\ StepsLeft /\ liquidity > 0 /\ liquidity <= MaxLiquidity
    /\ LET s        == computeSwapStep(sqrtPrice, Target, liquidity, remaining, pool.pips)
           consumed == addU256(s.in, s.fee)
       IN  IF s.next = Err \/ consumed = Err THEN Fail("arithmetic")
           ELSE IF consumed = 0 /\ s.out = 0 /\ s.next = sqrtPrice /\ ~Crossing
           THEN Fail("end")
           ELSE IF consumed > remaining THEN Fail("overconsumed")
           ELSE IF addU256(amountOut, s.out) = Err THEN Fail("arithmetic")
           ELSE IF CrossFails(s) THEN Fail("noLiquidity")
           ELSE Advance(s)

Finish ==
    /\ pc = "end" \/ (pc = "loop" /\ ~StepsLeft)
    /\ Fail(IF remaining # 0 THEN "notConsumed"
            ELSE IF amountOut <= 0 THEN "noLiquidity" ELSE "done")

(***************************************************************************)
(* The settlement: the pool is where the quote left it, and the output is  *)
(* the input of the opposite swap.  The tick of a pool that has crossed    *)
(* a tick downwards is the one below it.                                   *)
(***************************************************************************)
TickAfter ==
    IF zeroForOne /\ idx + 1 \in DOMAIN pool.ticks /\ PriceAt(idx + 1) = sqrtPrice
    THEN pool.ticks[idx + 1].index - 1
    ELSE CHOOSE t \in DOMAIN TickPrice :
            /\ TickPrice[t] <= sqrtPrice
            /\ \A u \in DOMAIN TickPrice : TickPrice[u] <= sqrtPrice => u <= t

SellBack ==
    /\ pc = "done" /\ leg = 1
    /\ pool' = [pool EXCEPT !.price = sqrtPrice, !.liquidity = liquidity, !.tick = TickAfter]
    /\ zeroForOne' = ~zeroForOne
    /\ amountIn' = amountOut /\ remaining' = amountOut
    /\ leg' = 2
    /\ pc' = "start"
    /\ amountOut' = 0 /\ idx' = 0 /\ steps' = 0
    /\ UNCHANGED <<paid, sqrtPrice, liquidity>>

Next == Reject \/ Begin \/ Dry \/ SwapStep \/ Finish \/ SellBack

Spec == Init /\ [][Next]_vars

-----------------------------------------------------------------------------
(* The tick of a pool says on which side of its price each tick lies.      *)
TickAgrees(p) ==
    \A i \in DOMAIN p.ticks :
        IF p.ticks[i].index <= p.tick THEN TickPrice[p.ticks[i].index] <= p.price
                                      ELSE p.price <= TickPrice[p.ticks[i].index]

(* The check for an overconsumed input never fires: whatever the rounding, *)
(* a step takes no more than what remains, fee included.                   *)
NeverOverconsumed == pc # "overconsumed"

(* The net liquidity of the ticks i .. j. *)
NetOf(i, j) == IF i > j THEN 0
               ELSE LET net[n \in i .. j] ==
                            pool.ticks[n].net + (IF n = i THEN 0 ELSE net[n - 1])
                    IN  net[j]

(* Where the swap is, its price lies between the ticks around it, and the  *)
(* liquidity is that of the pool changed by exactly the ticks crossed on   *)
(* the way: none twice, none missed, each with the sign of the direction.  *)
OnTheCurve ==
    pc \in {"loop", "end", "done"} =>
        LET below == IF zeroForOne THEN idx ELSE idx - 1
        IN  /\ below >= 1 => PriceAt(below) <= sqrtPrice
            /\ below < Len(pool.ticks) => sqrtPrice <= PriceAt(below + 1)
            /\ liquidity = pool.liquidity
                  + (IF zeroForOne THEN -NetOf(idx + 1, FirstTick)
                                   ELSE NetOf(FirstTick, idx - 1))

(* A quote that is answered moved the price with the trade: selling token  *)
(* 0 lowers it, selling token 1 raises it.  Each step takes its direction  *)
(* from the price it starts at and the price of the next tick, so this     *)
(* depends on the tick the search began at.                                *)
MovesWithTheTrade ==
    pc = "done" => IF zeroForOne THEN sqrtPrice <= pool.price ELSE sqrtPrice >= pool.price

(* Selling a quote's output back to the pool never returns more than was   *)
(* paid for it, whichever ticks the two swaps cross: every rounding is in  *)
(* the pool's favour.                                                      *)
NoRoundTripProfit == leg = 2 /\ pc = "done" => amountOut <= paid
=============================================================================
