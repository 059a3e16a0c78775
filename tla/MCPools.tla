------------------------------ MODULE MCPools ------------------------------
(***************************************************************************)
(* Pools of the three kinds for PoolTrades, at widths at which their       *)
(* products overflow.                                                      *)
(***************************************************************************)
EXTENDS PoolTrades, SequencesExt

CONSTANTS Balances2, Balances3,   \* bounds: balances of pools of two and three tokens
          Amps                    \* bound: raw amplifications

-----------------------------------------------------------------------------
(* Constant-product pools, with and without a fee. *)
MCFees == { <<0, 1>>, <<1, 4>>, <<3, 4>> }
MCReserves == 0 .. 7
MCHoldings == { 0, 2, 6 }

(* Stable pools of two and three tokens: balanced and not, with equal and  *)
(* different scaling factors, one that loses the smallest balances, a weak *)
(* and a strong amplification, with and without a fee.                     *)
MCStablePools ==
    [amp : Amps, fee : { <<0, 1>>, <<1, 4>> },
     scaling : { <<4, 4>>, <<4, 9>>, <<2, 3>> }, balances : TupleOf(Balances2, 2)]
    \cup
    [amp : Amps, fee : { <<0, 1>> },
     scaling : { <<4, 4, 4>>, <<4, 6, 4>> }, balances : TupleOf(Balances3, 3)]

(* Concentrated pools around the middle of a small price scale, with gaps, *)
(* with one and two positions, without a fee and with one of a quarter.    *)
MCTickPrice == [t \in 0 .. 6 |-> 4 + 3 * t]

Tick(index, net) == [index |-> index, net |-> net]

Ladders == { <<>>,
             <<Tick(1, 4), Tick(5, -4)>>,
             <<Tick(1, 2), Tick(2, 3), Tick(4, -3), Tick(5, -2)>>,
             <<Tick(2, 4), Tick(3, -2), Tick(4, -2)>> }

(* The liquidity of a pool at a tick: of the positions around it. *)
NetUpTo(ladder, tick) ==
    FoldLeft(LAMBDA net, t : net + (IF t.index <= tick THEN t.net ELSE 0), 0, ladder)

ConsistentPools ==
    UNION { { [price |-> price, tick |-> (price - 4) \div 3, ticks |-> ladder, pips |-> pips,
               liquidity |-> IF ladder = <<>> THEN 5 ELSE NetUpTo(ladder, (price - 4) \div 3)]
              : ladder \in Ladders } : price \in 4 .. 21, pips \in {0, 2, 8} }

(* Pools as buildPool lets them in: the tick is any tick, whatever the     *)
(* price says.                                                             *)
AnyTickPools == { [p EXCEPT !.tick = t] : p \in ConsistentPools, t \in 0 .. 6 }

-----------------------------------------------------------------------------
ASSUME ScalesAssumption ==
    /\ SwapMathAssumption /\ ConcentratedAssumption
    /\ \A p \in ConsistentPools : TickAgrees(p)
=============================================================================
