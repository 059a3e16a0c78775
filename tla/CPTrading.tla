----------------------------- MODULE CPTrading -----------------------------
(***************************************************************************)
(* A constant-product pool whose swaps settle at the amounts the engine    *)
(* quotes: hopsToInteractions tells the settlement to put amountIn into    *)
(* the pool and to take the quoted output out.  One party trades back and  *)
(* forth in any order and amounts.                                         *)
(***************************************************************************)
EXTENDS ConstantProduct

CONSTANTS Reserves,   \* initial reserves
          Holdings,   \* initial holdings of the trader
          Fees        \* fee fractions <<numerator, denominator>>

ASSUME TradingAssumption ==
    /\ Reserves \subseteq Nat /\ Holdings \subseteq Nat
    /\ Fees \subseteq Nat \X (Nat \ {0})

VARIABLES
    fee,
    reserveA, reserveB,   \* the pool
    holdA, holdB,         \* the trader
    start                 \* history: reserves and holdings at the beginning

tradingVars == <<fee, reserveA, reserveB, holdA, holdB, start>>

TradingInit ==
    /\ fee \in Fees
    /\ reserveA \in Reserves /\ reserveB \in Reserves
    /\ holdA \in Holdings /\ holdB \in Holdings
    /\ start = [ra |-> reserveA, rb |-> reserveB, ha |-> holdA, hb |-> holdB]

SellA(x) ==
    LET out == CPQuote(reserveA, reserveB, fee[1], fee[2], x)
    IN  /\ x <= holdA /\ out # Err
        /\ reserveA' = reserveA + x /\ holdA' = holdA - x
        /\ reserveB' = reserveB - out /\ holdB' = holdB + out
        /\ UNCHANGED <<fee, start>>

SellB(x) ==
    LET out == CPQuote(reserveB, reserveA, fee[1], fee[2], x)
    IN  /\ x <= holdB /\ out # Err
        /\ reserveB' = reserveB + x /\ holdB' = holdB - x
        /\ reserveA' = reserveA - out /\ holdA' = holdA + out
        /\ UNCHANGED <<fee, start>>

TradingNext ==
    \/ \E x \in 1 .. holdA : SellA(x)
    \/ \E x \in 1 .. holdB : SellB(x)

TradingSpec == TradingInit /\ [][TradingNext]_tradingVars

-----------------------------------------------------------------------------
(* No sequence of swaps at quoted amounts makes money: the trader never    *)
(* holds as much of both tokens as at the start and more of one.  Rounding *)
(* is always in the pool's favour.                                         *)
NoFreeLunch ==
    ~ /\ holdA >= start.ha /\ holdB >= start.hb
      /\ holdA > start.ha \/ holdB > start.hb
=============================================================================
