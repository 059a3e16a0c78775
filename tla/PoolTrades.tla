----------------------------- MODULE PoolTrades -----------------------------
(***************************************************************************)
(* Trading with the three kinds of pools, one kind per behaviour.  The     *)
(* machines of the other two kinds are idle.  The stable pools have an     *)
(* arithmetic of their own width.                                          *)
(***************************************************************************)
EXTENDS CPTrading, Concentrated

CONSTANTS Kinds,               \* the kinds traded with
          StableWidth, FpOne, AmpPrecision, MaxIterations,
          StablePools, StableHoldings

VARIABLES kind, sPool, sHold, sStart

St == INSTANCE StableTrading WITH
          MaxU256 <- StableWidth, Pools <- StablePools, Holdings <- StableHoldings,
          pool <- sPool, hold <- sHold, start <- sStart

ASSUME StablePoolsAssumption ==
    /\ StableWidth \in Nat \ {0}
    /\ St!StableAssumption /\ St!TradingAssumption

stableVars == <<sPool, sHold, sStart>>
poolsVars  == <<kind, tradingVars, stableVars, vars>>

-----------------------------------------------------------------------------
(* A pool nobody trades with. *)
CPIdle ==
    /\ fee = <<0, 1>> /\ reserveA = 0 /\ reserveB = 0 /\ holdA = 0 /\ holdB = 0
    /\ start = [ra |-> 0, rb |-> 0, ha |-> 0, hb |-> 0]

StableIdle == sPool = "idle" /\ sHold = "idle" /\ sStart = "idle"

TickIdle ==
    /\ pool = "idle" /\ zeroForOne = FALSE /\ amountIn = 0 /\ pc = "idle"
    /\ leg = 0 /\ paid = 0
    /\ sqrtPrice = 0 /\ liquidity = 0 /\ remaining = 0 /\ amountOut = 0 /\ idx = 0 /\ steps = 0

PoolsInit ==
    /\ kind \in Kinds
    /\ \/ kind = "constantProduct" /\ TradingInit /\ StableIdle /\ TickIdle
       \/ kind = "stable" /\ St!Init /\ CPIdle /\ TickIdle
       \/ kind = "concentrated" /\ Init /\ CPIdle /\ StableIdle

PoolsNext ==
    \/ kind = "constantProduct" /\ TradingNext /\ UNCHANGED <<kind, stableVars, vars>>
    \/ kind = "stable" /\ St!Next /\ UNCHANGED <<kind, tradingVars, vars>>
    \/ kind = "concentrated" /\ Next /\ UNCHANGED <<kind, tradingVars, stableVars>>

PoolsSpec == PoolsInit /\ [][PoolsNext]_poolsVars

-----------------------------------------------------------------------------
(* No sequence of swaps at the quotes of a stable pool makes money, over   *)
(* two tokens or around three.                                             *)
NoProfitFromSwaps == kind = "stable" => St!NoProfitFromSwaps

(* A quote of a stable pool is an amount or an error, never neither.       *)
AmountOrError == kind = "stable" => St!AmountOrError

(* A swap never lowers the invariant D of a stable pool.                   *)
ValueNeverFalls == [][kind = "stable" => St!ValueKept]_poolsVars
=============================================================================
