--------------------------- MODULE StableTrading ---------------------------
(***************************************************************************)
(* A stable pool whose swaps settle at the amounts the engine quotes, as   *)
(* in CPTrading, between any two of its tokens.                            *)
(***************************************************************************)
EXTENDS StableMath

CONSTANTS Pools,       \* initial pools
          Holdings     \* initial holdings of the trader, per token

(* Amounts are whole numbers; the rest of a pool is checked by the quote. *)
TradingAssumption ==
    /\ Holdings \subseteq Nat
    /\ \A p \in Pools :
          /\ p.amp \in Int /\ p.fee \in Int \X Int
          /\ p.balances \in Seq(Int) /\ p.scaling \in [DOMAIN p.balances -> Int]

VARIABLES
    pool,
    hold,     \* what the trader holds of each token
    start     \* history: the holdings at the beginning

vars == <<pool, hold, start>>

Tokens == DOMAIN pool.balances

Init ==
    /\ pool \in Pools
    /\ hold \in [Tokens -> Holdings]
    /\ start = hold

Swap(i, o, x) ==
    \E out \in { quoteStableIndexed(pool, i, o, x) } :
        /\ out > 0
        /\ pool' = [pool EXCEPT !.balances[i] = @ + x, !.balances[o] = @ - out]
        /\ hold' = [hold EXCEPT ![i] = @ - x, ![o] = @ + out]
        /\ UNCHANGED start

Next == \E i, o \in Tokens : \E x \in 1 .. hold[i] : Swap(i, o, x)

Spec == Init /\ [][Next]_vars

-----------------------------------------------------------------------------
(* No sequence of swaps at quoted amounts makes money, over two tokens or  *)
(* around three: fee, scaling and both iterations round for the pool, or   *)
(* the final unit taken off the output covers what they do not.            *)
NoProfitFromSwaps ==
    ~ /\ \A t \in Tokens : hold[t] >= start[t]
      /\ \E t \in Tokens : hold[t] > start[t]

Value(p) == IF \E i \in DOMAIN p.balances : Scaled(p)[i] = Err THEN Err
            ELSE stableInvariant(p.amp, Scaled(p))

(* A swap never lowers the invariant D, what the liquidity is worth, as    *)
(* far as the width lets it be computed afterwards: the Newton iterations  *)
(* stop within one of each other, not at a root, and the rounding of the   *)
(* two must not add up against the pool.                                   *)
ValueKept == Value(pool') = Err \/ Value(pool') >= Value(pool)

(* A quote is an amount or an error, never neither: quoteStableIndexed     *)
(* returns err, which is nil then, for an invariant of zero, and the       *)
(* router would use the missing amount.                                    *)
AmountOrError ==
    \A i, o \in Tokens : \A x \in 1 .. hold[i] :
        quoteStableIndexed(pool, i, o, x) # NilNil
=============================================================================
