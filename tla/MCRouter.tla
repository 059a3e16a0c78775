------------------------------ MODULE MCRouter ------------------------------
(***************************************************************************)
(* Every ordered choice of pools from a catalogue with equal outputs,      *)
(* equal gas, a three-token pool, and gas sums that overflow.              *)
(***************************************************************************)
EXTENDS Router, ConstantProduct

CONSTANTS MaxPools,   \* bound: pools in one call
          MaxAmount   \* bound: amounts quoted

Amounts == 1 .. MaxAmount

(* A constant-product pool without fee. *)
CPPool(id, t, u, rt, ru, gas) ==
    [id |-> id, tokens |-> {t, u}, gas |-> gas,
     quote |-> (<<t, u>> :> [x \in Amounts |-> CPQuote(rt, ru, 0, 1, x)])
            @@ (<<u, t>> :> [x \in Amounts |-> CPQuote(ru, rt, 0, 1, x)])]

(* A pool of three tokens near parity, as stable pools are, in which a     *)
(* detour over token 3 would pay if the pool could be used twice.          *)
Parity(id, gas) ==
    LET cost(pair) == IF pair = <<1, 2>> THEN 3 ELSE 1
    IN  [id |-> id, tokens |-> {1, 2, 3}, gas |-> gas,
         quote |-> [pair \in {1, 2, 3} \X {1, 2, 3} |->
                       [x \in Amounts |-> IF x > cost(pair) THEN x - cost(pair)
                                          ELSE Failed]]]

Catalogue == { CPPool(1, 1, 2, 4, 8, 1), CPPool(2, 1, 2, 4, 8, 1),
               CPPool(3, 1, 3, 8, 8, 2), CPPool(4, 3, 2, 4, 16, 2),
               CPPool(5, 2, 3, 12, 6, 1), Parity(6, 1) }

PoolLists == UNION { { s \in TupleOf(Catalogue, n) : IsInjective(s) } : n \in 0 .. MaxPools }

MCCases ==
    [pools : PoolLists, sell : {1}, buy : {1, 2, 3}, amountIn : {0, 5}]
=============================================================================
