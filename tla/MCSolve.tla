------------------------------ MODULE MCSolve ------------------------------
(***************************************************************************)
(* Auctions of up to MaxOrders orders from a catalogue on three tokens:    *)
(* orders that cross, that cross several others, that only a route fills,  *)
(* that nothing fills, and that are not supported.                         *)
(***************************************************************************)
EXTENDS Solve, ConstantProduct

CONSTANTS MaxOrders,   \* bound: orders of an auction
          MaxAmount    \* bound: amounts quoted

Amounts == 1 .. MaxAmount

CPPool(id, t, u, rt, ru, gas) ==
    [id |-> id, tokens |-> {t, u}, gas |-> gas,
     quote |-> (<<t, u>> :> [x \in Amounts |-> CPQuote(rt, ru, 0, 1, x)])
            @@ (<<u, t>> :> [x \in Amounts |-> CPQuote(ru, rt, 0, 1, x)])]

Entry(pool) == [kind |-> "constantProduct", pool |-> pool]
Bad         == [kind |-> "limitOrder", pool |-> NoPool]

LiquidityLists ==
    { <<>>,
      <<Entry(CPPool(1, 1, 2, 8, 16, 1)), Bad, Entry(CPPool(2, 1, 2, 9, 12, 1))>>,
      <<Entry(CPPool(3, 1, 3, 8, 8, 2)), Entry(CPPool(4, 2, 3, 16, 8, 1)),
        Entry(CPPool(5, 1, 2, 4, 8, 3))>> }

Order(uid, kind, sell, buy, sellAmount, buyAmount) ==
    [uid |-> uid, kind |-> kind, sell |-> sell, buy |-> buy,
     sellAmount |-> sellAmount, buyAmount |-> buyAmount, supported |-> TRUE]

Orders ==
    { Order(1, "sell", 1, 2, 4, 4), Order(2, "sell", 2, 1, 5, 3),
      Order(3, "sell", 2, 1, 4, 4), Order(4, "sell", 1, 2, 5, 5),
      Order(5, "buy", 1, 2, 6, 2),  Order(6, "sell", 1, 3, 4, 1),
      Order(7, "sell", 1, 2, 2, 9),
      [Order(8, "sell", 2, 1, 6, 2) EXCEPT !.supported = FALSE] }

OrderLists ==
    UNION { { s \in TupleOf(Orders, n) : IsInjective(s) } : n \in 0 .. MaxOrders }

MCAuctions ==
    [orders : OrderLists, liquidity : LiquidityLists,
     price : { [t \in 1 .. 3 |-> 2], (1 :> 3) @@ (2 :> NoPrice) @@ (3 :> 1) },
     gasPrice : {0, 1}]

MCConfigs ==
    { [overhead |-> 1, perTrade |-> 0, profitable |-> TRUE,
       maxSolutions |-> 40, maxOrders |-> 0, maxPools |-> 0],
      [overhead |-> 1, perTrade |-> 1, profitable |-> FALSE,
       maxSolutions |-> 1, maxOrders |-> 2, maxPools |-> 2],
      [overhead |-> 3, perTrade |-> 1, profitable |-> FALSE,
       maxSolutions |-> 0, maxOrders |-> 3, maxPools |-> 3] }
=============================================================================
