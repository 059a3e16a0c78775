------------------------------- MODULE Solve -------------------------------
(***************************************************************************)
(* solve.Solve: one auction from the liquidity it brings to the solutions  *)
(* it is answered with.  Two passes share the orders: coincidences of      *)
(* wants, then one route per order left.  The auction's deadline (ctx) may *)
(* pass between any two steps, and every loop looks at it.                 *)
(*                                                                         *)
(* A liquidity entry is [kind, pool], pool = NoPool when buildPool refuses *)
(* it.  An order is [uid, kind, sell, buy, sellAmount, buyAmount,          *)
(* supported]; supported is false for the features eligible skips.  Amounts*)
(* are positive: the server's validateAuction refuses others.  Routes are  *)
(* those of Graph; Router shows how the loops find the best one.           *)
(***************************************************************************)
EXTENDS Graph

CONSTANTS
    Auctions,            \* [orders, liquidity, price, gasPrice]
    Configs,             \* [overhead, perTrade, profitable, maxSolutions, maxOrders, maxPools]
    DefaultMaxOrders,    \* 250 in the code
    DefaultMaxPools,     \* 2048 in the code
    Iterations,          \* the bound on minInputFor's loop, 256 in the code
    PriceUnit            \* reference prices are per PriceUnit of a token, 10^18 in the code

NoPool  == [id |-> 0]
NoPrice == -1            \* no usable reference price

(* An auction the server's validateAuction lets through (Admission shows   *)
(* it as FitToSolve), its liquidity already parsed.                        *)
AuctionOK(a) ==
    /\ Listed(a.orders) /\ Listed(a.liquidity)
    /\ \A i \in DOMAIN a.orders :
          LET o == a.orders[i]
          IN  /\ o.kind \in {"sell", "buy"} /\ {o.sell, o.buy} \subseteq 0 .. KeyBase - 1
              /\ {o.sellAmount, o.buyAmount} \subseteq Nat \ {0}
              /\ \A j \in DOMAIN a.orders : o.uid = a.orders[j].uid => i = j
    /\ \A i \in DOMAIN a.liquidity :
          LET p == a.liquidity[i].pool
          IN  p # NoPool => /\ PoolOK(p)
                            /\ \A j \in DOMAIN a.liquidity :
                                  /\ a.liquidity[j].pool # NoPool
                                  /\ a.liquidity[j].pool.id = p.id
                                  => i = j

ASSUME SolveAssumption ==
    /\ {DefaultMaxOrders, DefaultMaxPools, Iterations, PriceUnit} \subseteq Nat \ {0}
    /\ \A a \in Auctions : AuctionOK(a)
    /\ \A c \in Configs : {c.maxOrders, c.maxPools, c.maxSolutions} \subseteq Int

VARIABLES
    auction, cfg,        \* the arguments
    expired,             \* ctx.Err() != nil
    pc,                  \* the stage: pools, graph, pair, take, route, done
    k,                   \* the next element of the stage's loop
    pools,               \* the pools built
    graph,               \* NewGraph(pools)
    skipped,             \* PoolsSkipped by reason
    orders,              \* the eligible orders
    unsupported,         \* how many orders were not
    matches,             \* pairs of indices into orders
    matched,             \* orders settled by a coincidence of wants
    solutions,
    stats                \* cow, routes, noRoute, limit, unprofitable

vars == <<auction, cfg, expired, pc, k, pools, graph, skipped, orders, unsupported,
          matches, matched, solutions, stats>>

NoStats == [cow |-> 0, routes |-> 0, noRoute |-> 0, limit |-> 0, unprofitable |-> 0]

Count(field, n) == stats' = [stats EXCEPT ![field] = @ + n]

Stage(stage) == pc' = stage /\ k' = 1

OrDefault(n, default) == IF n <= 0 THEN default ELSE n

Init ==
    /\ auction \in Auctions /\ cfg \in Configs
    /\ expired = FALSE
    /\ pc = "pools" /\ k = 1
    /\ pools = <<>> /\ graph = NewGraph(<<>>)
    /\ LET over == Len(auction.liquidity) - OrDefault(cfg.maxPools, DefaultMaxPools)
       IN  skipped = [resourceLimit |-> IF over > 0 THEN over ELSE 0,
                      cancelled |-> 0, kind |-> 0]
    /\ orders = <<>> /\ unsupported = 0 /\ matches = <<>> /\ matched = {}
    /\ solutions = <<>> /\ stats = NoStats

-----------------------------------------------------------------------------
(***************************************************************************)
(* BuildPoolsContext, NewGraph and eligible.                               *)
(***************************************************************************)
limit == Len(auction.liquidity) - skipped.resourceLimit

BuildPool ==
    /\ pc = "pools" /\ ~expired /\ k <= limit
    /\ LET pool == auction.liquidity[k].pool
       IN  IF pool = NoPool
           THEN skipped' = [skipped EXCEPT !.kind = @ + 1] /\ UNCHANGED pools
           ELSE pools' = Append(pools, pool) /\ UNCHANGED skipped
    /\ k' = k + 1
    /\ UNCHANGED <<auction, cfg, expired, pc, graph, orders, unsupported, matches, matched,
                   solutions, stats>>

(* Mutant: the entries not reached before the deadline are forgotten. *)
PoolsCancelled_forgets ==
    /\ pc = "pools" /\ expired
    /\ pc' = "done"
    /\ UNCHANGED <<auction, cfg, expired, k, pools, graph, skipped, orders, unsupported,
                   matches, matched, solutions, stats>>

(* The deadline passes in the loop or right after it: Solve returns. *)
PoolsCancelled ==
    /\ pc = "pools" /\ expired
    /\ skipped' = [skipped EXCEPT !.cancelled = limit - (k - 1)]
    /\ pc' = "done"
    /\ UNCHANGED <<auction, cfg, expired, k, pools, graph, orders, unsupported,
                   matches, matched, solutions, stats>>

PoolsBuilt ==
    /\ pc = "pools" /\ ~expired /\ k > limit
    /\ Stage("graph")
    /\ UNCHANGED <<auction, cfg, expired, pools, graph, skipped, orders, unsupported,
                   matches, matched, solutions, stats>>

GraphCancelled ==
    /\ pc = "graph" /\ expired
    /\ pc' = "done"
    /\ UNCHANGED <<auction, cfg, expired, k, pools, graph, skipped, orders, unsupported,
                   matches, matched, solutions, stats>>

Supported(o) == o.supported /\ o.sell # o.buy

(* The first max supported orders, and how many unsupported ones were seen *)
(* before the loop stopped.                                                *)
Eligible(all, max) ==
    LET upTo[n \in 0 .. Len(all)] ==
            IF n = 0 THEN [orders |-> <<>>, unsupported |-> 0]
            ELSE LET e == upTo[n - 1]
                 IN  IF Len(e.orders) >= max THEN e
                     ELSE IF Supported(all[n])
                     THEN [orders |-> Append(e.orders, all[n]), unsupported |-> e.unsupported]
                     ELSE [orders |-> e.orders, unsupported |-> e.unsupported + 1]
    IN  upTo[Len(all)]

MakeGraph ==
    /\ pc = "graph" /\ ~expired
    /\ graph' = NewGraph(pools)
    /\ LET e == Eligible(auction.orders, OrDefault(cfg.maxOrders, DefaultMaxOrders))
       IN  orders' = e.orders /\ unsupported' = e.unsupported
    /\ Stage("pair")
    /\ UNCHANGED <<auction, cfg, expired, pools, skipped, matches, matched, solutions, stats>>

-----------------------------------------------------------------------------
(***************************************************************************)
(* findCoWMatchesContext.  The buckets of sell orders are visited in the   *)
(* order of their pairs, and only from the side that sells the smaller     *)
(* token; each order takes the first free one of the reverse bucket that   *)
(* crosses it.                                                             *)
(***************************************************************************)
Used == UNION { { matches[a][1], matches[a][2] } : a \in DOMAIN matches }

Queue(os) ==
    LET sellers == { i \in DOMAIN os : os[i].kind = "sell" /\ os[i].sell < os[i].buy }
        before(a, b) == \/ a.sell < b.sell
                        \/ a.sell = b.sell /\ a.buy < b.buy
        same(a, b)   == a.sell = b.sell /\ a.buy = b.buy
    IN  Sorted(sellers, { ij \in sellers \X sellers :
                            \/ before(os[ij[1]], os[ij[2]])
                            \/ same(os[ij[1]], os[ij[2]]) /\ ij[1] < ij[2] })

Crosses(a, b) ==
    /\ a.kind = "sell" /\ b.kind = "sell" /\ a.sell = b.buy /\ a.buy = b.sell
    /\ b.sellAmount >= a.buyAmount /\ a.sellAmount >= b.buyAmount

(* Mutant: only the first order of the reverse bucket is looked at. *)
Partners_first_only(i) ==
    LET reverse == { j \in DOMAIN orders \ Used : orders[j].kind = "sell"
                         /\ orders[j].sell = orders[i].buy /\ orders[j].buy = orders[i].sell }
    IN  { j \in reverse : Crosses(orders[i], orders[j]) /\ \A h \in reverse : j <= h }

Partners(i) == { j \in DOMAIN orders \ Used : Crosses(orders[i], orders[j]) }

Pair ==
    LET queue == Queue(orders)
    IN  /\ pc = "pair" /\ ~expired /\ k <= Len(queue)
        /\ LET free == Partners(queue[k])
           IN  IF free = {} THEN UNCHANGED matches
               ELSE matches' = Append(matches, <<queue[k], Min(free)>>)
        /\ k' = k + 1
        /\ UNCHANGED <<auction, cfg, expired, pc, pools, graph, skipped, orders, unsupported,
                       matched, solutions, stats>>

(* An expired deadline returns the matches found, and the loop over them   *)
(* breaks at once.                                                         *)
Paired ==
    /\ pc = "pair" /\ (expired \/ k > Len(Queue(orders)))
    /\ Stage("take")
    /\ UNCHANGED <<auction, cfg, expired, pools, graph, skipped, orders, unsupported,
                   matches, matched, solutions, stats>>

-----------------------------------------------------------------------------
(***************************************************************************)
(* Pass 1: the matches that pay for their gas.                             *)
(***************************************************************************)
toNative(amount, token) ==
    IF auction.price[token] = NoPrice THEN NoPrice
    ELSE (amount * auction.price[token]) \div PriceUnit

profitable(surplus, token, gas) ==
    LET native == toNative(surplus, token)
    IN  surplus > 0 /\ (native = NoPrice \/ native > gas * auction.gasPrice)

cowProfitable(a, b, gas) ==
    LET surplusA == b.sellAmount - a.buyAmount
        surplusB == a.sellAmount - b.buyAmount
        valueA   == toNative(surplusA, a.buy)
        valueB   == toNative(surplusB, b.buy)
    IN  /\ surplusA >= 0 /\ surplusB >= 0
        /\ IF valueA = NoPrice \/ valueB = NoPrice
           THEN surplusA > 0 \/ surplusB > 0
           ELSE valueA + valueB > gas * auction.gasPrice

Trade(o, executed) == [order |-> o.uid, executed |-> executed]

(* The clearing prices of an order's two tokens. *)
Prices(o, ofSell, ofBuy) == [t \in {o.sell, o.buy} |-> IF t = o.sell THEN ofSell ELSE ofBuy]

MatchSolution(id, a, b, gas) ==
    [id |-> id,
     prices |-> Prices(a, b.sellAmount, a.sellAmount),
     trades |-> <<Trade(a, a.sellAmount), Trade(b, b.sellAmount)>>,
     interactions |-> <<>>, gas |-> gas]

DropMatch == Count("unprofitable", 2)

TakeMatch ==
    /\ pc = "take" /\ ~expired /\ k <= Len(matches)
    /\ LET a   == orders[matches[k][1]]
           b   == orders[matches[k][2]]
           gas == sumGas(sumGas(cfg.overhead, cfg.perTrade), cfg.perTrade)
       IN  IF gas = Failed \/ (cfg.profitable /\ ~cowProfitable(a, b, gas))
           THEN DropMatch /\ UNCHANGED <<solutions, matched>>
           ELSE /\ solutions' = Append(solutions, MatchSolution(Len(solutions), a, b, gas))
                /\ matched' = matched \cup { a.uid, b.uid }
                /\ Count("cow", 1)
    /\ k' = k + 1
    /\ UNCHANGED <<auction, cfg, expired, pc, pools, graph, skipped, orders, unsupported, matches>>

Taken ==
    /\ pc = "take" /\ (expired \/ k > Len(matches))
    /\ Stage("route")
    /\ UNCHANGED <<auction, cfg, expired, pools, graph, skipped, orders, unsupported,
                   matches, matched, solutions, stats>>

-----------------------------------------------------------------------------
(***************************************************************************)
(* Pass 2: routes for the orders left.  routeOrder answers a drop reason   *)
(* or the solution with the surplus and the token it is in.                *)
(***************************************************************************)
(* minInputFor: the binary search, and the route of the last probe that    *)
(* buys want.  That its bound never cuts it short is MinInput's subject.   *)
minInputFor(sell, buy, want, maxIn) ==
    LET probe(x) == BestRoute(graph, sell, buy, x)
        narrow[s \in [lo : 1 .. maxIn + 1, hi : 0 .. maxIn, best : 1 .. maxIn]] ==
            LET mid == (s.lo + s.hi) \div 2
            IN  IF s.lo > s.hi THEN s
                ELSE IF probe(mid).out < want
                THEN [lo |-> mid + 1, hi |-> s.hi, best |-> s.best]
                ELSE [lo |-> s.lo, hi |-> mid - 1, best |-> mid]
        after[n \in 0 .. Iterations] ==
            IF n = 0 THEN [lo |-> 1, hi |-> maxIn, best |-> maxIn] ELSE narrow[after[n - 1]]
        in == after[Iterations].best
    IN  IF probe(maxIn).out < want THEN [in |-> 0, route |-> NoRoute]
        ELSE [in |-> in, route |-> probe(in)]

hopsToInteractions(route) == route.hops

(* The input and the route an order is to be filled with. *)
RouteFor(o) ==
    IF o.kind = "buy" THEN minInputFor(o.sell, o.buy, o.buyAmount, o.sellAmount)
    ELSE [in |-> o.sellAmount, route |-> BestRoute(graph, o.sell, o.buy, o.sellAmount)]

(* Mutant: a buy order pays its whole limit, whatever the route takes. *)
routeBuy_pays_limit(o, found) ==
    LET gas == sumGas(sumGas(cfg.overhead, cfg.perTrade), found.route.gas)
    IN  IF found.route = NoRoute \/ gas = Failed THEN [why |-> "noRoute"]
        ELSE [why |-> "ok", surplus |-> o.sellAmount - found.in, token |-> o.sell, gas |-> gas,
              prices |-> Prices(o, o.buyAmount, o.sellAmount),
              trades |-> <<Trade(o, o.buyAmount)>>,
              interactions |-> hopsToInteractions(found.route)]

routeBuy(o, found) ==
    LET gas == sumGas(sumGas(cfg.overhead, cfg.perTrade), found.route.gas)
    IN  IF found.route = NoRoute \/ gas = Failed THEN [why |-> "noRoute"]
        ELSE [why |-> "ok", surplus |-> o.sellAmount - found.in, token |-> o.sell, gas |-> gas,
              prices |-> Prices(o, o.buyAmount, found.in),
              trades |-> <<Trade(o, o.buyAmount)>>,
              interactions |-> hopsToInteractions(found.route)]

routeSell(o, found) ==
    LET route == found.route
        gas   == sumGas(sumGas(cfg.overhead, cfg.perTrade), route.gas)
    IN  IF route = NoRoute THEN [why |-> "noRoute"]
        ELSE IF route.out < o.buyAmount THEN [why |-> "limit"]
        ELSE IF gas = Failed THEN [why |-> "noRoute"]
        ELSE [why |-> "ok", surplus |-> route.out - o.buyAmount, token |-> o.buy, gas |-> gas,
              prices |-> Prices(o, route.out, o.sellAmount),
              trades |-> <<Trade(o, o.sellAmount)>>,
              interactions |-> hopsToInteractions(route)]

routeOrder(o, found) == IF o.kind = "buy" THEN routeBuy(o, found) ELSE routeSell(o, found)

(* Mutant: orders settled in pass 1 are routed again. *)
Skips_none(o) == FALSE

Skips(o) == o.uid \in matched

Answer(r) ==
    IF r.why # "ok" THEN Count(r.why, 1) /\ UNCHANGED solutions
    ELSE IF cfg.profitable /\ ~profitable(r.surplus, r.token, r.gas)
    THEN Count("unprofitable", 1) /\ UNCHANGED solutions
    ELSE /\ solutions' = Append(solutions,
                [id |-> Len(solutions), prices |-> r.prices, trades |-> r.trades,
                 interactions |-> r.interactions, gas |-> r.gas])
         /\ Count("routes", 1)

RouteNext ==
    /\ pc = "route" /\ ~expired /\ k <= Len(orders)
    /\ \/ Skips(orders[k]) /\ UNCHANGED <<solutions, stats>>
       \/ /\ ~Skips(orders[k])
          /\ \E found \in { RouteFor(orders[k]) } :
             \E r \in { routeOrder(orders[k], found) } : Answer(r)
    /\ k' = k + 1
    /\ UNCHANGED <<auction, cfg, expired, pc, pools, graph, skipped, orders, unsupported,
                   matches, matched>>

(* Mutant: the loop does not look at the deadline. *)
Routed_ignores_deadline == pc = "route" /\ k > Len(orders)

(* Expired: also when the deadline passes inside routeOrder, whose partial *)
(* work is discarded (reasonCancelled).                                    *)
Routed == pc = "route" /\ (expired \/ k > Len(orders))

Cap(all, max) == IF max <= 0 THEN <<>> ELSE Prefix(all, max)

Finish ==
    /\ Routed
    /\ solutions' = Cap(solutions, cfg.maxSolutions)
    /\ pc' = "done"
    /\ UNCHANGED <<auction, cfg, expired, k, pools, graph, skipped, orders, unsupported,
                   matches, matched, stats>>

(* The deadline passes, or the client goes away. *)
Expire ==
    /\ ~expired /\ pc # "done"
    /\ expired' = TRUE
    /\ UNCHANGED <<auction, cfg, pc, k, pools, graph, skipped, orders, unsupported,
                   matches, matched, solutions, stats>>

Step ==
    \/ BuildPool \/ PoolsCancelled \/ PoolsBuilt \/ GraphCancelled \/ MakeGraph
    \/ Pair \/ Paired \/ TakeMatch \/ Taken \/ RouteNext \/ Finish

Next == Step \/ Expire

Spec == Init /\ [][Next]_vars /\ WF_vars(Step)

-----------------------------------------------------------------------------
(***************************************************************************)
(* What a solution executes, as the settlement contract reads it: a trade  *)
(* fixes one side and the clearing prices give the other.                  *)
(***************************************************************************)
OrderOf(trade) == auction.orders[CHOOSE i \in DOMAIN auction.orders :
                                    auction.orders[i].uid = trade.order]

Sold(s, trade) ==
    LET o == OrderOf(trade)
    IN  IF o.kind = "sell" THEN trade.executed
        ELSE (trade.executed * s.prices[o.buy]) \div s.prices[o.sell]

Bought(s, trade) ==
    LET o == OrderOf(trade)
    IN  IF o.kind = "buy" THEN trade.executed
        ELSE (trade.executed * s.prices[o.sell]) \div s.prices[o.buy]

Total(amounts) ==
    LET upTo[n \in 0 .. Len(amounts)] == IF n = 0 THEN 0 ELSE upTo[n - 1] + amounts[n]
    IN  upTo[Len(amounts)]

(* What comes into the settlement of token t, and what goes out of it. *)
Inflow(s, t) ==
    Total([j \in DOMAIN s.trades |->
              IF OrderOf(s.trades[j]).sell = t THEN Sold(s, s.trades[j]) ELSE 0])
    + Total([h \in DOMAIN s.interactions |->
              IF s.interactions[h].tokenOut = t THEN s.interactions[h].out ELSE 0])

Outflow(s, t) ==
    Total([j \in DOMAIN s.trades |->
              IF OrderOf(s.trades[j]).buy = t THEN Bought(s, s.trades[j]) ELSE 0])
    + Total([h \in DOMAIN s.interactions |->
              IF s.interactions[h].tokenIn = t THEN s.interactions[h].amountIn ELSE 0])

(* The test's assertSettlementBalances: a trade is at exactly the clearing *)
(* prices, respects its order's limits and fills it whole.                 *)
TradesFair(s) ==
    \A j \in DOMAIN s.trades :
        LET tr == s.trades[j]
            o  == OrderOf(tr)
        IN  /\ Sold(s, tr) * s.prices[o.sell] = Bought(s, tr) * s.prices[o.buy]
            /\ Sold(s, tr) <= o.sellAmount /\ Bought(s, tr) >= o.buyAmount
            /\ IF o.kind = "sell" THEN Sold(s, tr) = o.sellAmount
                                  ELSE Bought(s, tr) = o.buyAmount

(* No token is paid out that did not come in, in total over trades and     *)
(* pools; and nothing is left behind, except what a buy order's route      *)
(* yields beyond the amount it asks for.                                   *)
Balances(s) ==
    \A t \in DOMAIN auction.price :
        /\ Inflow(s, t) >= Outflow(s, t)
        /\ Inflow(s, t) > Outflow(s, t) =>
              \E j \in DOMAIN s.trades :
                 OrderOf(s.trades[j]).kind = "buy" /\ OrderOf(s.trades[j]).buy = t

(* Every solution settles, at any time: its trades are fair, its tokens    *)
(* balance, and no pool is used at a quote that its own earlier            *)
(* interaction has made stale.                                             *)
Settles ==
    \A i \in DOMAIN solutions :
        LET s == solutions[i]
        IN  /\ TradesFair(s) /\ Balances(s)
            /\ \A g, h \in DOMAIN s.interactions :
                    s.interactions[g].pool = s.interactions[h].pool => g = h

(* The solutions of one answer exclude one another nowhere: no order is    *)
(* traded twice, in one solution or in two, although both passes see every *)
(* order; and the ids number them, so that a notification names one.       *)
EachOrderOnce ==
    \A i, j \in DOMAIN solutions :
        /\ \A g \in DOMAIN solutions[i].trades, h \in DOMAIN solutions[j].trades :
              solutions[i].trades[g].order = solutions[j].trades[h].order => i = j /\ g = h
        /\ solutions[i].id = i - 1

(* When the matching is complete no two sell orders left would have        *)
(* crossed, although only one side of each pair of tokens is walked.       *)
MatchingMaximal ==
    pc \in {"take", "route"} /\ ~expired =>
        \A i, j \in DOMAIN orders \ Used : ~Crosses(orders[i], orders[j])

(* Every liquidity entry is accounted for in the stats, as a pool or under *)
(* a reason, also when the limit or the deadline cuts the list.            *)
PoolsAccounted ==
    pc = "done" => Len(pools) + skipped.resourceLimit + skipped.cancelled + skipped.kind
                       = Len(auction.liquidity)

Reported == 2 * stats.cow + stats.routes + stats.noRoute + stats.limit + stats.unprofitable

(* No order disappears between the passes: when the deadline is met each   *)
(* one is settled or counted under a reason, those of a dropped match once *)
(* for the match and once more for their own route.                        *)
NoOrderLost ==
    pc = "done" /\ ~expired =>
        Reported = Len(orders) + 2 * (Len(matches) - stats.cow)

(* What the stats say adds up, for pools and for orders.                   *)
StatsAddUp == PoolsAccounted /\ NoOrderLost

(* "Stats count orders, not candidate solutions": every order once. *)
StatsCountOrders == pc = "done" /\ ~expired => Reported = Len(orders)

(* Solve returns, whenever the deadline passes. *)
Terminates == <>(pc = "done")
=============================================================================
