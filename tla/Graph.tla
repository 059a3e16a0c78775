-------------------------------- MODULE Graph --------------------------------
(***************************************************************************)
(* The pool graph of internal/solve/route.go: the index of pools by token, *)
(* the pivot tokens of two-hop routes, and the order on routes.            *)
(* A pool is [id, tokens, gas, quote]: quote[<<t, u>>][x] is what          *)
(* QuoteExactInPair answers for input x, Failed for an error.  Tokens and  *)
(* ids are naturals ordered as the code orders their strings.              *)
(***************************************************************************)
EXTENDS Integers, FiniteSets, SequencesExt

CONSTANTS
    MaxIntermediates,   \* maxIntermediates, 12 in the code
    MaxPoolsPerToken,   \* maxPoolsPerToken, 24 in the code
    MaxUint64,          \* the largest gas amount
    KeyBase             \* larger than every token and pool id

ASSUME GraphAssumption ==
    /\ {MaxIntermediates, MaxPoolsPerToken, MaxUint64, KeyBase} \subseteq Nat \ {0}

Failed == -1            \* a quote or a sum that is an error

(* An amount and not an error: no pool quotes a zero output. *)
Quoted(q) == q \in Nat \ {0}

Prefix(s, n) == IF Len(s) > n THEN SubSeq(s, 1, n) ELSE s

(* sort.Slice: the elements of S, in the order of the relation R. *)
Sorted(S, R) ==
    CHOOSE q \in [1 .. Cardinality(S) -> S] :
        /\ \A x \in S : \E a \in 1 .. Cardinality(S) : q[a] = x
        /\ \A a, b \in 1 .. Cardinality(S) : a < b => <<q[a], q[b]>> \in R

TokensOf(pools) == UNION { pools[i].tokens : i \in DOMAIN pools }

(* The pools with token t, in their order. *)
PoolsWith(pools, t) ==
    LET upTo[n \in 0 .. Len(pools)] ==
            IF n = 0 THEN <<>>
            ELSE IF t \in pools[n].tokens THEN Append(upTo[n - 1], pools[n])
            ELSE upTo[n - 1]
    IN  upTo[Len(pools)]

(* Tokens of at least two pools, best connected first, ties by name. *)
Pivots(byToken) ==
    LET pivots == { t \in DOMAIN byToken : Len(byToken[t]) >= 2 }
    IN  Sorted(pivots, { tu \in pivots \X pivots :
                           LET n == Len(byToken[tu[1]])
                               m == Len(byToken[tu[2]])
                           IN  n > m \/ (n = m /\ tu[1] < tu[2]) })

NewGraph(pools) ==
    LET byToken == [t \in TokensOf(pools) |-> PoolsWith(pools, t)]
    IN  [byToken |-> byToken, intermediates |-> Prefix(Pivots(byToken), MaxIntermediates)]

poolsFor(graph, t) ==
    IF t \in DOMAIN graph.byToken THEN Prefix(graph.byToken[t], MaxPoolsPerToken) ELSE <<>>

Supports(p, t, u) == t # u /\ t \in p.tokens /\ u \in p.tokens

(* Pools as BuildPoolsContext makes them: ids are unique (the server's     *)
(* validateAuction refuses others), keys wide enough for ids and tokens.   *)
PoolOK(p) ==
    p.id \in 0 .. KeyBase - 1 /\ p.gas \in Nat /\ p.tokens \subseteq 0 .. KeyBase - 1

Listed(s) == Len(s) \in Nat /\ s = [i \in 1 .. Len(s) |-> s[i]]

PoolList(pools) ==
    /\ Listed(pools)
    /\ \A i \in DOMAIN pools :
          PoolOK(pools[i]) /\ \A j \in DOMAIN pools : pools[i].id = pools[j].id => i = j

sumGas(a, b) ==
    IF a # Failed /\ b # Failed /\ b <= MaxUint64 - a THEN a + b ELSE Failed

-----------------------------------------------------------------------------
NoRoute == [hops |-> <<>>, out |-> 0, gas |-> 0, key |-> 0]

Hop(p, t, u, amountIn, out) ==
    [pool |-> p.id, tokenIn |-> t, tokenOut |-> u, amountIn |-> amountIn, out |-> out]

(* routeKey: the hops' pool and tokens, compared as one string. *)
hopKey(h) == (h.pool * KeyBase + h.tokenIn) * KeyBase + h.tokenOut

routeKey(hops) ==
    hopKey(hops[1]) * KeyBase * KeyBase * KeyBase
        + (IF Len(hops) = 2 THEN hopKey(hops[2]) ELSE 0)

MakeRoute(hops, out, gas) ==
    [hops |-> hops, out |-> out, gas |-> gas, key |-> routeKey(hops)]

(* The route through p, or through p and q by way of token m: NoRoute      *)
(* where the loop body says continue.                                      *)
DirectRoute(p, sell, buy, x) ==
    LET out == p.quote[<<sell, buy>>][x]
    IN  IF Supports(p, sell, buy) /\ Quoted(out)
        THEN MakeRoute(<<Hop(p, sell, buy, x, out)>>, out, p.gas)
        ELSE NoRoute

(* Mutant: a two-hop route may use the same pool twice. *)
TwoHopRoute_reuses(p, m, q, sell, buy, x) ==
    LET y   == p.quote[<<sell, m>>][x]
        out == q.quote[<<m, buy>>][y]
        gas == sumGas(p.gas, q.gas)
    IN  IF /\ Supports(p, sell, m) /\ Quoted(y)
           /\ Supports(q, m, buy) /\ Quoted(out)
           /\ gas # Failed
        THEN MakeRoute(<<Hop(p, sell, m, x, y), Hop(q, m, buy, y, out)>>, out, gas)
        ELSE NoRoute

TwoHopRoute(p, m, q, sell, buy, x) ==
    LET y   == p.quote[<<sell, m>>][x]
        out == q.quote[<<m, buy>>][y]
        gas == sumGas(p.gas, q.gas)
    IN  IF /\ Supports(p, sell, m) /\ Quoted(y)
           /\ p # q /\ Supports(q, m, buy) /\ Quoted(out)
           /\ gas # Failed
        THEN MakeRoute(<<Hop(p, sell, m, x, y), Hop(q, m, buy, y, out)>>, out, gas)
        ELSE NoRoute

(***************************************************************************)
(* The order on routes: more output, then less gas, then the smaller key.  *)
(***************************************************************************)
Beats(b, a) ==
    \/ b.out > a.out
    \/ b.out = a.out /\ b.gas < a.gas
    \/ b.out = a.out /\ b.gas = a.gas /\ b.key < a.key

better(a, b) ==
    IF a = NoRoute THEN b
    ELSE IF b = NoRoute \/ ~Beats(b, a) THEN a ELSE b

(***************************************************************************)
(* What BestRoute answers, stated without loops.  The routes there are: a  *)
(* pool of the pair, or two different pools through a pivot, among the     *)
(* pools indexed under their input token.  Router shows that the loops     *)
(* find the best of them.                                                  *)
(***************************************************************************)
DirectRoutes(graph, sell, buy, x) ==
    LET out(p) == p.quote[<<sell, buy>>][x]
    IN  { MakeRoute(<<Hop(p, sell, buy, x, out(p))>>, out(p), p.gas)
          : p \in { r \in ToSet(poolsFor(graph, sell)) :
                      buy \in r.tokens /\ Quoted(out(r)) } }

TwoHopRoutes(graph, sell, buy, x) ==
    UNION { UNION {
        LET y      == p.quote[<<sell, m>>][x]
            out(q) == q.quote[<<m, buy>>][y]
        IN  { MakeRoute(<<Hop(p, sell, m, x, y), Hop(q, m, buy, y, out(q))>>,
                        out(q), p.gas + q.gas)
              : q \in { r \in ToSet(poolsFor(graph, m)) \ {p} :
                          /\ Quoted(y) /\ buy \in r.tokens /\ Quoted(out(r))
                          /\ p.gas + r.gas <= MaxUint64 } }
        : p \in { r \in ToSet(poolsFor(graph, sell)) : m \in r.tokens } }
        : m \in ToSet(graph.intermediates) \ {sell, buy} }

AllRoutes(graph, sell, buy, x) ==
    IF sell = buy \/ x <= 0 THEN {}
    ELSE DirectRoutes(graph, sell, buy, x) \cup TwoHopRoutes(graph, sell, buy, x)

BestRoute(graph, sell, buy, x) ==
    LET all == AllRoutes(graph, sell, buy, x)
    IN  IF all = {} THEN NoRoute
        ELSE CHOOSE r \in all : \A s \in all : ~Beats(s, r)
=============================================================================
