---------------------------- MODULE SolveProofs ----------------------------
(***************************************************************************)
(* Solve for every auction, configuration, bound and deadline: the         *)
(* accounting of pools and orders, the matching, and what every solution   *)
(* settles.  One invariant per stage, each resting on those before it.     *)
(***************************************************************************)
EXTENDS Solve, GraphProofs

(* Sequences of anything. *)
LEMMA ListedSeq ==
    ASSUME NEW s, Listed(s)
    PROVE  s \in Seq(ToSet(s)) /\ Len(s) \in Nat /\ DOMAIN s = 1 .. Len(s)
<1>1. Len(s) \in Nat /\ DOMAIN s = 1 .. Len(s) /\ s = [i \in 1 .. Len(s) |-> s[i]]
  BY DEF Listed
<1>2. s \in [1 .. Len(s) -> ToSet(s)]
  BY <1>1 DEF ToSet
<1> QED BY <1>1, <1>2, IsASeq

LEMMA SeqListed ==
    ASSUME NEW S, NEW s \in Seq(S)
    PROVE  Listed(s)
  BY LenProperties DEF Listed

LEMMA AppendListed ==
    ASSUME NEW s, Listed(s), NEW e
    PROVE  /\ Listed(Append(s, e)) /\ Len(Append(s, e)) = Len(s) + 1
           /\ DOMAIN s = 1 .. Len(s) /\ DOMAIN Append(s, e) = 1 .. Len(s) + 1 /\ Len(s) \in Nat
           /\ \A i \in 1 .. Len(s) : Append(s, e)[i] = s[i]
           /\ Append(s, e)[Len(s) + 1] = e
<1> DEFINE S == ToSet(s) \cup {e}
<1>1. s \in Seq(ToSet(s)) /\ ToSet(s) \subseteq S /\ e \in S
  BY ListedSeq
<1> HIDE DEF S
<1>2. s \in Seq(S)
  BY <1>1, SeqMonotonic
<1>3. Append(s, e) \in Seq(S)
  BY <1>1, <1>2, AppendProperties
<1>4. Listed(Append(s, e)) /\ DOMAIN Append(s, e) = 1 .. Len(Append(s, e))
  BY <1>3, SeqListed, LenProperties
<1>5. Len(s) \in Nat /\ DOMAIN s = 1 .. Len(s)
  BY <1>2, LenProperties
<1> QED BY <1>1, <1>2, <1>4, <1>5, AppendProperties

LEMMA PrefixListed ==
    ASSUME NEW s, Listed(s), NEW n \in Nat
    PROVE  /\ Listed(Prefix(s, n)) /\ DOMAIN Prefix(s, n) \subseteq DOMAIN s
           /\ \A i \in DOMAIN Prefix(s, n) : Prefix(s, n)[i] = s[i]
<1> DEFINE X == ToSet(s)
<1>1. s \in Seq(X) /\ DOMAIN s = 1 .. Len(s)
  BY ListedSeq
<1> HIDE DEF X
<1>2. /\ Prefix(s, n) \in Seq(X) /\ Len(Prefix(s, n)) <= Len(s)
      /\ \A i \in 1 .. Len(Prefix(s, n)) : Prefix(s, n)[i] = s[i]
  BY <1>1, PrefixSeq
<1>3. /\ DOMAIN Prefix(s, n) = 1 .. Len(Prefix(s, n)) /\ Len(Prefix(s, n)) \in Nat /\ Len(s) \in Nat
      /\ Listed(Prefix(s, n))
  BY <1>1, <1>2, LenProperties, SeqListed
<1> QED BY <1>1, <1>2, <1>3

LEMMA EmptyListed == Listed(<<>>) /\ Len(<<>>) = 0 /\ DOMAIN <<>> = {}
  BY DEF Listed

-----------------------------------------------------------------------------
(***************************************************************************)
(* The arguments, and the pools built from the liquidity.                  *)
(***************************************************************************)
Stages == {"pools", "graph", "pair", "take", "route", "done"}

Args ==
    /\ auction \in Auctions /\ cfg \in Configs /\ expired \in BOOLEAN
    /\ pc \in Stages /\ k \in Nat \ {0}

FromLiquidity(list, n) ==
    \A i \in DOMAIN list : \E j \in 1 .. n :
        list[i] = auction.liquidity[j].pool /\ list[i] # NoPool

(* The entries before the k-th are in the pools or counted as skipped, and *)
(* after the loop every one is.                                            *)
PoolsInv ==
    /\ skipped \in [resourceLimit : Nat, cancelled : Int, kind : Nat]
    /\ limit \in Nat /\ limit <= Len(auction.liquidity)
    /\ PoolList(pools)
    /\ pc = "pools" =>
          /\ k - 1 <= limit /\ skipped.cancelled = 0 /\ Len(pools) + skipped.kind = k - 1
          /\ FromLiquidity(pools, k - 1)
    /\ pc # "pools" =>
          Len(pools) + skipped.resourceLimit + skipped.cancelled + skipped.kind
              = Len(auction.liquidity)
    /\ pc \in {"pair", "take", "route"} => graph = NewGraph(pools)

LEMMA InitPools == Init => Args /\ PoolsInv
<1> SUFFICES ASSUME Init PROVE Args /\ PoolsInv
  OBVIOUS
<1> USE DEF Init
<1>1. Args
  <2>1. expired \in BOOLEAN /\ pc \in Stages
    BY DEF Stages
  <2> QED BY <2>1 DEF Args
<1> DEFINE n == Len(auction.liquidity)
           max == OrDefault(cfg.maxPools, DefaultMaxPools)
           over == n - max
<1>2. n \in Nat /\ max \in Nat
  <2>1. AuctionOK(auction) /\ cfg.maxPools \in Int /\ DefaultMaxPools \in Nat
    BY SolveAssumption
  <2> QED BY <2>1 DEF AuctionOK, Listed, OrDefault
<1>3. skipped = [resourceLimit |-> IF over > 0 THEN over ELSE 0, cancelled |-> 0, kind |-> 0]
  OBVIOUS
<1> HIDE DEF n, max
<1>4. /\ skipped \in [resourceLimit : Nat, cancelled : Int, kind : Nat]
      /\ skipped.cancelled = 0 /\ skipped.kind = 0 /\ n - skipped.resourceLimit \in Nat
      /\ n - skipped.resourceLimit <= n
  BY <1>2, <1>3
<1>5. PoolList(pools) /\ Len(pools) = 0 /\ DOMAIN pools = {}
  BY EmptyListed DEF PoolList
<1>6. k = 1 /\ pc = "pools"
  OBVIOUS
<1>7. PoolsInv
  BY <1>2, <1>4, <1>5, <1>6 DEF PoolsInv, FromLiquidity, limit, n
<1> QED BY <1>1, <1>7

LEMMA NextArgs == ASSUME Args, [Next]_vars PROVE Args' /\ UNCHANGED <<auction, cfg>>
<1> USE DEF Args, Stages
<1>1. CASE UNCHANGED vars
  BY <1>1 DEF vars
<1>2. CASE Expire
  BY <1>2 DEF Expire
<1>3. CASE BuildPool \/ Pair \/ TakeMatch \/ RouteNext
  BY <1>3 DEF BuildPool, Pair, TakeMatch, RouteNext
<1>4. CASE PoolsCancelled \/ PoolsBuilt \/ GraphCancelled \/ MakeGraph \/ Paired \/ Taken \/ Finish
  BY <1>4 DEF PoolsCancelled, PoolsBuilt, GraphCancelled, MakeGraph, Paired, Taken, Finish, Routed,
              Stage
<1> QED BY <1>1, <1>2, <1>3, <1>4 DEF Next, Step

LEMMA BuildPoolStep == ASSUME Args, PoolsInv, BuildPool PROVE PoolsInv'
<1>0. /\ pc = "pools" /\ pc' = "pools" /\ k' = k + 1 /\ k \in Nat \ {0} /\ auction' = auction
      /\ k <= limit /\ limit \in Nat /\ limit <= Len(auction.liquidity)
      /\ skipped \in [resourceLimit : Nat, cancelled : Int, kind : Nat] /\ skipped.cancelled = 0
      /\ Listed(pools) /\ Len(pools) \in Nat /\ Len(pools) + skipped.kind = k - 1
  BY ListedSeq DEF Args, PoolsInv, PoolList, BuildPool
<1>1. AuctionOK(auction)
  BY SolveAssumption DEF Args
<1>2. Len(auction.liquidity) \in Nat /\ DOMAIN auction.liquidity = 1 .. Len(auction.liquidity)
  BY <1>1, ListedSeq DEF AuctionOK
<1>3. k \in DOMAIN auction.liquidity /\ \A j \in 1 .. k - 1 : j \in DOMAIN auction.liquidity
  BY <1>0, <1>2
<1>4. FromLiquidity(pools, k - 1) /\ 1 .. k - 1 \subseteq 1 .. k /\ k + 1 - 1 = k
  BY <1>0 DEF PoolsInv
<1> DEFINE pool == auction.liquidity[k].pool
<1>5. CASE pool = NoPool
  <2>1. /\ pools' = pools /\ skipped' \in [resourceLimit : Nat, cancelled : Int, kind : Nat]
        /\ skipped'.resourceLimit = skipped.resourceLimit
        /\ skipped'.cancelled = skipped.cancelled
        /\ skipped'.kind = skipped.kind + 1
    BY <1>0, <1>5 DEF BuildPool
  <2>2. limit' = limit
    BY <1>0, <2>1 DEF limit
  <2>3. FromLiquidity(pools, k)
    BY <1>4 DEF FromLiquidity
  <2>4. FromLiquidity(pools, k - 1)'
    BY <1>0, <1>4, <2>1, <2>3 DEF FromLiquidity
  <2>5. k' - 1 <= limit' /\ Len(pools') + skipped'.kind = k' - 1
    BY <1>0, <2>1, <2>2
  <2> QED BY <1>0, <2>1, <2>2, <2>4, <2>5 DEF PoolsInv
<1>6. CASE pool # NoPool
  <2>1. pools' = Append(pools, pool) /\ skipped' = skipped
    BY <1>6 DEF BuildPool
  <2>2. limit' = limit
    BY <1>0, <2>1 DEF limit
  <2>3. PoolOK(pool) /\ \A i \in DOMAIN pools : pools[i].id # pool.id
    <3>1. PoolOK(pool) /\ \A j \in DOMAIN auction.liquidity :
              auction.liquidity[j].pool # NoPool /\ auction.liquidity[j].pool.id = pool.id => k = j
      BY <1>1, <1>3, <1>6 DEF AuctionOK
    <3>2. \A j \in 1 .. k - 1 : j # k
      BY <1>0
    <3> HIDE DEF pool
    <3> QED BY <1>3, <1>4, <3>1, <3>2 DEF FromLiquidity
  <2> HIDE DEF pool
  <2>4. /\ Listed(pools') /\ Len(pools') = Len(pools) + 1
        /\ DOMAIN pools = 1 .. Len(pools) /\ DOMAIN pools' = 1 .. Len(pools) + 1
        /\ \A i \in 1 .. Len(pools) : pools'[i] = pools[i]
        /\ pools'[Len(pools) + 1] = pool
    BY <1>0, <2>1, AppendListed
  <2>5. PoolList(pools')
    <3>1. ASSUME NEW i \in DOMAIN pools', NEW j \in DOMAIN pools'
          PROVE  PoolOK(pools'[i]) /\ (pools'[i].id = pools'[j].id => i = j)
      <4>1. PoolList(pools) /\ (i \in DOMAIN pools \/ i = Len(pools) + 1)
                            /\ (j \in DOMAIN pools \/ j = Len(pools) + 1)
        BY <1>0, <2>4 DEF PoolsInv
      <4> QED BY <2>3, <2>4, <4>1 DEF PoolList
    <3> QED BY <2>4, <3>1 DEF PoolList
  <2>6. FromLiquidity(pools', k)
    <3> USE DEF FromLiquidity
    <3> TAKE i \in DOMAIN pools'
    <3>1. CASE i = Len(pools) + 1
      BY <1>0, <1>6, <2>4, <3>1 DEF pool
    <3>2. CASE i \in DOMAIN pools
      <4>1. PICK j \in 1 .. k - 1 : pools[i] = auction.liquidity[j].pool /\ pools[i] # NoPool
        BY <1>4, <3>2
      <4>2. j \in 1 .. k
        BY <1>0
      <4> QED BY <2>4, <3>2, <4>1, <4>2
    <3> QED BY <1>0, <2>4, <3>1, <3>2
  <2>7. FromLiquidity(pools, k - 1)'
    BY <1>0, <1>4, <2>6 DEF FromLiquidity
  <2>8. k' - 1 <= limit' /\ Len(pools') + skipped'.kind = k' - 1
    BY <1>0, <2>1, <2>2, <2>4
  <2> QED BY <1>0, <2>1, <2>2, <2>5, <2>7, <2>8 DEF PoolsInv
<1> QED BY <1>5, <1>6

LEMMA NextPools == ASSUME Args, PoolsInv, [Next]_vars PROVE PoolsInv'
<1>0. /\ auction' = auction /\ Listed(pools) /\ Len(pools) \in Nat
      /\ Len(auction.liquidity) \in Nat /\ k \in Nat \ {0} /\ limit \in Nat
      /\ skipped \in [resourceLimit : Nat, cancelled : Int, kind : Nat]
  <2>1. AuctionOK(auction)
    BY SolveAssumption DEF Args
  <2> QED BY <2>1, NextArgs, ListedSeq DEF Args, PoolsInv, PoolList, AuctionOK
<1>1. CASE BuildPool
  BY <1>1, BuildPoolStep
<1>2. CASE PoolsCancelled
  <2>1. /\ skipped' \in [resourceLimit : Nat, cancelled : Int, kind : Nat]
        /\ skipped'.resourceLimit = skipped.resourceLimit /\ skipped'.kind = skipped.kind
        /\ skipped'.cancelled = limit - (k - 1) /\ pools' = pools /\ pc = "pools" /\ pc' = "done"
    BY <1>0, <1>2 DEF PoolsCancelled
  <2>2. limit' = limit /\ Len(pools) + skipped.kind = k - 1
    BY <1>0, <2>1 DEF limit, PoolsInv
  <2>3. Len(pools) + skipped'.resourceLimit + skipped'.cancelled + skipped'.kind
            = Len(auction.liquidity)
    <3>1. /\ limit = Len(auction.liquidity) - skipped.resourceLimit
          /\ skipped.resourceLimit \in Nat /\ skipped.kind \in Nat
      BY <1>0 DEF limit
    <3>2. Len(pools) + skipped.resourceLimit + (limit - (k - 1)) + skipped.kind
              = Len(auction.liquidity)
      <4> DEFINE a == Len(pools)
                 b == k - 1
                 c == skipped.kind
                 n == Len(auction.liquidity)
                 r == skipped.resourceLimit
      <4>1. {a, b, c, n, r, limit} \subseteq Int /\ a + c = b /\ limit = n - r
        BY <1>0, <2>2, <3>1
      <4> HIDE DEF a, b, c, n, r
      <4>2. a + r + (limit - b) + c = n
        BY <4>1
      <4> QED BY <4>2 DEF a, b, c, n, r
    <3> QED BY <2>1, <3>2
  <2> QED BY <1>0, <2>1, <2>2, <2>3 DEF PoolsInv
<1>3. CASE PoolsBuilt
  <2>1. pools' = pools /\ skipped' = skipped /\ pc = "pools" /\ pc' = "graph" /\ k > limit
    BY <1>3 DEF PoolsBuilt, Stage
  <2>2. /\ limit' = limit /\ Len(pools) + skipped.kind = k - 1
        /\ k - 1 <= limit /\ skipped.cancelled = 0
    BY <1>0, <2>1 DEF limit, PoolsInv
  <2>3. k - 1 = limit
    BY <1>0, <2>1, <2>2
  <2>4. Len(pools) + skipped.resourceLimit + skipped.cancelled + skipped.kind
            = Len(auction.liquidity)
    BY <1>0, <2>2, <2>3 DEF limit
  <2> QED BY <1>0, <2>1, <2>2, <2>4 DEF PoolsInv
<1>4. CASE MakeGraph
  <2>1. pools' = pools /\ skipped' = skipped /\ pc = "graph" /\ pc' = "pair" /\ graph' = NewGraph(pools)
    BY <1>4 DEF MakeGraph, Stage
  <2>2. limit' = limit
    BY <1>0, <2>1 DEF limit
  <2> QED BY <1>0, <2>1, <2>2 DEF PoolsInv
<1>5. CASE GraphCancelled \/ Pair \/ Paired \/ TakeMatch \/ Taken \/ RouteNext \/ Finish
  <2>1. /\ pools' = pools /\ skipped' = skipped /\ graph' = graph /\ pc # "pools" /\ pc' # "pools"
        /\ pc' \in {"pair", "take", "route"} => pc \in {"pair", "take", "route"}
    BY <1>5 DEF GraphCancelled, Pair, Paired, TakeMatch, Taken, RouteNext, Finish, Routed, Stage
  <2>2. limit' = limit
    BY <1>0, <2>1 DEF limit
  <2> QED BY <1>0, <2>1, <2>2 DEF PoolsInv
<1>6. CASE UNCHANGED <<auction, pc, k, pools, graph, skipped>>
  BY <1>6 DEF PoolsInv, limit, FromLiquidity
<1> QED BY <1>1, <1>2, <1>3, <1>4, <1>5, <1>6 DEF Next, Step, Expire, vars

-----------------------------------------------------------------------------
(***************************************************************************)
(* eligible: orders of the auction, each at most once, all supported.      *)
(***************************************************************************)
Picked(os, all, n) ==
    /\ Listed(os)
    /\ \A i \in DOMAIN os : Supported(os[i]) /\ \E j \in 1 .. n : os[i] = all[j]
    /\ \A i, j \in DOMAIN os : os[i].uid = os[j].uid => i = j

Unique(all) == \A i, j \in DOMAIN all : all[i].uid = all[j].uid => i = j

Pick(all, max, o, e) ==
    IF Len(e.orders) >= max THEN e
    ELSE IF Supported(o)
    THEN [orders |-> Append(e.orders, o), unsupported |-> e.unsupported]
    ELSE [orders |-> e.orders, unsupported |-> e.unsupported + 1]

PickUpTo(all, max, n, f) ==
    IF n = 0 THEN [orders |-> <<>>, unsupported |-> 0] ELSE Pick(all, max, all[n], f[n - 1])

LEMMA PickedMore ==
    ASSUME NEW all, Listed(all), Unique(all), NEW n \in 1 .. Len(all), NEW max,
           NEW e, Picked(e.orders, all, n - 1)
    PROVE  Picked(Pick(all, max, all[n], e).orders, all, n)
<1>1. n \in Nat /\ 1 .. n - 1 \subseteq 1 .. n /\ n \notin 1 .. n - 1 /\ n \in 1 .. n
      /\ DOMAIN all = 1 .. Len(all) /\ 1 .. n - 1 \subseteq DOMAIN all
  BY ListedSeq
<1>2. CASE Pick(all, max, all[n], e).orders = e.orders
  BY <1>1, <1>2 DEF Picked
<1>3. CASE Supported(all[n]) /\ Pick(all, max, all[n], e).orders = Append(e.orders, all[n])
  <2> DEFINE os == e.orders
             more == Append(os, all[n])
  <2>1. /\ Listed(more) /\ DOMAIN os = 1 .. Len(os) /\ DOMAIN more = 1 .. Len(os) + 1
        /\ Len(os) \in Nat /\ \A i \in 1 .. Len(os) : more[i] = os[i]
        /\ more[Len(os) + 1] = all[n]
    BY AppendListed DEF Picked
  <2>2. \A i \in DOMAIN more : i \in DOMAIN os \/ i = Len(os) + 1
    BY <2>1
  <2> HIDE DEF more
  <2>3. \A i \in DOMAIN os : os[i].uid # all[n].uid
    BY <1>1 DEF Picked, Unique
  <2>4. \A i \in DOMAIN more : Supported(more[i]) /\ \E j \in 1 .. n : more[i] = all[j]
    BY <1>1, <1>3, <2>1, <2>2 DEF Picked
  <2>5. \A i, j \in DOMAIN more : more[i].uid = more[j].uid => i = j
    BY <2>1, <2>2, <2>3 DEF Picked
  <2> QED BY <1>3, <2>1, <2>4, <2>5 DEF Picked, more
<1> QED BY <1>2, <1>3 DEF Pick

LEMMA EligiblePicks ==
    ASSUME NEW all, Listed(all), Unique(all), NEW max \in Int
    PROVE  Picked(Eligible(all, max).orders, all, Len(all))
<1> DEFINE N == Len(all)
           O == ToSet(all)
           A == [orders : Seq(O), unsupported : Nat]
           base == [orders |-> <<>>, unsupported |-> 0]
           step == [na \in (1 .. N) \X A |-> Pick(all, max, all[na[1]], na[2])]
           Solves(f) == f = [n \in 0 .. N |-> PickUpTo(all, max, n, f)]
           upTo == CHOOSE f : Solves(f)
<1>1. N \in Nat /\ DOMAIN all = 1 .. N /\ \A n \in 1 .. N : all[n] \in O
  BY ListedSeq, ElementOfSeq
<1>2. base \in A
  <2> HIDE DEF O
  <2> QED BY EmptySeq
<1>3. ASSUME NEW n \in 1 .. N, NEW e \in A PROVE Pick(all, max, all[n], e) \in A
  <2>1. all[n] \in O
    BY <1>1
  <2> HIDE DEF O
  <2>2. e.orders \in Seq(O) /\ e.unsupported \in Nat
    OBVIOUS
  <2>3. Append(e.orders, all[n]) \in Seq(O)
    BY <2>1, <2>2, AppendProperties
  <2> QED BY <2>2, <2>3 DEF Pick
<1>4. step \in [(1 .. N) \X A -> A]
  <2> HIDE DEF A, N
  <2> QED BY <1>3
<1>5. ASSUME NEW f, NEW n \in 1 .. N, f[n - 1] \in A
      PROVE  PickUpTo(all, max, n, f) = step[<<n, f[n - 1]>>]
  <2>1. <<n, f[n - 1]>> \in (1 .. N) \X A /\ n # 0
    BY <1>1, <1>5
  <2> HIDE DEF A, N
  <2> QED BY <2>1 DEF PickUpTo
<1>6. \A f : PickUpTo(all, max, 0, f) = base
  BY DEF PickUpTo
<1>7. PICK g : Iterates(g, N, A, base, step)
  <2> HIDE DEF N, A, base, step
  <2> QED BY <1>1, <1>2, <1>4, RecursionExists
<1>8. Solves(g)
  <2> HIDE DEF A, step, base
  <2>1. ASSUME NEW n \in 0 .. N PROVE g[n] = PickUpTo(all, max, n, g)
    <3>1. CASE n = 0
      BY <1>6, <1>7, <3>1 DEF Iterates
    <3>2. CASE n # 0
      <4>1. n \in 1 .. N /\ g[n - 1] \in A
        BY <1>1, <1>7, <3>2 DEF Iterates
      <4> QED BY <1>5, <1>7, <4>1 DEF Iterates
    <3> QED BY <3>1, <3>2
  <2>2. g = [n \in 0 .. N |-> g[n]]
    BY <1>7 DEF Iterates
  <2> QED BY <2>1, <2>2
<1>9. Solves(upTo)
  <2> HIDE DEF Solves
  <2> QED BY <1>8
<1> HIDE DEF upTo, A, step
<1>10. \A n \in 0 .. N : upTo[n] = PickUpTo(all, max, n, upTo)
  BY <1>9
<1> DEFINE S == { n \in Nat : n <= N => Picked(upTo[n].orders, all, n) }
<1>11. 0 \in S
  <2>1. upTo[0] = [orders |-> <<>>, unsupported |-> 0]
    BY <1>1, <1>6, <1>10
  <2> QED BY <2>1, EmptyListed DEF Picked
<1>12. ASSUME NEW n \in Nat, n \in S PROVE n + 1 \in S
  <2> SUFFICES ASSUME n + 1 <= N PROVE Picked(upTo[n + 1].orders, all, n + 1)
    OBVIOUS
  <2>1. n + 1 \in 1 .. N /\ n + 1 - 1 = n /\ n + 1 # 0 /\ Picked(upTo[n].orders, all, n)
    BY <1>1, <1>12
  <2>2. upTo[n + 1] = Pick(all, max, all[n + 1], upTo[n])
    BY <1>10, <2>1 DEF PickUpTo
  <2>3. ASSUME NEW i \in 1 .. Len(all), i - 1 = n PROVE Picked(Pick(all, max, all[i], upTo[n]).orders, all, i)
    BY <2>1, <2>3, PickedMore
  <2> QED BY <2>1, <2>2, <2>3
<1>13. N \in S
  <2> HIDE DEF S, N
  <2> QED BY <1>1, <1>11, <1>12, SetInduction
<1>14. Eligible(all, max) = upTo[N]
  BY DEF Eligible, upTo, PickUpTo, Pick
<1> QED BY <1>1, <1>13, <1>14

-----------------------------------------------------------------------------
(***************************************************************************)
(* The queue of findCoWMatches: each seller of a smaller token, once.      *)
(***************************************************************************)
Sellers(os) == { i \in DOMAIN os : os[i].kind = "sell" /\ os[i].sell < os[i].buy }

Queues(q, os) ==
    /\ Len(q) \in Nat /\ \A h \in 1 .. Len(q) : q[h] \in Sellers(os)
    /\ \A i \in Sellers(os) : \E h \in 1 .. Len(q) : q[h] = i
    /\ \A g, h \in 1 .. Len(q) : q[g] = q[h] => g = h

Ahead(os, i, j) ==
    \/ os[i].sell < os[j].sell
    \/ os[i].sell = os[j].sell /\ os[i].buy < os[j].buy
    \/ os[i].sell = os[j].sell /\ os[i].buy = os[j].buy /\ i < j

LEMMA QueueSorts ==
    ASSUME NEW os, Listed(os), \A i \in DOMAIN os : os[i].sell \in Int /\ os[i].buy \in Int
    PROVE  Queues(Queue(os), os)
<1> DEFINE S == Sellers(os)
           R == { ij \in S \X S : Ahead(os, ij[1], ij[2]) }
           q == Queue(os)
<1>1. Len(os) \in Nat /\ DOMAIN os = 1 .. Len(os)
  BY ListedSeq
<1>2. S \subseteq Int /\ \A i \in S : os[i].sell \in Int /\ os[i].buy \in Int
  BY <1>1 DEF Sellers
<1>3. \A i, j \in S : <<i, j>> \in R <=> Ahead(os, i, j)
  OBVIOUS
<1>4. IsFiniteSet(S)
  <2>1. IsFiniteSet(1 .. Len(os))
    <3>1. 1 \in Int /\ Len(os) \in Int
      BY <1>1
    <3> QED BY ONLY <3>1, FS_Interval
  <2>2. S \subseteq 1 .. Len(os)
    BY <1>1 DEF Sellers
  <2> HIDE DEF S
  <2> QED BY <2>1, <2>2, FS_Subset
<1>5. q = Sorted(S, R)
  BY DEF Queue, Sellers, Ahead
<1> HIDE DEF S, R
<1>6. TotalOrder(R, S)
  <2>1. ASSUME NEW i \in S, NEW j \in S, i # j PROVE Ahead(os, i, j) \/ Ahead(os, j, i)
    BY <1>2, <2>1 DEF Ahead
  <2>2. ASSUME NEW i \in S, NEW j \in S, NEW l \in S, Ahead(os, i, j), Ahead(os, j, l)
        PROVE  Ahead(os, i, l)
    BY <1>2, <2>2 DEF Ahead
  <2> QED BY <1>3, <2>1, <2>2 DEF TotalOrder
<1>7. InOrder(q, S, R)
  BY <1>4, <1>5, <1>6, SortedLists
<1> HIDE DEF q
<1>8. Cardinality(S) \in Nat
  BY <1>4, FS_CardinalityType
<1>9. Len(q) = Cardinality(S)
  <2>1. q \in [1 .. Cardinality(S) -> S]
    BY <1>7 DEF InOrder
  <2> QED BY <1>8, <2>1, IsASeq, LenProperties
<1>10. ASSUME NEW i \in S PROVE ~Ahead(os, i, i)
  <2>1. i \in Int /\ os[i].sell \in Int /\ os[i].buy \in Int
    BY <1>2
  <2>2. ~(i < i) /\ ~(os[i].sell < os[i].sell) /\ ~(os[i].buy < os[i].buy)
    BY <2>1
  <2> QED BY <2>2 DEF Ahead
<1>11. ASSUME NEW g \in 1 .. Len(q), NEW h \in 1 .. Len(q), q[g] = q[h] PROVE g = h
  <2>1. q[g] \in S /\ g \in Int /\ h \in Int
    BY <1>7, <1>8, <1>9 DEF InOrder
  <2>2. ~(g < h) /\ ~(h < g)
    BY <1>3, <1>7, <1>9, <1>10, <1>11, <2>1 DEF InOrder
  <2> QED BY <2>1, <2>2
<1>12. \A h \in 1 .. Len(q) : q[h] \in S
  BY <1>7, <1>9 DEF InOrder
<1>13. \A i \in S : \E h \in 1 .. Len(q) : q[h] = i
  BY <1>7, <1>9, Zenon DEF InOrder
<1> QED BY <1>8, <1>9, <1>11, <1>12, <1>13 DEF Queues, S, q

-----------------------------------------------------------------------------
(***************************************************************************)
(* The orders the passes share.                                            *)
(***************************************************************************)
OrdersInv ==
    /\ Picked(orders, auction.orders, Len(auction.orders))
    /\ pc \in {"pools", "graph"} =>
          matches = <<>> /\ matched = {} /\ solutions = <<>> /\ stats = NoStats

OrderOK(o) ==
    /\ o.kind \in {"sell", "buy"} /\ o.sell \in Names /\ o.buy \in Names /\ o.sell # o.buy
    /\ o.sellAmount \in Nat \ {0} /\ o.buyAmount \in Nat \ {0}

LEMMA AuctionOrders ==
    ASSUME Args
    PROVE  Listed(auction.orders) /\ Unique(auction.orders)
  BY SolveAssumption DEF Args, AuctionOK, Unique

LEMMA OrdersKnown ==
    ASSUME Args, OrdersInv
    PROVE  /\ Listed(orders) /\ DOMAIN orders = 1 .. Len(orders) /\ Len(orders) \in Nat
           /\ \A i \in DOMAIN orders :
                 OrderOK(orders[i]) /\ \E j \in DOMAIN auction.orders : orders[i] = auction.orders[j]
           /\ \A i, j \in DOMAIN orders : orders[i].uid = orders[j].uid => i = j
<1>1. AuctionOK(auction)
  BY SolveAssumption DEF Args
<1>2. DOMAIN auction.orders = 1 .. Len(auction.orders)
  BY AuctionOrders, ListedSeq
<1>3. ASSUME NEW j \in DOMAIN auction.orders, Supported(auction.orders[j]) PROVE OrderOK(auction.orders[j])
  BY <1>1, <1>3 DEF AuctionOK, OrderOK, Names, Supported
<1>4. Picked(orders, auction.orders, Len(auction.orders))
  BY DEF OrdersInv
<1>5. Listed(orders) /\ DOMAIN orders = 1 .. Len(orders) /\ Len(orders) \in Nat
  BY <1>4, ListedSeq DEF Picked
<1>6. ASSUME NEW i \in DOMAIN orders
      PROVE  OrderOK(orders[i]) /\ \E j \in DOMAIN auction.orders : orders[i] = auction.orders[j]
  BY <1>2, <1>3, <1>4 DEF Picked
<1> QED BY <1>4, <1>5, <1>6 DEF Picked

LEMMA InitOrders == Init => OrdersInv
  BY EmptyListed DEF Init, OrdersInv, Picked

LEMMA NextOrders == ASSUME Args, OrdersInv, [Next]_vars PROVE OrdersInv'
<1>0. auction' = auction
  BY NextArgs
<1>1. CASE MakeGraph
  <2> DEFINE max == OrDefault(cfg.maxOrders, DefaultMaxOrders)
  <2>1. max \in Int
    BY SolveAssumption DEF Args, OrDefault
  <2>2. orders' = Eligible(auction.orders, max).orders /\ pc' = "pair"
    BY <1>1 DEF MakeGraph, Stage
  <2> HIDE DEF max
  <2>3. Picked(orders', auction.orders, Len(auction.orders))
    BY <2>1, <2>2, AuctionOrders, EligiblePicks
  <2> QED BY <1>0, <2>2, <2>3 DEF OrdersInv
<1>2. CASE BuildPool \/ PoolsCancelled \/ PoolsBuilt \/ GraphCancelled
  BY <1>2 DEF BuildPool, PoolsCancelled, PoolsBuilt, GraphCancelled, Stage, OrdersInv
<1>3. CASE Pair \/ Paired \/ TakeMatch \/ Taken \/ RouteNext \/ Finish
  BY <1>0, <1>3 DEF Pair, Paired, TakeMatch, Taken, RouteNext, Finish, Routed, Stage, OrdersInv
<1>4. CASE Expire
  BY <1>4 DEF Expire, OrdersInv
<1>5. CASE UNCHANGED vars
  BY <1>5 DEF vars, OrdersInv
<1> QED BY <1>1, <1>2, <1>3, <1>4, <1>5 DEF Next, Step

-----------------------------------------------------------------------------
(***************************************************************************)
(* The matching.                                                           *)
(***************************************************************************)
queue == Queue(orders)

Match(m) ==
    m[1] \in Sellers(orders) /\ m[2] \in DOMAIN orders /\ Crosses(orders[m[1]], orders[m[2]])

(* The queue's elements the loop has passed. *)
Visited == { queue[h] : h \in { g \in 1 .. Len(queue) : g < k } }

(* The queue's element has found its partner, or there is none for it. *)
Looked(i) == i \in Used \/ Partners(i) = {}

MatchInv ==
    /\ Listed(matches)
    /\ \A a \in DOMAIN matches : Match(matches[a])
    /\ \A a, b \in DOMAIN matches :
          matches[a][1] = matches[b][1] \/ matches[a][2] = matches[b][2] => a = b
    /\ pc = "pair" => /\ \A a \in DOMAIN matches : matches[a][1] \in Visited
                      /\ \A i \in Visited : Looked(i)
    /\ pc \in {"take", "route"} /\ ~expired => \A i \in Sellers(orders) : Looked(i)

LEMMA QueueOK == ASSUME Args, OrdersInv PROVE Queues(queue, orders)
<1>1. \A i \in DOMAIN orders : orders[i].sell \in Int /\ orders[i].buy \in Int
  BY OrdersKnown, NamesFinite DEF OrderOK
<1> QED BY <1>1, OrdersKnown, QueueSorts DEF queue

LEMMA InitMatch == ASSUME Init PROVE MatchInv
<1>1. Listed(matches) /\ DOMAIN matches = {} /\ pc = "pools"
  BY EmptyListed DEF Init
<1> QED BY <1>1 DEF MatchInv

(* The two sides of a match sell different tokens. *)
LEMMA SidesDiffer ==
    ASSUME Args, OrdersInv, NEW m, NEW n, Match(m), Match(n)
    PROVE  m[1] # n[2]
<1>1. orders[n[1]].sell < orders[n[1]].buy /\ orders[m[1]].sell < orders[m[1]].buy
  BY DEF Match, Sellers
<1>2. orders[n[2]].sell = orders[n[1]].buy /\ orders[n[2]].buy = orders[n[1]].sell
  BY DEF Match, Crosses
<1>3. orders[n[1]].sell \in Int /\ orders[n[1]].buy \in Int
  <2>1. n[1] \in DOMAIN orders
    BY DEF Match, Sellers
  <2>2. orders[n[1]].sell \in Names /\ orders[n[1]].buy \in Names
    BY <2>1, OrdersKnown DEF OrderOK
  <2> QED BY <2>2 DEF Names
<1> QED BY <1>1, <1>2, <1>3

LEMMA LeastFree ==
    ASSUME Args, OrdersInv, NEW i, Partners(i) # {}
    PROVE  Min(Partners(i)) \in Partners(i)
<1> DEFINE S == Partners(i)
<1>1. S \subseteq Nat /\ S # {}
  BY OrdersKnown DEF Partners
<1> HIDE DEF S
<1>2. \E n \in S : \A m \in S : n <= m
  BY <1>1, LeastNat
<1>3. Min(S) \in S
  BY <1>2 DEF Min
<1> QED BY <1>3 DEF S

LEMMA PairStep == ASSUME Args, OrdersInv, MatchInv, Pair PROVE MatchInv'
<1> DEFINE i == queue[k]
           free == Partners(i)
<1>0. /\ pc = "pair" /\ pc' = "pair" /\ k' = k + 1 /\ k \in Nat /\ k \in 1 .. Len(queue)
      /\ UNCHANGED <<auction, orders, expired>> /\ Listed(matches) /\ queue' = queue
      /\ IF free = {} THEN UNCHANGED matches ELSE matches' = Append(matches, <<i, Min(free)>>)
  <2>1. Queues(queue, orders)
    BY QueueOK
  <2> QED BY <2>1 DEF Pair, Args, MatchInv, queue, Queues
<1>1. /\ Queues(queue, orders) /\ i \in Sellers(orders) /\ Len(queue) \in Nat
      /\ \A h \in 1 .. Len(queue) : queue[h] = i => h = k
  BY <1>0, QueueOK DEF Queues
<1>2. Visited' = Visited \cup {i} /\ i \notin Visited
  <2>1. { g \in 1 .. Len(queue) : g < k + 1 } = { g \in 1 .. Len(queue) : g < k } \cup {k}
    BY <1>0, <1>1
  <2>2. k \notin { g \in 1 .. Len(queue) : g < k }
    BY <1>0
  <2> QED BY <1>0, <1>1, <2>1, <2>2 DEF Visited
<1>3. /\ \A a \in DOMAIN matches : Match(matches[a])
      /\ \A a, b \in DOMAIN matches :
            matches[a][1] = matches[b][1] \/ matches[a][2] = matches[b][2] => a = b
      /\ \A a \in DOMAIN matches : matches[a][1] \in Visited
      /\ \A h \in Visited : Looked(h)
  BY <1>0 DEF MatchInv
<1>4. \A m : Match(m)' = Match(m)
  BY <1>0 DEF Sellers, Match
<1>6. CASE free = {}
  <2>1. matches' = matches
    BY <1>0, <1>6
  <2>2. Used' = Used /\ \A h : Partners(h)' = Partners(h)
    BY <1>0, <2>1 DEF Used, Partners
  <2>3. ASSUME NEW h \in Visited' PROVE Looked(h)'
    <3>1. h \in Visited \/ h = i
      BY <1>2
    <3>2. h \in Used \/ Partners(h) = {}
      BY <1>3, <1>6, <3>1 DEF Looked
    <3> QED BY <2>2, <3>2 DEF Looked
  <2>4. \A a \in DOMAIN matches : matches[a][1] \in Visited' /\ Match(matches[a])'
    <3> TAKE a \in DOMAIN matches
    <3>1. matches[a][1] \in Visited'
      BY <1>2, <1>3
    <3>2. Match(matches[a])'
      BY <1>0, <1>3, <2>1 DEF Match, Sellers
    <3> QED BY <3>1, <3>2
  <2> QED BY <1>0, <1>3, <2>1, <2>3, <2>4 DEF MatchInv
<1>7. CASE free # {}
  <2> DEFINE j == Min(free)
             m == <<i, j>>
             new == Append(matches, m)
  <2>1. j \in free
    BY <1>7, LeastFree
  <2>2. j \in DOMAIN orders /\ j \notin Used /\ Crosses(orders[i], orders[j])
    BY <2>1 DEF Partners
  <2>3. matches' = new /\ m[1] = i /\ m[2] = j
    BY <1>0, <1>7
  <2> HIDE DEF free, j, m, i
  <2>4. /\ Listed(new) /\ DOMAIN matches = 1 .. Len(matches) /\ Len(matches) \in Nat
        /\ DOMAIN new = 1 .. Len(matches) + 1
        /\ \A a \in 1 .. Len(matches) : new[a] = matches[a]
        /\ new[Len(matches) + 1] = m
    BY <1>0, AppendListed
  <2> HIDE DEF new
  <2>5. \A a \in DOMAIN new : (a \in DOMAIN matches /\ new[a] = matches[a]) \/ (a = Len(matches) + 1 /\ new[a] = m)
    BY <2>4
  <2>6. Match(m)
    BY <1>1, <2>2, <2>3 DEF Match
  <2>7. ASSUME NEW a \in DOMAIN matches PROVE matches[a][1] # i /\ matches[a][2] # j
    <3>1. matches[a][1] # i
      BY <1>2, <1>3
    <3>2. matches[a][2] \in Used
      BY DEF Used
    <3> QED BY <2>2, <3>1, <3>2
  <2>8. \A a, b \in DOMAIN new : new[a][1] = new[b][1] \/ new[a][2] = new[b][2] => a = b
    BY <1>3, <2>3, <2>5, <2>7
  <2>9. \A a \in DOMAIN new : Match(new[a])
    BY <1>3, <2>5, <2>6
  <2>10. \A a \in DOMAIN new : new[a][1] \in Visited'
    BY <1>2, <1>3, <2>3, <2>5
  <2>11. Used \subseteq Used' /\ i \in Used'
    <3>1. Len(matches) + 1 \in DOMAIN new /\ DOMAIN matches \subseteq DOMAIN new
      BY <2>4
    <3>2. \A a \in DOMAIN matches : new[a] = matches[a]
      BY <2>4
    <3> QED BY <2>3, <2>4, <3>1, <3>2 DEF Used
  <2>12. \A h : Partners(h)' \subseteq Partners(h)
    BY <1>0, <2>11 DEF Partners
  <2>13. ASSUME NEW h \in Visited' PROVE Looked(h)'
    <3>1. h \in Visited \/ h = i
      BY <1>2
    <3>2. h \in Used' \/ Partners(h) = {}
      BY <1>3, <2>11, <3>1 DEF Looked
    <3> QED BY <2>12, <3>2 DEF Looked
  <2>14. \A a \in DOMAIN matches' : Match(matches[a])'
    BY <1>0, <2>3, <2>9 DEF Match, Sellers
  <2> QED BY <1>0, <2>3, <2>4, <2>8, <2>10, <2>13, <2>14 DEF MatchInv
<1> QED BY <1>6, <1>7

LEMMA NextMatch == ASSUME Args, OrdersInv, MatchInv, [Next]_vars PROVE MatchInv'
<1>1. CASE Pair
  BY <1>1, PairStep
<1>2. CASE BuildPool \/ PoolsCancelled \/ PoolsBuilt \/ GraphCancelled \/ MakeGraph
  <2>1. /\ pc \in {"pools", "graph"} /\ pc' \in {"pools", "graph", "done", "pair"}
        /\ matches' = matches /\ (pc' = "pair" => k' = 1)
    BY <1>2 DEF BuildPool, PoolsCancelled, PoolsBuilt, GraphCancelled, MakeGraph, Stage
  <2>2. matches = <<>>
    BY <2>1 DEF OrdersInv
  <2>3. k' = 1 => Visited' = {}
    <3>1. \A n : { g \in 1 .. n : g < 1 } = {}
      OBVIOUS
    <3> QED BY <3>1 DEF Visited
  <2> QED BY <2>1, <2>2, <2>3, EmptyListed DEF MatchInv
<1>3. CASE Paired
  <2>1. /\ pc = "pair" /\ pc' = "take" /\ UNCHANGED <<expired, orders, matches>>
        /\ expired \/ k > Len(queue)
    BY <1>3 DEF Paired, Stage, queue
  <2>2. Len(queue) \in Nat /\ k \in Nat /\ \A i \in Sellers(orders) : \E h \in 1 .. Len(queue) : queue[h] = i
    BY QueueOK DEF Queues, Args
  <2>3. ASSUME ~expired PROVE Sellers(orders) \subseteq Visited
    <3>1. \A h \in 1 .. Len(queue) : h < k
      BY <2>1, <2>2, <2>3
    <3> QED BY <2>2, <3>1 DEF Visited
  <2>4. UNCHANGED <<Used, Sellers(orders)>> /\ \A i : Partners(i)' = Partners(i)
    BY <2>1 DEF Used, Sellers, Partners
  <2>5. ASSUME ~expired' PROVE \A i \in Sellers(orders)' : Looked(i)'
    BY <2>1, <2>3, <2>4, <2>5 DEF MatchInv, Looked
  <2>6. \A a \in DOMAIN matches' : Match(matches[a])'
    BY <2>1 DEF MatchInv, Match, Sellers
  <2> QED BY <2>1, <2>5, <2>6 DEF MatchInv
<1>4. CASE UNCHANGED <<orders, matches>> /\ pc # "pair" /\ pc' # "pair" /\ (expired => expired')
           /\ (pc' \in {"take", "route"} => pc \in {"take", "route"})
  BY <1>4 DEF MatchInv, Looked, Match, Sellers, Used, Partners, queue
<1>5. CASE TakeMatch \/ Taken \/ RouteNext \/ Finish
  <2>1. UNCHANGED <<orders, matches, expired>> /\ pc # "pair" /\ pc' # "pair"
        /\ (pc' \in {"take", "route"} => pc \in {"take", "route"})
    BY <1>5 DEF TakeMatch, Taken, RouteNext, Finish, Routed, Stage
  <2> QED BY <1>4, <2>1
<1>6. CASE Expire
  BY <1>6 DEF Expire, MatchInv, Visited, Looked, Match, Sellers, Used, Partners, queue
<1>7. CASE UNCHANGED vars
  BY <1>7 DEF vars, MatchInv, Visited, Looked, Match, Sellers, Used, Partners, queue
<1> QED BY <1>1, <1>2, <1>3, <1>5, <1>6, <1>7 DEF Next, Step

(* Everything looked at, no two orders left cross. *)
LEMMA MatchMaximal == ASSUME Args, OrdersInv, MatchInv PROVE MatchingMaximal
<1> SUFFICES ASSUME pc \in {"take", "route"}, ~expired,
                    NEW i \in DOMAIN orders \ Used, NEW j \in DOMAIN orders \ Used,
                    Crosses(orders[i], orders[j])
             PROVE  FALSE
  BY DEF MatchingMaximal
<1>1. \A h \in Sellers(orders) : Looked(h)
  BY DEF MatchInv
<1>2. orders[i].sell \in Int /\ orders[i].buy \in Int /\ orders[i].sell # orders[i].buy
  <2>1. i \in DOMAIN orders
    OBVIOUS
  <2>2. OrderOK(orders[i])
    BY <2>1, OrdersKnown
  <2>3. \A x \in Names : x \in Int
    BY NamesFinite
  <2> QED BY <2>2, <2>3 DEF OrderOK
<1>3. Crosses(orders[j], orders[i])
  BY DEF Crosses
<1>4. CASE orders[i].sell < orders[i].buy
  <2>1. i \in Sellers(orders) /\ j \in Partners(i)
    BY <1>4 DEF Sellers, Partners, Crosses
  <2> QED BY <1>1, <2>1 DEF Looked
<1>5. CASE orders[i].buy < orders[i].sell
  <2>1. j \in Sellers(orders) /\ i \in Partners(j)
    BY <1>3, <1>5 DEF Sellers, Partners, Crosses
  <2> QED BY <1>1, <2>1 DEF Looked
<1> QED BY <1>2, <1>4, <1>5

-----------------------------------------------------------------------------
(***************************************************************************)
(* Who trades: both passes see every order, and none trades it again.      *)
(***************************************************************************)
Traders(s) == { s.trades[g].order : g \in DOMAIN s.trades }

Once(all) ==
    \A i, j \in DOMAIN all :
        /\ \A g \in DOMAIN all[i].trades, h \in DOMAIN all[j].trades :
              all[i].trades[g].order = all[j].trades[h].order => i = j /\ g = h
        /\ all[i].id = i - 1

(* The orders of the matches, and the orders, the loops have passed. *)
MatchTried ==
    UNION { {orders[matches[a][1]].uid, orders[matches[a][2]].uid}
            : a \in { b \in DOMAIN matches : b < k } }

RouteTried == { orders[h].uid : h \in { g \in DOMAIN orders : g < k } }

OnceInv ==
    /\ Listed(solutions) /\ Once(solutions)
    /\ pc \in {"pools", "graph", "pair"} => matched = {} /\ solutions = <<>> /\ stats = NoStats
    /\ pc = "take" => /\ matched \subseteq MatchTried
                      /\ \A i \in DOMAIN solutions : Traders(solutions[i]) \subseteq matched
    /\ pc = "route" => \A i \in DOMAIN solutions :
                          Traders(solutions[i]) \subseteq matched \cup RouteTried

LEMMA AppendOnce ==
    ASSUME NEW all, Listed(all), Once(all), NEW s, s.id = Len(all),
           \A g, h \in DOMAIN s.trades : s.trades[g].order = s.trades[h].order => g = h,
           \A i \in DOMAIN all : Traders(all[i]) \cap Traders(s) = {}
    PROVE  Once(Append(all, s))
<1> DEFINE new == Append(all, s)
           n == Len(all) + 1
<1>1. /\ DOMAIN all = 1 .. Len(all) /\ Len(all) \in Nat /\ DOMAIN new = 1 .. Len(all) + 1
      /\ \A a \in 1 .. Len(all) : new[a] = all[a]
      /\ new[Len(all) + 1] = s
  BY AppendListed
<1> HIDE DEF new
<1>2. \A a \in DOMAIN new : (a \in DOMAIN all /\ new[a] = all[a]) \/ (a = n /\ new[a] = s)
  BY <1>1
<1>3. \A a \in DOMAIN new : new[a].id = a - 1
  <2>1. n - 1 = Len(all)
    BY <1>1
  <2> HIDE DEF n
  <2> QED BY <1>2, <2>1 DEF Once
<1> HIDE DEF n
<1>4. \A i \in DOMAIN all : \A g \in DOMAIN all[i].trades, h \in DOMAIN s.trades :
         all[i].trades[g].order # s.trades[h].order
  BY DEF Traders
<1>5. ASSUME NEW i \in DOMAIN new, NEW j \in DOMAIN new,
             NEW g \in DOMAIN new[i].trades, NEW h \in DOMAIN new[j].trades,
             new[i].trades[g].order = new[j].trades[h].order
      PROVE  i = j /\ g = h
  <2>1. CASE i \in DOMAIN all /\ new[i] = all[i] /\ j \in DOMAIN all /\ new[j] = all[j]
    BY <1>5, <2>1 DEF Once
  <2>2. CASE i = n /\ new[i] = s /\ j = n
    BY <1>5, <2>2
  <2>3. CASE i \in DOMAIN all /\ new[i] = all[i] /\ j = n /\ new[j] = s
    BY <1>4, <1>5, <2>3
  <2>4. CASE j \in DOMAIN all /\ new[j] = all[j] /\ i = n /\ new[i] = s
    BY <1>4, <1>5, <2>4
  <2> QED BY <1>2, <2>1, <2>2, <2>3, <2>4
<1> QED BY <1>3, <1>5 DEF Once, new

LEMMA InitOnce == Init => OnceInv
  BY EmptyListed DEF Init, OnceInv, Once

(* A match the loop comes to is between two orders not settled before. *)
LEMMA FreshMatch ==
    ASSUME Args, OrdersInv, MatchInv, OnceInv, pc = "take", k <= Len(matches)
    PROVE  LET m == matches[k]
           IN  /\ k \in DOMAIN matches /\ Match(m)
               /\ {m[1], m[2]} \subseteq DOMAIN orders /\ m[1] # m[2]
               /\ orders[m[1]].uid \notin matched /\ orders[m[2]].uid \notin matched
               /\ orders[m[1]].uid # orders[m[2]].uid
<1> DEFINE m == matches[k]
<1>1. k \in DOMAIN matches /\ k \in Nat
  BY ListedSeq DEF MatchInv, Args
<1>2. \A a \in DOMAIN matches : Match(matches[a]) /\ {matches[a][1], matches[a][2]} \subseteq DOMAIN orders
  BY DEF MatchInv, Match, Sellers
<1>3. \A a \in DOMAIN matches : m[1] # matches[a][2] /\ matches[a][1] # m[2]
  BY <1>1, <1>2, SidesDiffer
<1>4. ASSUME NEW a \in DOMAIN matches, a < k
      PROVE  {matches[a][1], matches[a][2]} \cap {m[1], m[2]} = {}
  <2>1. a # k
    BY <1>1, <1>4
  <2>2. matches[a][1] # m[1] /\ matches[a][2] # m[2]
    BY <1>1, <2>1 DEF MatchInv
  <2> QED BY <1>3, <2>2
<1>5. \A i, j \in DOMAIN orders : orders[i].uid = orders[j].uid => i = j
  BY OrdersKnown
<1>6. m[1] \in DOMAIN orders /\ m[2] \in DOMAIN orders /\ m[1] # m[2] /\ Match(m)
  BY <1>1, <1>2, <1>3
<1>7. ASSUME NEW u \in matched
      PROVE  \E a \in DOMAIN matches : a < k /\ \E i \in {matches[a][1], matches[a][2]} : u = orders[i].uid
  BY DEF OnceInv, MatchTried
<1> HIDE DEF m
<1>8. ASSUME NEW i \in {m[1], m[2]} PROVE orders[i].uid \notin matched
  <2> SUFFICES ASSUME orders[i].uid \in matched PROVE FALSE
    OBVIOUS
  <2>1. PICK a \in DOMAIN matches : a < k /\ \E j \in {matches[a][1], matches[a][2]} : orders[i].uid = orders[j].uid
    BY <1>7
  <2>2. PICK j \in {matches[a][1], matches[a][2]} : orders[i].uid = orders[j].uid
    BY <2>1
  <2>3. i = j
    BY <1>2, <1>5, <1>6, <2>2
  <2> QED BY <1>4, <2>1, <2>3
<1> QED BY <1>1, <1>5, <1>6, <1>8 DEF m

LEMMA TakeOnce == ASSUME Args, OrdersInv, MatchInv, OnceInv, TakeMatch PROVE OnceInv'
<1> DEFINE m == matches[k]
           a == orders[m[1]]
           b == orders[m[2]]
           gas == sumGas(sumGas(cfg.overhead, cfg.perTrade), cfg.perTrade)
           s == MatchSolution(Len(solutions), a, b, gas)
<1>0. /\ pc = "take" /\ pc' = "take" /\ k' = k + 1 /\ k \in Nat /\ k <= Len(matches)
      /\ UNCHANGED <<orders, matches>>
      /\ \/ UNCHANGED <<solutions, matched>>
         \/ solutions' = Append(solutions, s) /\ matched' = matched \cup {a.uid, b.uid}
  BY DEF TakeMatch, Args
<1>1. /\ k \in DOMAIN matches /\ a.uid \notin matched /\ b.uid \notin matched /\ a.uid # b.uid
  BY <1>0, FreshMatch
<1>2. MatchTried \cup {a.uid, b.uid} \subseteq MatchTried'
  <2>1. \A c \in DOMAIN matches : c < k => c < k + 1
    BY <1>0, ListedSeq DEF MatchInv
  <2> QED BY <1>0, <1>1, <2>1 DEF MatchTried
<1>3. CASE UNCHANGED <<solutions, matched>>
  BY <1>0, <1>2, <1>3 DEF OnceInv
<1>4. CASE solutions' = Append(solutions, s) /\ matched' = matched \cup {a.uid, b.uid}
  <2>1. /\ s.id = Len(solutions) /\ DOMAIN s.trades = {1, 2}
        /\ s.trades[1].order = a.uid /\ s.trades[2].order = b.uid
    BY DEF MatchSolution, Trade
  <2>2. Traders(s) = {a.uid, b.uid}
    BY <2>1 DEF Traders
  <2>3. Listed(solutions) /\ Once(solutions) /\ matched \subseteq MatchTried
        /\ \A i \in DOMAIN solutions : Traders(solutions[i]) \subseteq matched
    BY <1>0 DEF OnceInv
  <2> HIDE DEF s, a, b
  <2>4. \A g, h \in DOMAIN s.trades : s.trades[g].order = s.trades[h].order => g = h
    BY <1>1, <2>1
  <2>5. \A i \in DOMAIN solutions : Traders(solutions[i]) \cap Traders(s) = {}
    BY <1>1, <2>2, <2>3
  <2>6. Once(solutions')
    BY <1>4, <2>1, <2>3, <2>4, <2>5, AppendOnce
  <2>7. /\ Listed(solutions') /\ DOMAIN solutions = 1 .. Len(solutions) /\ Len(solutions) \in Nat
        /\ DOMAIN solutions' = 1 .. Len(solutions) + 1
        /\ \A i \in 1 .. Len(solutions) : solutions'[i] = solutions[i]
        /\ solutions'[Len(solutions) + 1] = s
    BY <1>4, <2>3, AppendListed
  <2>8. ASSUME NEW i \in DOMAIN solutions' PROVE Traders(solutions'[i]) \subseteq matched'
    <3>1. CASE i \in DOMAIN solutions
      BY <1>4, <2>3, <2>7, <3>1
    <3>2. CASE i = Len(solutions) + 1
      BY <1>4, <2>2, <2>7, <3>2
    <3> QED BY <2>7, <3>1, <3>2
  <2>9. matched' \subseteq MatchTried'
    BY <1>2, <1>4, <2>3
  <2> QED BY <1>0, <2>6, <2>7, <2>8, <2>9 DEF OnceInv, Traders
<1> QED BY <1>0, <1>3, <1>4

(* The solution of pass 2 for the answer r of routeOrder. *)
RoutedSolution(r) ==
    [id |-> Len(solutions), prices |-> r.prices, trades |-> r.trades,
     interactions |-> r.interactions, gas |-> r.gas]

LEMMA RoutedTrader ==
    ASSUME NEW o, NEW found, routeOrder(o, found).why = "ok"
    PROVE  LET s == RoutedSolution(routeOrder(o, found))
           IN  s.id = Len(solutions) /\ DOMAIN s.trades = {1} /\ s.trades[1].order = o.uid
<1>1. routeOrder(o, found).trades \in {<<Trade(o, o.sellAmount)>>, <<Trade(o, o.buyAmount)>>}
  BY DEF routeOrder, routeBuy, routeSell
<1> QED BY <1>1 DEF RoutedSolution, Trade

(* What one turn of pass 2 does. *)
LEMMA RouteTurn ==
    ASSUME RouteNext
    PROVE  /\ pc = "route" /\ pc' = "route" /\ ~expired /\ k <= Len(orders) /\ k' = k + 1
           /\ UNCHANGED <<auction, cfg, expired, pools, graph, orders, matches, matched>>
           /\ \/ Skips(orders[k]) /\ UNCHANGED <<solutions, stats>>
              \/ /\ ~Skips(orders[k])
                 /\ LET r == routeOrder(orders[k], RouteFor(orders[k]))
                    IN  \/ /\ r.why = "ok" /\ solutions' = Append(solutions, RoutedSolution(r))
                           /\ Count("routes", 1)
                        \/ /\ UNCHANGED solutions
                           /\ \E why \in {"noRoute", "limit", "unprofitable"} : Count(why, 1)
<1> DEFINE o == orders[k]
           found == RouteFor(o)
           r == routeOrder(o, found)
<1>1. ~Skips(o) => Answer(r)
  BY DEF RouteNext
<1>2. r.why \in {"ok", "noRoute", "limit"}
  <2> HIDE DEF found, o
  <2> QED BY DEF routeOrder, routeBuy, routeSell
<1> HIDE DEF r
<1>3. Answer(r) => \/ /\ r.why = "ok" /\ solutions' = Append(solutions, RoutedSolution(r))
                     /\ Count("routes", 1)
                  \/ /\ UNCHANGED solutions
                     /\ \E why \in {"noRoute", "limit", "unprofitable"} : Count(why, 1)
  BY <1>2 DEF Answer, RoutedSolution
<1> QED BY <1>1, <1>3 DEF RouteNext, r

LEMMA RouteOnce == ASSUME Args, OrdersInv, OnceInv, RouteNext PROVE OnceInv'
<1> DEFINE o == orders[k]
           r == routeOrder(o, RouteFor(o))
           s == RoutedSolution(r)
<1>0. /\ pc = "route" /\ pc' = "route" /\ k' = k + 1 /\ k \in Nat \ {0} /\ k <= Len(orders)
      /\ UNCHANGED <<orders, matched>>
      /\ \/ UNCHANGED solutions
         \/ r.why = "ok" /\ o.uid \notin matched /\ solutions' = Append(solutions, s)
  BY RouteTurn DEF Args, Skips
<1>1. k \in DOMAIN orders /\ \A i, j \in DOMAIN orders : orders[i].uid = orders[j].uid => i = j
  BY <1>0, OrdersKnown
<1>2. o.uid \notin RouteTried
  <2>1. \A h \in DOMAIN orders : h < k => h # k
    BY <1>0
  <2> QED BY <1>1, <2>1 DEF RouteTried
<1>3. RouteTried \cup {o.uid} \subseteq RouteTried'
  <2>1. \A h \in DOMAIN orders : h < k \/ h = k => h < k + 1
    BY <1>0, OrdersKnown
  <2> QED BY <1>0, <1>1, <2>1 DEF RouteTried
<1>4. Listed(solutions) /\ Once(solutions)
      /\ \A i \in DOMAIN solutions : Traders(solutions[i]) \subseteq matched \cup RouteTried
  BY <1>0 DEF OnceInv
<1>5. CASE UNCHANGED solutions
  BY <1>0, <1>3, <1>4, <1>5 DEF OnceInv, Traders
<1>6. CASE r.why = "ok" /\ o.uid \notin matched /\ solutions' = Append(solutions, s)
  <2>1. s.id = Len(solutions) /\ DOMAIN s.trades = {1} /\ s.trades[1].order = o.uid
    BY <1>6, RoutedTrader
  <2> HIDE DEF s, o, r
  <2>2. Traders(s) = {o.uid} /\ \A g, h \in DOMAIN s.trades : g = h
    BY <2>1 DEF Traders
  <2>3. \A i \in DOMAIN solutions : Traders(solutions[i]) \cap Traders(s) = {}
    BY <1>2, <1>4, <1>6, <2>2
  <2>4. Once(solutions')
    BY <1>4, <1>6, <2>1, <2>2, <2>3, AppendOnce
  <2>5. /\ Listed(solutions') /\ DOMAIN solutions = 1 .. Len(solutions) /\ Len(solutions) \in Nat
        /\ DOMAIN solutions' = 1 .. Len(solutions) + 1
        /\ \A i \in 1 .. Len(solutions) : solutions'[i] = solutions[i]
        /\ solutions'[Len(solutions) + 1] = s
    BY <1>4, <1>6, AppendListed
  <2>6. ASSUME NEW i \in DOMAIN solutions' PROVE Traders(solutions'[i]) \subseteq matched' \cup RouteTried'
    <3>1. CASE i \in DOMAIN solutions
      BY <1>0, <1>3, <1>4, <2>5, <3>1
    <3>2. CASE i = Len(solutions) + 1
      BY <1>3, <2>2, <2>5, <3>2
    <3> QED BY <2>5, <3>1, <3>2
  <2> QED BY <1>0, <2>4, <2>5, <2>6 DEF OnceInv, Traders
<1> QED BY <1>0, <1>5, <1>6

(* Capping the answer keeps a prefix of it. *)
LEMMA CapListed ==
    ASSUME NEW all, Listed(all), NEW max \in Int
    PROVE  /\ Listed(Cap(all, max)) /\ DOMAIN Cap(all, max) \subseteq DOMAIN all
           /\ \A i \in DOMAIN Cap(all, max) : Cap(all, max)[i] = all[i]
<1>1. CASE max <= 0
  BY <1>1, EmptyListed DEF Cap
<1>2. CASE max \in Nat /\ ~(max <= 0)
  BY <1>2, PrefixListed DEF Cap
<1> QED BY <1>1, <1>2

LEMMA NextOnce == ASSUME Args, OrdersInv, MatchInv, OnceInv, [Next]_vars PROVE OnceInv'
<1>1. CASE TakeMatch
  BY <1>1, TakeOnce
<1>2. CASE RouteNext
  BY <1>2, RouteOnce
<1>3. CASE Finish
  <2> DEFINE new == Cap(solutions, cfg.maxSolutions)
  <2>1. solutions' = new /\ pc' = "done" /\ cfg.maxSolutions \in Int /\ Listed(solutions) /\ Once(solutions)
    BY <1>3, SolveAssumption DEF Finish, Args, OnceInv
  <2>2. /\ Listed(new) /\ DOMAIN new \subseteq DOMAIN solutions
        /\ \A i \in DOMAIN new : new[i] = solutions[i]
    BY <2>1, CapListed
  <2> HIDE DEF new
  <2>3. Once(new)
    BY <2>1, <2>2 DEF Once
  <2> QED BY <2>1, <2>2, <2>3 DEF OnceInv
<1>4. CASE BuildPool \/ PoolsCancelled \/ PoolsBuilt \/ GraphCancelled \/ MakeGraph \/ Pair
  <2>1. /\ UNCHANGED <<solutions, matched, stats>> /\ pc \in {"pools", "graph", "pair"}
        /\ pc' \in {"pools", "graph", "pair", "done"}
    BY <1>4 DEF BuildPool, PoolsCancelled, PoolsBuilt, GraphCancelled, MakeGraph, Pair, Stage
  <2> QED BY <2>1 DEF OnceInv
<1>5. CASE Paired
  <2>1. UNCHANGED <<solutions, matched>> /\ pc = "pair" /\ pc' = "take"
    BY <1>5 DEF Paired, Stage
  <2> QED BY <2>1, EmptyListed DEF OnceInv
<1>6. CASE Taken
  <2>1. UNCHANGED <<solutions, matched>> /\ pc = "take" /\ pc' = "route"
    BY <1>6 DEF Taken, Stage
  <2> QED BY <2>1 DEF OnceInv, Traders
<1>7. CASE UNCHANGED <<pc, k, orders, matches, matched, solutions, stats>>
  BY <1>7 DEF OnceInv, Traders, MatchTried, RouteTried
<1> QED BY <1>1, <1>2, <1>3, <1>4, <1>5, <1>6, <1>7 DEF Next, Step, Expire, vars

-----------------------------------------------------------------------------
(***************************************************************************)
(* The counts.                                                             *)
(***************************************************************************)
Counters == [cow : Nat, routes : Nat, noRoute : Nat, limit : Nat, unprofitable : Nat]

(* The orders settled by pass 1, and those of them pass 2 has come past. *)
Settled == { h \in DOMAIN orders : orders[h].uid \in matched }
Behind  == { h \in Settled : h < k }

CountInv ==
    /\ stats \in Counters
    /\ pc \in {"take", "route"} => Cardinality(Settled) = 2 * stats.cow
    /\ pc = "take" => k - 1 <= Len(matches) /\ Reported = 2 * (k - 1)
    /\ pc = "route" /\ ~expired =>
          k - 1 <= Len(orders) /\ Reported + Cardinality(Behind) = 2 * Len(matches) + (k - 1)
    /\ NoOrderLost

LEMMA NoneReported ==
    ASSUME stats = NoStats
    PROVE  stats \in Counters /\ Reported = 0 /\ stats.cow = 0
  BY DEF NoStats, Counters, Reported

LEMMA CountOne ==
    ASSUME stats \in Counters, NEW n \in Nat,
           NEW why \in {"routes", "noRoute", "limit", "unprofitable"}, Count(why, n)
    PROVE  stats' \in Counters /\ Reported' = Reported + n /\ stats'.cow = stats.cow
<1> USE DEF Counters, Reported, Count
<1>1. CASE why = "routes"
  BY <1>1
<1>2. CASE why = "noRoute"
  BY <1>2
<1>3. CASE why = "limit"
  BY <1>3
<1>4. CASE why = "unprofitable"
  BY <1>4
<1> QED BY <1>1, <1>2, <1>3, <1>4

LEMMA CountMatch ==
    ASSUME stats \in Counters, Count("cow", 1)
    PROVE  stats' \in Counters /\ Reported' = Reported + 2 /\ stats'.cow = stats.cow + 1
  BY DEF Counters, Reported, Count

LEMMA ReportedNat == ASSUME stats \in Counters PROVE Reported \in Nat /\ stats.cow \in Nat
  BY DEF Counters, Reported

LEMMA SettledFinite ==
    ASSUME Args, OrdersInv
    PROVE  /\ IsFiniteSet(Settled) /\ Cardinality(Settled) \in Nat
           /\ IsFiniteSet(Behind) /\ Cardinality(Behind) \in Nat
<1>1. Len(orders) \in Nat /\ DOMAIN orders = 1 .. Len(orders)
  BY OrdersKnown
<1>2. IsFiniteSet(1 .. Len(orders))
  <2>1. 1 \in Int /\ Len(orders) \in Int
    BY <1>1
  <2> QED BY ONLY <2>1, FS_Interval
<1>3. Settled \subseteq 1 .. Len(orders) /\ Behind \subseteq 1 .. Len(orders)
  BY <1>1 DEF Settled, Behind
<1> QED BY <1>2, <1>3, FS_Subset, FS_CardinalityType

LEMMA InitCount == Init => CountInv
<1> SUFFICES ASSUME Init PROVE CountInv
  OBVIOUS
<1> QED BY NoneReported DEF Init, CountInv, NoOrderLost

LEMMA TakeCount == ASSUME Args, OrdersInv, MatchInv, OnceInv, CountInv, TakeMatch PROVE CountInv'
<1> DEFINE m == matches[k]
           a == orders[m[1]]
           b == orders[m[2]]
<1>0. /\ pc = "take" /\ pc' = "take" /\ k' = k + 1 /\ k \in Nat \ {0} /\ k <= Len(matches)
      /\ UNCHANGED <<orders, matches>>
      /\ \/ matched' = matched /\ Count("unprofitable", 2)
         \/ matched' = matched \cup {a.uid, b.uid} /\ Count("cow", 1)
  BY DEF TakeMatch, Args, DropMatch
<1>1. /\ stats \in Counters /\ Cardinality(Settled) = 2 * stats.cow /\ Reported = 2 * (k - 1)
      /\ Reported \in Nat /\ stats.cow \in Nat
  BY <1>0, ReportedNat DEF CountInv
<1>2. Len(matches) \in Nat
  BY ListedSeq DEF MatchInv
<1>3. CASE matched' = matched /\ Count("unprofitable", 2)
  <2>1. stats' \in Counters /\ Reported' = Reported + 2 /\ stats'.cow = stats.cow
    BY <1>1, <1>3, CountOne
  <2>2. Settled' = Settled
    BY <1>0, <1>3 DEF Settled
  <2>3. k' - 1 <= Len(matches') /\ Reported' = 2 * (k' - 1)
    BY <1>0, <1>1, <1>2, <2>1
  <2> QED BY <1>0, <1>1, <2>1, <2>2, <2>3 DEF CountInv, NoOrderLost
<1>4. CASE matched' = matched \cup {a.uid, b.uid} /\ Count("cow", 1)
  <2>1. stats' \in Counters /\ Reported' = Reported + 2 /\ stats'.cow = stats.cow + 1
    BY <1>1, <1>4, CountMatch
  <2>2. /\ m[1] \in DOMAIN orders /\ m[2] \in DOMAIN orders /\ m[1] # m[2]
        /\ m[1] \notin Settled /\ m[2] \notin Settled
    BY <1>0, FreshMatch DEF Settled
  <2>3. Settled' = (Settled \cup {m[1]}) \cup {m[2]}
    <3>1. \A i, j \in DOMAIN orders : orders[i].uid = orders[j].uid => i = j
      BY OrdersKnown
    <3>2. Settled' = { h \in DOMAIN orders : orders[h].uid \in matched \cup {a.uid, b.uid} }
      BY <1>0, <1>4 DEF Settled
    <3> QED BY <2>2, <3>1, <3>2 DEF Settled
  <2> HIDE DEF m
  <2>4. Cardinality(Settled') = Cardinality(Settled) + 2
    <3> DEFINE S1 == Settled \cup {m[1]}
    <3>1. IsFiniteSet(S1) /\ Cardinality(S1) = Cardinality(Settled) + 1 /\ m[2] \notin S1
      BY <2>2, SettledFinite, FS_AddElement
    <3> HIDE DEF S1
    <3>2. Cardinality(S1 \cup {m[2]}) = Cardinality(S1) + 1
      BY <3>1, FS_AddElement
    <3> QED BY <2>3, <3>1, <3>2, SettledFinite DEF S1
  <2>5. k' - 1 <= Len(matches') /\ Reported' = 2 * (k' - 1)
    BY <1>0, <1>1, <1>2, <2>1
  <2>6. Cardinality(Settled') = 2 * stats'.cow
    BY <1>1, <2>1, <2>4
  <2> QED BY <1>0, <2>1, <2>5, <2>6 DEF CountInv, NoOrderLost
<1> QED BY <1>0, <1>3, <1>4

LEMMA RouteCount == ASSUME Args, OrdersInv, MatchInv, CountInv, RouteNext PROVE CountInv'
<1>0. /\ pc = "route" /\ pc' = "route" /\ k' = k + 1 /\ k \in Nat \ {0} /\ k <= Len(orders)
      /\ ~expired /\ UNCHANGED <<orders, matches, matched>>
      /\ \/ Skips(orders[k]) /\ UNCHANGED stats
         \/ ~Skips(orders[k]) /\ \E why \in {"routes", "noRoute", "limit", "unprofitable"} : Count(why, 1)
  BY RouteTurn DEF Args
<1>1. /\ stats \in Counters /\ Cardinality(Settled) = 2 * stats.cow /\ Reported \in Nat
      /\ Reported + Cardinality(Behind) = 2 * Len(matches) + (k - 1)
  BY <1>0, ReportedNat DEF CountInv
<1>2. k \in DOMAIN orders /\ \A h \in DOMAIN orders : h < k + 1 <=> h < k \/ h = k
  BY <1>0, OrdersKnown
<1>3. Settled' = Settled
  BY <1>0 DEF Settled
<1>4. Len(orders) \in Nat /\ k' - 1 <= Len(orders')
  BY <1>0, OrdersKnown
<1>5. Cardinality(Behind) \in Nat /\ Len(matches) \in Nat
  BY SettledFinite, ListedSeq DEF MatchInv
<1>6. CASE Skips(orders[k]) /\ UNCHANGED stats
  <2>1. Behind' = Behind \cup {k} /\ k \notin Behind
    BY <1>0, <1>2, <1>3, <1>6 DEF Behind, Settled, Skips
  <2>2. Cardinality(Behind') = Cardinality(Behind) + 1
    BY <2>1, SettledFinite, FS_AddElement
  <2>3. Reported' = Reported
    BY <1>6 DEF Reported
  <2>4. Reported' + Cardinality(Behind') = 2 * Len(matches') + (k' - 1)
    BY <1>0, <1>1, <1>5, <2>2, <2>3
  <2> QED BY <1>0, <1>1, <1>3, <1>4, <1>6, <2>4 DEF CountInv, NoOrderLost
<1>7. CASE ~Skips(orders[k]) /\ \E why \in {"routes", "noRoute", "limit", "unprofitable"} : Count(why, 1)
  <2>1. stats' \in Counters /\ Reported' = Reported + 1 /\ stats'.cow = stats.cow
    BY <1>1, <1>7, CountOne
  <2>2. Behind' = Behind
    BY <1>0, <1>2, <1>3, <1>7 DEF Behind, Settled, Skips
  <2>3. Reported' + Cardinality(Behind') = 2 * Len(matches') + (k' - 1)
    BY <1>0, <1>1, <1>5, <2>1, <2>2
  <2> QED BY <1>0, <1>1, <1>3, <1>4, <2>1, <2>3 DEF CountInv, NoOrderLost
<1> QED BY <1>0, <1>6, <1>7

LEMMA TakenCount == ASSUME Args, OrdersInv, MatchInv, CountInv, Taken PROVE CountInv'
<1>0. /\ pc = "take" /\ pc' = "route" /\ k' = 1 /\ UNCHANGED <<expired, orders, matches, matched, stats>>
      /\ expired \/ k > Len(matches)
  BY DEF Taken, Stage
<1>1. /\ stats \in Counters /\ Cardinality(Settled) = 2 * stats.cow /\ Reported = 2 * (k - 1)
      /\ k - 1 <= Len(matches) /\ k \in Nat /\ Len(matches) \in Nat /\ Len(orders) \in Nat
  BY <1>0, ListedSeq, OrdersKnown DEF CountInv, MatchInv, Args
<1>2. Settled' = Settled /\ Reported' = Reported
  BY <1>0 DEF Settled, Reported
<1>3. Behind' = {} /\ Cardinality({}) = 0
  <2>1. \A h \in DOMAIN orders : ~(h < 1)
    BY OrdersKnown
  <2> QED BY <1>0, <1>2, <2>1, FS_EmptySet DEF Behind, Settled
<1>4. ASSUME ~expired
      PROVE  k' - 1 <= Len(orders) /\ Reported + 0 = 2 * Len(matches) + (k' - 1)
  <2>1. k - 1 = Len(matches)
    BY <1>0, <1>1, <1>4
  <2> QED BY <1>0, <1>1, <2>1
<1> QED BY <1>0, <1>1, <1>2, <1>3, <1>4 DEF CountInv, NoOrderLost

LEMMA FinishCount == ASSUME Args, OrdersInv, MatchInv, CountInv, Finish PROVE CountInv'
<1>0. /\ pc = "route" /\ pc' = "done" /\ UNCHANGED <<expired, orders, matches, stats>>
      /\ expired \/ k > Len(orders)
  BY DEF Finish, Routed
<1>1. stats \in Counters /\ Reported \in Nat /\ stats.cow \in Nat
  BY ReportedNat DEF CountInv
<1>2. ASSUME ~expired PROVE Reported = Len(orders) + 2 * (Len(matches) - stats.cow)
  <2>1. /\ Cardinality(Settled) = 2 * stats.cow /\ k - 1 <= Len(orders)
        /\ Reported + Cardinality(Behind) = 2 * Len(matches) + (k - 1)
    BY <1>0, <1>2 DEF CountInv
  <2>2. k \in Nat /\ Len(orders) \in Nat /\ Len(matches) \in Nat /\ DOMAIN orders = 1 .. Len(orders)
    BY OrdersKnown, ListedSeq DEF Args, MatchInv
  <2>3. k - 1 = Len(orders)
    BY <1>0, <1>2, <2>1, <2>2
  <2>4. Behind = Settled
    BY <2>2, <2>3 DEF Behind, Settled
  <2> QED BY <1>1, <2>1, <2>2, <2>3, <2>4
<1>3. Reported' = Reported
  BY <1>0 DEF Reported
<1> QED BY <1>0, <1>1, <1>2, <1>3 DEF CountInv, NoOrderLost

LEMMA NextCount == ASSUME Args, OrdersInv, MatchInv, OnceInv, CountInv, [Next]_vars PROVE CountInv'
<1>1. CASE TakeMatch
  BY <1>1, TakeCount
<1>2. CASE RouteNext
  BY <1>2, RouteCount
<1>3. CASE Taken
  BY <1>3, TakenCount
<1>4. CASE Finish
  BY <1>4, FinishCount
<1>5. CASE BuildPool \/ PoolsCancelled \/ PoolsBuilt \/ GraphCancelled \/ MakeGraph \/ Pair
  <2>1. /\ UNCHANGED <<stats, expired>> /\ pc \in {"pools", "graph", "pair"}
        /\ pc' \in {"pools", "graph", "pair"} \/ (pc' = "done" /\ expired)
    BY <1>5 DEF BuildPool, PoolsCancelled, PoolsBuilt, GraphCancelled, MakeGraph, Pair, Stage
  <2> QED BY <2>1 DEF CountInv, NoOrderLost
<1>6. CASE Paired
  <2>1. UNCHANGED <<stats, matched, orders, matches>> /\ pc = "pair" /\ pc' = "take" /\ k' = 1
    BY <1>6 DEF Paired, Stage
  <2>2. matched = {} /\ stats = NoStats /\ Len(matches) \in Nat
    BY <2>1, ListedSeq DEF OnceInv, MatchInv
  <2>3. Settled' = {} /\ Cardinality({}) = 0
    BY <2>1, <2>2, FS_EmptySet DEF Settled
  <2>4. stats \in Counters /\ Reported = 0 /\ stats.cow = 0 /\ Reported' = Reported
    BY <2>1, <2>2, NoneReported DEF Reported
  <2> QED BY <2>1, <2>2, <2>3, <2>4 DEF CountInv, NoOrderLost
<1>7. CASE UNCHANGED <<pc, k, orders, matches, matched, stats>> /\ expired' \in {expired, TRUE}
  BY <1>7 DEF CountInv, NoOrderLost, Reported, Settled, Behind
<1> QED BY <1>1, <1>2, <1>3, <1>4, <1>5, <1>6, <1>7 DEF Next, Step, Expire, vars

-----------------------------------------------------------------------------
(***************************************************************************)
(* What a solution settles: sums over one or two trades and hops.          *)
(***************************************************************************)
SumUpTo(s, n, f) == IF n = 0 THEN 0 ELSE f[n - 1] + s[n]

LEMMA TotalSums ==
    ASSUME NEW N \in Nat, NEW s \in [1 .. N -> Int]
    PROVE  \E u : /\ \A n \in 0 .. N : u[n] = SumUpTo(s, n, u)
                 /\ Total(s) = u[N]
<1> DEFINE step == [na \in (1 .. N) \X Int |-> na[2] + s[na[1]]]
           Solves(f) == f = [n \in 0 .. N |-> SumUpTo(s, n, f)]
           upTo == CHOOSE f : Solves(f)
<1>1. step \in [(1 .. N) \X Int -> Int] /\ 0 \in Int
  OBVIOUS
<1>2. PICK g : Iterates(g, N, Int, 0, step)
  <2> HIDE DEF step
  <2> QED BY <1>1, RecursionExists
<1>3. Solves(g)
  <2>1. ASSUME NEW n \in 0 .. N PROVE g[n] = SumUpTo(s, n, g)
    <3>1. CASE n = 0
      BY <1>2, <3>1 DEF Iterates, SumUpTo
    <3>2. CASE n # 0
      <4>1. n \in 1 .. N /\ n - 1 \in 0 .. N
        BY <3>2
      <4>2. g[n - 1] \in Int /\ g[n] = step[<<n, g[n - 1]>>]
        <5> HIDE DEF step
        <5> QED BY <1>2, <4>1 DEF Iterates
      <4> QED BY <3>2, <4>1, <4>2 DEF SumUpTo
    <3> QED BY <3>1, <3>2
  <2>2. g = [n \in 0 .. N |-> g[n]]
    BY <1>2 DEF Iterates
  <2> QED BY <2>1, <2>2
<1>4. Solves(upTo)
  <2> HIDE DEF Solves
  <2> QED BY <1>3
<1>5. Len(s) = N
  BY IsASeq, LenProperties
<1>6. Total(s) = upTo[N]
  BY <1>5 DEF Total, SumUpTo
<1> HIDE DEF upTo
<1> QED BY <1>4, <1>6

LEMMA TotalNone == ASSUME NEW s \in [1 .. 0 -> Int] PROVE Total(s) = 0
<1>1. PICK u : /\ \A n \in 0 .. 0 : u[n] = SumUpTo(s, n, u)
               /\ Total(s) = u[0]
  BY TotalSums
<1> QED BY <1>1 DEF SumUpTo

LEMMA TotalOne == ASSUME NEW s \in [1 .. 1 -> Int] PROVE Total(s) = s[1]
<1>1. PICK u : /\ \A n \in 0 .. 1 : u[n] = SumUpTo(s, n, u)
               /\ Total(s) = u[1]
  BY TotalSums
<1>2. u[0] = 0 /\ u[1] = u[0] + s[1]
  BY <1>1 DEF SumUpTo
<1> QED BY <1>1, <1>2

LEMMA TotalTwo == ASSUME NEW s \in [1 .. 2 -> Int] PROVE Total(s) = s[1] + s[2]
<1>1. PICK u : /\ \A n \in 0 .. 2 : u[n] = SumUpTo(s, n, u)
               /\ Total(s) = u[2]
  BY TotalSums
<1>2. u[0] = 0 /\ u[1] = u[0] + s[1] /\ u[2] = u[1] + s[2]
  BY <1>1 DEF SumUpTo
<1> QED BY <1>1, <1>2

LEMMA DivExact ==
    ASSUME NEW a \in Nat \ {0}, NEW b \in Nat
    PROVE  (a * b) \div a = b
  OBVIOUS

LEMMA OrderFound ==
    ASSUME Args, NEW o, \E j \in DOMAIN auction.orders : o = auction.orders[j],
           NEW tr, tr.order = o.uid
    PROVE  OrderOf(tr) = o
  BY AuctionOrders DEF OrderOf, Unique

-----------------------------------------------------------------------------
(* minInputFor: whatever the quotes, the input it ends with buys enough.   *)
Buys(sell, buy, want, x) == ~(BestRoute(graph, sell, buy, x).out < want)

Narrowed(sell, buy, want, s) ==
    LET mid == (s.lo + s.hi) \div 2
    IN  IF s.lo > s.hi THEN s
        ELSE IF BestRoute(graph, sell, buy, mid).out < want
        THEN [lo |-> mid + 1, hi |-> s.hi, best |-> s.best]
        ELSE [lo |-> s.lo, hi |-> mid - 1, best |-> mid]

Interval(max) == [lo : 1 .. max + 1, hi : 0 .. max, best : 1 .. max]

LEMMA NarrowedIn ==
    ASSUME NEW sell, NEW buy, NEW want, NEW max \in Nat,
           NEW s \in Interval(max), Buys(sell, buy, want, s.best)
    PROVE  LET n == Narrowed(sell, buy, want, s)
           IN  n \in Interval(max) /\ Buys(sell, buy, want, n.best)
<1> DEFINE mid == (s.lo + s.hi) \div 2
<1>1. s.lo \in 1 .. max + 1 /\ s.hi \in 0 .. max /\ s.best \in 1 .. max
  BY DEF Interval
<1>2. ~(s.lo > s.hi) => mid \in Int /\ s.lo <= mid /\ mid <= s.hi
  BY <1>1
<1> HIDE DEF mid
<1>3. CASE s.lo > s.hi
  BY <1>3 DEF Narrowed
<1>4. CASE ~(s.lo > s.hi) /\ BestRoute(graph, sell, buy, mid).out < want
  <2>1. Narrowed(sell, buy, want, s) = [lo |-> mid + 1, hi |-> s.hi, best |-> s.best]
    BY <1>4 DEF Narrowed, mid
  <2> QED BY <1>1, <1>2, <1>4, <2>1 DEF Interval
<1>5. CASE ~(s.lo > s.hi) /\ ~(BestRoute(graph, sell, buy, mid).out < want)
  <2>1. Narrowed(sell, buy, want, s) = [lo |-> s.lo, hi |-> mid - 1, best |-> mid]
    BY <1>5 DEF Narrowed, mid
  <2> QED BY <1>1, <1>2, <1>5, <2>1 DEF Interval, Buys
<1> QED BY <1>3, <1>4, <1>5

LEMMA MinInputBuys ==
    ASSUME NEW sell, NEW buy, NEW want, NEW max \in Nat \ {0},
           NEW found, found = minInputFor(sell, buy, want, max), found.route # NoRoute
    PROVE  /\ found.in \in 1 .. max /\ found.route = BestRoute(graph, sell, buy, found.in)
           /\ ~(found.route.out < want)
<1> DEFINE A == { s \in Interval(max) : Buys(sell, buy, want, s.best) }
           narrow == [s \in Interval(max) |-> Narrowed(sell, buy, want, s)]
           base == [lo |-> 1, hi |-> max, best |-> max]
           Body(n, f) == IF n = 0 THEN base ELSE narrow[f[n - 1]]
           Solves(f) == f = [n \in 0 .. Iterations |-> Body(n, f)]
           after == CHOOSE f : Solves(f)
           in == after[Iterations].best
           step == [na \in (1 .. Iterations) \X A |-> narrow[na[2]]]
<1>0. Iterations \in Nat
  BY SolveAssumption
<1>1. found = IF BestRoute(graph, sell, buy, max).out < want THEN [in |-> 0, route |-> NoRoute]
              ELSE [in |-> in, route |-> BestRoute(graph, sell, buy, in)]
  BY DEF minInputFor, Narrowed, Interval
<1> HIDE DEF in
<1>2. /\ Buys(sell, buy, want, max)
      /\ found.in = in /\ found.route = BestRoute(graph, sell, buy, in)
  BY <1>1 DEF Buys
<1>3. base \in A
  BY <1>2 DEF Interval
<1>4. \A s \in A : narrow[s] \in A
  BY NarrowedIn
<1> HIDE DEF A, narrow, base
<1>5. step \in [(1 .. Iterations) \X A -> A]
  BY <1>4
<1>6. PICK g : Iterates(g, Iterations, A, base, step)
  <2> HIDE DEF step
  <2> QED BY <1>0, <1>3, <1>5, RecursionExists
<1>7. ASSUME NEW f, NEW n \in 1 .. Iterations, f[n - 1] \in A PROVE Body(n, f) = step[<<n, f[n - 1]>>]
  <2>1. n # 0 /\ <<n, f[n - 1]>> \in (1 .. Iterations) \X A
    BY <1>0, <1>7
  <2> QED BY <2>1
<1>8. \A f : Body(0, f) = base
  OBVIOUS
<1> HIDE DEF step, Body
<1>9. Solves(g)
  <2>1. ASSUME NEW n \in 0 .. Iterations PROVE g[n] = Body(n, g)
    <3>1. CASE n = 0
      BY <1>6, <1>8, <3>1 DEF Iterates
    <3>2. CASE n # 0
      <4>1. n \in 1 .. Iterations /\ g[n - 1] \in A
        BY <1>0, <1>6, <3>2 DEF Iterates
      <4> QED BY <1>6, <1>7, <4>1 DEF Iterates
    <3> QED BY <3>1, <3>2
  <2>2. g = [n \in 0 .. Iterations |-> g[n]]
    BY <1>6 DEF Iterates
  <2> QED BY <2>1, <2>2
<1>10. Solves(after)
  <2> HIDE DEF Solves
  <2> QED BY <1>9
<1> HIDE DEF after
<1>11. \A n \in 0 .. Iterations : after[n] = Body(n, after)
  BY <1>10
<1>12. Follows(after, Iterations, A, base, step)
  BY <1>0, <1>7, <1>8, <1>11 DEF Follows
<1>13. after[Iterations] \in A
  <2>1. \A n \in 0 .. Iterations : after[n] \in A
    <3> HIDE DEF Solves
    <3> QED BY <1>0, <1>3, <1>5, <1>12, RecursionTyped
  <2> QED BY <1>0, <2>1
<1>14. in \in 1 .. max /\ Buys(sell, buy, want, in)
  BY <1>13 DEF in, A, Interval
<1> QED BY <1>2, <1>14 DEF Buys

-----------------------------------------------------------------------------
(* What the hops of a route carry from token to token. *)
HopsCarry(r, sell, buy, x) ==
    \/ \E h : /\ r.hops = <<h>> /\ h.tokenIn = sell /\ h.tokenOut = buy
             /\ h.amountIn = x /\ h.out = r.out
    \/ \E g, h : /\ r.hops = <<g, h>> /\ g.pool # h.pool
                /\ g.tokenIn = sell /\ h.tokenIn = g.tokenOut /\ h.tokenOut = buy
                /\ g.tokenOut \notin {sell, buy}
                /\ g.amountIn = x /\ h.amountIn = g.out /\ g.out \in Nat /\ h.out = r.out

LEMMA RoutesCarry ==
    ASSUME PoolList(pools), graph = NewGraph(pools), NEW sell \in Names, NEW buy \in Names, NEW x,
           NEW r, r = BestRoute(graph, sell, buy, x), r # NoRoute
    PROVE  HopsCarry(r, sell, buy, x) /\ r.out \in Nat \ {0}
<1> DEFINE P == ToSet(pools)
<1>1. UniqueIds(P) /\ Indexes(graph, P)
  BY GraphIndexes
<1> HIDE DEF P
<1>2. r \in AllRoutes(graph, sell, buy, x)
  BY <1>1, BestRouteIs
<1>3. r.out \in Nat /\ r.out # 0
  BY <1>1, <1>2, RouteNumbers DEF Numbers
<1>4. Direct(r, P, sell, buy, x) \/ TwoHop(r, P, sell, buy, x)
  BY <1>1, <1>2, RoutesShape
<1>5. CASE Direct(r, P, sell, buy, x)
  <2>1. PICK p \in P : r = Single(p, sell, buy, x)
    BY <1>5 DEF Direct
  <2> DEFINE h == Hop(p, sell, buy, x, p.quote[<<sell, buy>>][x])
  <2>2. r.hops = <<h>> /\ r.out = p.quote[<<sell, buy>>][x]
    BY <2>1 DEF Single, MakeRoute
  <2>3. h.tokenIn = sell /\ h.tokenOut = buy /\ h.amountIn = x /\ h.out = r.out
    BY <2>2 DEF Hop
  <2> HIDE DEF h
  <2> QED BY <1>3, <2>2, <2>3 DEF HopsCarry
<1>6. CASE TwoHop(r, P, sell, buy, x)
  <2>1. PICK p \in P, q \in P, m \in Names \ {sell, buy} :
          Fits(p, m, q, sell, buy, x) /\ r = Joined(p, m, q, sell, buy, x)
    BY <1>6 DEF TwoHop
  <2> DEFINE y == p.quote[<<sell, m>>][x]
             g == Hop(p, sell, m, x, y)
             h == Hop(q, m, buy, y, q.quote[<<m, buy>>][y])
  <2>2. r.hops = <<g, h>> /\ r.out = q.quote[<<m, buy>>][y]
    BY <2>1 DEF Joined, MakeRoute
  <2>3. y \in Nat /\ p # q
    BY <2>1 DEF Fits, Quoted
  <2>4. p.id # q.id
    BY <1>1, <2>3 DEF UniqueIds
  <2>5. /\ g.pool = p.id /\ g.tokenIn = sell /\ g.tokenOut = m /\ g.amountIn = x /\ g.out = y
        /\ h.pool = q.id /\ h.tokenIn = m /\ h.tokenOut = buy /\ h.amountIn = y /\ h.out = r.out
    BY <2>2 DEF Hop
  <2> HIDE DEF g, h, y
  <2> QED BY <1>3, <2>2, <2>3, <2>4, <2>5 DEF HopsCarry
<1> QED BY <1>4, <1>5, <1>6

(* The sums of a settlement, apart for trades and for hops. *)
TradesIn(s, t) ==
    Total([j \in DOMAIN s.trades |->
              IF OrderOf(s.trades[j]).sell = t THEN Sold(s, s.trades[j]) ELSE 0])
TradesOut(s, t) ==
    Total([j \in DOMAIN s.trades |->
              IF OrderOf(s.trades[j]).buy = t THEN Bought(s, s.trades[j]) ELSE 0])
HopsIn(s, t) ==
    Total([h \in DOMAIN s.interactions |->
              IF s.interactions[h].tokenOut = t THEN s.interactions[h].out ELSE 0])
HopsOut(s, t) ==
    Total([h \in DOMAIN s.interactions |->
              IF s.interactions[h].tokenIn = t THEN s.interactions[h].amountIn ELSE 0])

LEMMA Flows ==
    ASSUME NEW s, NEW t
    PROVE  Inflow(s, t) = TradesIn(s, t) + HopsIn(s, t) /\ Outflow(s, t) = TradesOut(s, t) + HopsOut(s, t)
  BY DEF Inflow, Outflow, TradesIn, TradesOut, HopsIn, HopsOut

(* a, in token t, when u is that token. *)
If(u, t, a) == IF u = t THEN a ELSE 0

LEMMA OneTrade ==
    ASSUME NEW s, DOMAIN s.trades = 1 .. 1, NEW t, NEW o, OrderOf(s.trades[1]) = o,
           Sold(s, s.trades[1]) \in Int, Bought(s, s.trades[1]) \in Int
    PROVE  /\ TradesIn(s, t) = If(o.sell, t, Sold(s, s.trades[1]))
           /\ TradesOut(s, t) = If(o.buy, t, Bought(s, s.trades[1]))
<1> DEFINE f == [j \in 1 .. 1 |-> IF OrderOf(s.trades[j]).sell = t THEN Sold(s, s.trades[j]) ELSE 0]
           g == [j \in 1 .. 1 |-> IF OrderOf(s.trades[j]).buy = t THEN Bought(s, s.trades[j]) ELSE 0]
<1>1. f \in [1 .. 1 -> Int] /\ g \in [1 .. 1 -> Int]
  OBVIOUS
<1>2. f[1] = If(o.sell, t, Sold(s, s.trades[1])) /\ g[1] = If(o.buy, t, Bought(s, s.trades[1]))
  BY DEF If
<1>3. TradesIn(s, t) = Total(f) /\ TradesOut(s, t) = Total(g)
  BY DEF TradesIn, TradesOut
<1> HIDE DEF f, g
<1> QED BY <1>1, <1>2, <1>3, TotalOne

LEMMA TwoTrades ==
    ASSUME NEW s, DOMAIN s.trades = 1 .. 2, NEW t, NEW a, NEW b,
           OrderOf(s.trades[1]) = a, OrderOf(s.trades[2]) = b,
           \A j \in 1 .. 2 : Sold(s, s.trades[j]) \in Int /\ Bought(s, s.trades[j]) \in Int
    PROVE  /\ TradesIn(s, t) = If(a.sell, t, Sold(s, s.trades[1])) + If(b.sell, t, Sold(s, s.trades[2]))
           /\ TradesOut(s, t) = If(a.buy, t, Bought(s, s.trades[1])) + If(b.buy, t, Bought(s, s.trades[2]))
<1> DEFINE f == [j \in 1 .. 2 |-> IF OrderOf(s.trades[j]).sell = t THEN Sold(s, s.trades[j]) ELSE 0]
           g == [j \in 1 .. 2 |-> IF OrderOf(s.trades[j]).buy = t THEN Bought(s, s.trades[j]) ELSE 0]
<1>1. f \in [1 .. 2 -> Int] /\ g \in [1 .. 2 -> Int]
  OBVIOUS
<1>2. /\ f[1] = If(a.sell, t, Sold(s, s.trades[1])) /\ g[1] = If(a.buy, t, Bought(s, s.trades[1]))
      /\ f[2] = If(b.sell, t, Sold(s, s.trades[2])) /\ g[2] = If(b.buy, t, Bought(s, s.trades[2]))
  BY DEF If
<1>3. TradesIn(s, t) = Total(f) /\ TradesOut(s, t) = Total(g)
  BY DEF TradesIn, TradesOut
<1> HIDE DEF f, g
<1> QED BY <1>1, <1>2, <1>3, TotalTwo

LEMMA NoHops ==
    ASSUME NEW s, s.interactions = <<>>, NEW t
    PROVE  HopsIn(s, t) = 0 /\ HopsOut(s, t) = 0
<1> DEFINE f == [h \in DOMAIN s.interactions |->
                   IF s.interactions[h].tokenOut = t THEN s.interactions[h].out ELSE 0]
           g == [h \in DOMAIN s.interactions |->
                   IF s.interactions[h].tokenIn = t THEN s.interactions[h].amountIn ELSE 0]
<1>1. DOMAIN s.interactions = 1 .. 0
  OBVIOUS
<1>2. f \in [1 .. 0 -> Int] /\ g \in [1 .. 0 -> Int]
  BY <1>1
<1>3. HopsIn(s, t) = Total(f) /\ HopsOut(s, t) = Total(g)
  BY DEF HopsIn, HopsOut
<1> HIDE DEF f, g
<1> QED BY <1>2, <1>3, TotalNone

LEMMA OneHop ==
    ASSUME NEW s, NEW h, s.interactions = <<h>>, NEW t, h.out \in Int, h.amountIn \in Int
    PROVE  HopsIn(s, t) = If(h.tokenOut, t, h.out) /\ HopsOut(s, t) = If(h.tokenIn, t, h.amountIn)
<1> DEFINE f == [i \in 1 .. 1 |-> IF s.interactions[i].tokenOut = t THEN s.interactions[i].out ELSE 0]
           g == [i \in 1 .. 1 |-> IF s.interactions[i].tokenIn = t THEN s.interactions[i].amountIn ELSE 0]
<1>1. DOMAIN s.interactions = 1 .. 1 /\ s.interactions[1] = h
  OBVIOUS
<1>2. f \in [1 .. 1 -> Int] /\ g \in [1 .. 1 -> Int]
  BY <1>1
<1>3. f[1] = If(h.tokenOut, t, h.out) /\ g[1] = If(h.tokenIn, t, h.amountIn)
  BY <1>1 DEF If
<1>4. HopsIn(s, t) = Total(f) /\ HopsOut(s, t) = Total(g)
  BY <1>1 DEF HopsIn, HopsOut
<1> HIDE DEF f, g
<1> QED BY <1>2, <1>3, <1>4, TotalOne

LEMMA TwoHops ==
    ASSUME NEW s, NEW g, NEW h, s.interactions = <<g, h>>, NEW t,
           {g.out, g.amountIn, h.out, h.amountIn} \subseteq Int
    PROVE  /\ HopsIn(s, t) = If(g.tokenOut, t, g.out) + If(h.tokenOut, t, h.out)
           /\ HopsOut(s, t) = If(g.tokenIn, t, g.amountIn) + If(h.tokenIn, t, h.amountIn)
<1> DEFINE f == [i \in 1 .. 2 |-> IF s.interactions[i].tokenOut = t THEN s.interactions[i].out ELSE 0]
           e == [i \in 1 .. 2 |-> IF s.interactions[i].tokenIn = t THEN s.interactions[i].amountIn ELSE 0]
<1>1. DOMAIN s.interactions = 1 .. 2 /\ s.interactions[1] = g /\ s.interactions[2] = h
  OBVIOUS
<1>2. f \in [1 .. 2 -> Int] /\ e \in [1 .. 2 -> Int]
  BY <1>1
<1>3. /\ f[1] = If(g.tokenOut, t, g.out) /\ e[1] = If(g.tokenIn, t, g.amountIn)
      /\ f[2] = If(h.tokenOut, t, h.out) /\ e[2] = If(h.tokenIn, t, h.amountIn)
  BY <1>1 DEF If
<1>4. HopsIn(s, t) = Total(f) /\ HopsOut(s, t) = Total(e)
  BY <1>1 DEF HopsIn, HopsOut
<1> HIDE DEF f, e
<1> QED BY <1>2, <1>3, <1>4, TotalTwo

-----------------------------------------------------------------------------
NoPoolTwice(s) ==
    \A g, h \in DOMAIN s.interactions : s.interactions[g].pool = s.interactions[h].pool => g = h

SolutionOK(s) == TradesFair(s) /\ Balances(s) /\ NoPoolTwice(s)

FromAuction(o) == OrderOK(o) /\ \E j \in DOMAIN auction.orders : o = auction.orders[j]

LEMMA PricesAre ==
    ASSUME NEW o, o.sell # o.buy, NEW x, NEW y
    PROVE  Prices(o, x, y)[o.sell] = x /\ Prices(o, x, y)[o.buy] = y
  BY DEF Prices

(* A coincidence of wants: each side gets what the other sells. *)
LEMMA MatchSettles ==
    ASSUME Args, NEW a, NEW b, FromAuction(a), FromAuction(b), Crosses(a, b), NEW id, NEW gas
    PROVE  SolutionOK(MatchSolution(id, a, b, gas))
<1> DEFINE s == MatchSolution(id, a, b, gas)
           p == s.prices
<1>1. /\ s.trades = <<Trade(a, a.sellAmount), Trade(b, b.sellAmount)>> /\ s.interactions = <<>>
      /\ p = Prices(a, b.sellAmount, a.sellAmount)
  BY DEF MatchSolution
<1> HIDE DEF s
<1>2. /\ DOMAIN s.trades = 1 .. 2
      /\ s.trades[1].order = a.uid /\ s.trades[1].executed = a.sellAmount
      /\ s.trades[2].order = b.uid /\ s.trades[2].executed = b.sellAmount
  BY <1>1 DEF Trade
<1>3. OrderOf(s.trades[1]) = a /\ OrderOf(s.trades[2]) = b
  BY <1>2, OrderFound DEF FromAuction
<1>4. /\ a.kind = "sell" /\ b.kind = "sell" /\ a.sell = b.buy /\ a.buy = b.sell /\ a.sell # a.buy
      /\ b.sellAmount >= a.buyAmount /\ a.sellAmount >= b.buyAmount
      /\ a.sellAmount \in Nat \ {0} /\ b.sellAmount \in Nat \ {0}
      /\ a.buyAmount \in Nat /\ b.buyAmount \in Nat
  BY DEF Crosses, FromAuction, OrderOK
<1>5. p[a.sell] = b.sellAmount /\ p[a.buy] = a.sellAmount
  <2> HIDE DEF p
  <2> QED BY <1>1, <1>4, PricesAre
<1>6. Sold(s, s.trades[1]) = a.sellAmount /\ Sold(s, s.trades[2]) = b.sellAmount
  BY <1>2, <1>3, <1>4 DEF Sold
<1>7. Bought(s, s.trades[1]) = b.sellAmount /\ Bought(s, s.trades[2]) = a.sellAmount
  <2>1. Bought(s, s.trades[1]) = (a.sellAmount * b.sellAmount) \div a.sellAmount
    BY <1>2, <1>3, <1>4, <1>5 DEF Bought
  <2>2. Bought(s, s.trades[2]) = (b.sellAmount * a.sellAmount) \div b.sellAmount
    BY <1>2, <1>3, <1>4, <1>5 DEF Bought
  <2> QED BY <1>4, <2>1, <2>2, DivExact
<1>8. TradesFair(s)
  <2> SUFFICES ASSUME NEW j \in 1 .. 2
               PROVE  LET tr == s.trades[j]
                          o  == OrderOf(tr)
                      IN  /\ Sold(s, tr) * s.prices[o.sell] = Bought(s, tr) * s.prices[o.buy]
                          /\ Sold(s, tr) <= o.sellAmount /\ Bought(s, tr) >= o.buyAmount
                          /\ IF o.kind = "sell" THEN Sold(s, tr) = o.sellAmount
                                                ELSE Bought(s, tr) = o.buyAmount
    BY <1>2 DEF TradesFair
  <2>1. a.sellAmount * b.sellAmount = b.sellAmount * a.sellAmount
    BY <1>4
  <2>2. CASE j = 1
    BY <1>3, <1>4, <1>5, <1>6, <1>7, <2>1, <2>2
  <2>3. CASE j = 2
    BY <1>3, <1>4, <1>5, <1>6, <1>7, <2>1, <2>3
  <2> QED BY <2>2, <2>3
<1>9. ASSUME NEW t PROVE Inflow(s, t) \in Int /\ Inflow(s, t) = Outflow(s, t)
  <2>1. \A j \in 1 .. 2 : Sold(s, s.trades[j]) \in Int /\ Bought(s, s.trades[j]) \in Int
    BY <1>4, <1>6, <1>7
  <2>2. /\ TradesIn(s, t) = If(a.sell, t, a.sellAmount) + If(b.sell, t, b.sellAmount)
        /\ TradesOut(s, t) = If(a.buy, t, b.sellAmount) + If(b.buy, t, a.sellAmount)
    BY <1>2, <1>3, <1>6, <1>7, <2>1, TwoTrades
  <2>3. HopsIn(s, t) = 0 /\ HopsOut(s, t) = 0
    BY <1>1, NoHops
  <2>4. Inflow(s, t) = TradesIn(s, t) + 0 /\ Outflow(s, t) = TradesOut(s, t) + 0
    BY <2>3, Flows
  <2>5. TradesIn(s, t) \in Int /\ TradesOut(s, t) = TradesIn(s, t)
    BY <1>4, <2>2 DEF If
  <2> QED BY <2>4, <2>5
<1>10. Balances(s)
  BY <1>9 DEF Balances
<1>11. NoPoolTwice(s)
  BY <1>1 DEF NoPoolTwice
<1> QED BY <1>8, <1>10, <1>11 DEF SolutionOK, s

(* One order filled by a route that takes what it sells. *)
LEMMA RouteBalances ==
    ASSUME Args, NEW o, FromAuction(o), NEW s, NEW e, s.trades = <<Trade(o, e)>>,
           NEW x \in Nat, NEW y \in Nat, Sold(s, s.trades[1]) = x, Bought(s, s.trades[1]) = y,
           NEW r, s.interactions = r.hops, HopsCarry(r, o.sell, o.buy, x), r.out \in Nat,
           y <= r.out, r.out > y => o.kind = "buy"
    PROVE  Balances(s) /\ NoPoolTwice(s)
<1>1. DOMAIN s.trades = 1 .. 1 /\ s.trades[1].order = o.uid
  BY DEF Trade
<1>2. OrderOf(s.trades[1]) = o /\ o.sell # o.buy
  BY <1>1, OrderFound DEF FromAuction, OrderOK
<1> DEFINE in == Sold(s, s.trades[1])
           out == Bought(s, s.trades[1])
<1>3. ASSUME NEW t PROVE TradesIn(s, t) = If(o.sell, t, x) /\ TradesOut(s, t) = If(o.buy, t, y)
  BY <1>1, <1>2, OneTrade
<1>4. ASSUME NEW t,
             HopsIn(s, t) - HopsOut(s, t) = If(o.buy, t, r.out) - If(o.sell, t, x),
             HopsIn(s, t) \in Int, HopsOut(s, t) \in Int
      PROVE  /\ Inflow(s, t) >= Outflow(s, t)
             /\ Inflow(s, t) > Outflow(s, t) => o.kind = "buy" /\ o.buy = t
  <2> DEFINE ti == TradesIn(s, t)
             to == TradesOut(s, t)
             hi == HopsIn(s, t)
             ho == HopsOut(s, t)
  <2>1. Inflow(s, t) = ti + hi /\ Outflow(s, t) = to + ho
    BY Flows
  <2>2. ti = If(o.sell, t, x) /\ to = If(o.buy, t, y)
    BY <1>3
  <2>3. hi - ho = If(o.buy, t, r.out) - If(o.sell, t, x) /\ hi \in Int /\ ho \in Int
    BY <1>4
  <2> HIDE DEF ti, to, hi, ho
  <2>4. CASE o.sell = t
    BY <1>2, <2>1, <2>2, <2>3, <2>4 DEF If
  <2>5. CASE o.buy = t
    BY <1>2, <2>1, <2>2, <2>3, <2>5 DEF If
  <2>6. CASE o.sell # t /\ o.buy # t
    BY <2>1, <2>2, <2>3, <2>6 DEF If
  <2> QED BY <2>4, <2>5, <2>6
<1>5. ASSUME \A t : /\ HopsIn(s, t) - HopsOut(s, t) = If(o.buy, t, r.out) - If(o.sell, t, x)
                   /\ HopsIn(s, t) \in Int /\ HopsOut(s, t) \in Int
      PROVE  Balances(s)
  BY <1>1, <1>2, <1>4, <1>5 DEF Balances
<1>6. CASE \E h : /\ r.hops = <<h>> /\ h.tokenIn = o.sell /\ h.tokenOut = o.buy
                 /\ h.amountIn = x /\ h.out = r.out
  <2>1. PICK h : /\ r.hops = <<h>> /\ h.tokenIn = o.sell /\ h.tokenOut = o.buy
                 /\ h.amountIn = x /\ h.out = r.out
    BY <1>6
  <2>2. \A t : HopsIn(s, t) = If(o.buy, t, r.out) /\ HopsOut(s, t) = If(o.sell, t, x)
    BY <2>1, OneHop
  <2>3. \A t : If(o.buy, t, r.out) \in Int /\ If(o.sell, t, x) \in Int
    BY DEF If
  <2>4. NoPoolTwice(s)
    BY <2>1 DEF NoPoolTwice
  <2> QED BY <1>5, <2>2, <2>3, <2>4
<1>7. CASE \E g, h : /\ r.hops = <<g, h>> /\ g.pool # h.pool
                    /\ g.tokenIn = o.sell /\ h.tokenIn = g.tokenOut /\ h.tokenOut = o.buy
                    /\ g.tokenOut \notin {o.sell, o.buy}
                    /\ g.amountIn = x /\ h.amountIn = g.out /\ g.out \in Nat /\ h.out = r.out
  <2>1. PICK g, h : /\ r.hops = <<g, h>> /\ g.pool # h.pool
                    /\ g.tokenIn = o.sell /\ h.tokenIn = g.tokenOut /\ h.tokenOut = o.buy
                    /\ g.tokenOut \notin {o.sell, o.buy}
                    /\ g.amountIn = x /\ h.amountIn = g.out /\ g.out \in Nat /\ h.out = r.out
    BY <1>7
  <2>2. ASSUME NEW t
        PROVE  /\ HopsIn(s, t) = If(g.tokenOut, t, g.out) + If(o.buy, t, r.out)
               /\ HopsOut(s, t) = If(o.sell, t, x) + If(g.tokenOut, t, g.out)
    BY <2>1, TwoHops
  <2>3. ASSUME NEW t
        PROVE  /\ HopsIn(s, t) - HopsOut(s, t) = If(o.buy, t, r.out) - If(o.sell, t, x)
               /\ HopsIn(s, t) \in Int /\ HopsOut(s, t) \in Int
    <3> DEFINE m == If(g.tokenOut, t, g.out)
               a == If(o.buy, t, r.out)
               b == If(o.sell, t, x)
    <3>1. m \in Int /\ a \in Int /\ b \in Int
      BY <2>1 DEF If
    <3>2. HopsIn(s, t) = m + a /\ HopsOut(s, t) = b + m
      BY <2>2
    <3> HIDE DEF m, a, b
    <3>3. HopsIn(s, t) - HopsOut(s, t) = a - b /\ HopsIn(s, t) \in Int /\ HopsOut(s, t) \in Int
      BY <3>1, <3>2
    <3> QED BY <3>3 DEF a, b
  <2>4. NoPoolTwice(s)
    BY <2>1 DEF NoPoolTwice
  <2> QED BY <1>5, <2>3, <2>4
<1> QED BY <1>6, <1>7 DEF HopsCarry

(* A sell order: the route takes its whole amount, and it gets all of it. *)
LEMMA SellSettles ==
    ASSUME Args, PoolList(pools), graph = NewGraph(pools), NEW o, FromAuction(o), o.kind # "buy",
           NEW a, a = routeOrder(o, RouteFor(o)), a.why = "ok"
    PROVE  SolutionOK(RoutedSolution(a))
<1> DEFINE x == o.sellAmount
           r == BestRoute(graph, o.sell, o.buy, x)
           s == RoutedSolution(a)
           tr == s.trades[1]
<1>1. /\ o.kind = "sell" /\ o.sell \in Names /\ o.buy \in Names /\ o.sell # o.buy
      /\ x \in Nat \ {0} /\ o.buyAmount \in Nat
  BY DEF FromAuction, OrderOK
<1>2. RouteFor(o).route = r
  BY DEF RouteFor
<1> HIDE DEF r
<1>3. /\ r # NoRoute /\ ~(r.out < o.buyAmount) /\ a.prices = Prices(o, r.out, x)
      /\ a.trades = <<Trade(o, x)>> /\ a.interactions = r.hops
  BY <1>2 DEF routeOrder, routeSell, hopsToInteractions
<1>4. HopsCarry(r, o.sell, o.buy, x) /\ r.out \in Nat \ {0}
  BY <1>1, <1>3, RoutesCarry DEF r
<1>5. s.prices = Prices(o, r.out, x) /\ s.trades = <<Trade(o, x)>> /\ s.interactions = r.hops
  BY <1>3 DEF RoutedSolution
<1> HIDE DEF s
<1>6. tr.order = o.uid /\ tr.executed = x /\ DOMAIN s.trades = {1}
  BY <1>5 DEF Trade
<1>7. OrderOf(tr) = o
  BY <1>6, OrderFound DEF FromAuction
<1>8. s.prices[o.sell] = r.out /\ s.prices[o.buy] = x
  BY <1>1, <1>5, PricesAre
<1>9. Sold(s, tr) = x
  BY <1>1, <1>6, <1>7 DEF Sold
<1>10. Bought(s, tr) = r.out
  <2>1. Bought(s, tr) = (x * r.out) \div x
    BY <1>1, <1>6, <1>7, <1>8 DEF Bought
  <2> QED BY <1>1, <1>4, <2>1, DivExact
<1>11. TradesFair(s)
  <2>1. x * r.out = r.out * x /\ x <= x /\ r.out >= o.buyAmount
    BY <1>1, <1>3, <1>4
  <2> QED BY <1>1, <1>6, <1>7, <1>8, <1>9, <1>10, <2>1 DEF TradesFair
<1>12. Balances(s) /\ NoPoolTwice(s)
  <2>1. x \in Nat /\ r.out \in Nat /\ r.out <= r.out /\ ~(r.out > r.out)
    BY <1>1, <1>4
  <2> HIDE DEF x
  <2> QED BY <1>4, <1>5, <1>9, <1>10, <2>1, RouteBalances
<1> QED BY <1>11, <1>12 DEF SolutionOK, s

(* A buy order: the route takes what the search found, and yields enough. *)
LEMMA BuySettles ==
    ASSUME Args, PoolList(pools), graph = NewGraph(pools), NEW o, FromAuction(o), o.kind = "buy",
           NEW a, a = routeOrder(o, RouteFor(o)), a.why = "ok"
    PROVE  SolutionOK(RoutedSolution(a))
<1> DEFINE found == RouteFor(o)
           x == found.in
           y == o.buyAmount
           r == found.route
           s == RoutedSolution(a)
           tr == s.trades[1]
<1>1. /\ o.sell \in Names /\ o.buy \in Names /\ o.sell # o.buy
      /\ y \in Nat \ {0} /\ o.sellAmount \in Nat \ {0}
  BY DEF FromAuction, OrderOK
<1>2. found = minInputFor(o.sell, o.buy, o.buyAmount, o.sellAmount)
  BY DEF RouteFor
<1> HIDE DEF found
<1>3. /\ r # NoRoute /\ a.prices = Prices(o, y, x)
      /\ a.trades = <<Trade(o, y)>> /\ a.interactions = r.hops
  BY DEF routeOrder, routeBuy, hopsToInteractions, found
<1>4. x \in 1 .. o.sellAmount /\ r = BestRoute(graph, o.sell, o.buy, x) /\ ~(r.out < y)
  BY <1>1, <1>2, <1>3, MinInputBuys
<1>5. s.prices = Prices(o, y, x) /\ s.trades = <<Trade(o, y)>> /\ s.interactions = r.hops
  BY <1>3 DEF RoutedSolution
<1> HIDE DEF s, x, r
<1>6. HopsCarry(r, o.sell, o.buy, x) /\ r.out \in Nat \ {0}
  BY <1>1, <1>3, <1>4, RoutesCarry DEF r
<1>7. tr.order = o.uid /\ tr.executed = y /\ DOMAIN s.trades = {1}
  BY <1>5 DEF Trade
<1>8. OrderOf(tr) = o
  BY <1>7, OrderFound DEF FromAuction
<1>9. s.prices[o.sell] = y /\ s.prices[o.buy] = x
  BY <1>1, <1>5, PricesAre
<1>10. x \in Nat /\ x <= o.sellAmount /\ y <= r.out
  BY <1>1, <1>4, <1>6
<1>11. Bought(s, tr) = y
  BY <1>7, <1>8 DEF Bought
<1>12. Sold(s, tr) = x
  <2>1. Sold(s, tr) = (y * x) \div y
    BY <1>7, <1>8, <1>9 DEF Sold
  <2> QED BY <1>1, <1>10, <2>1, DivExact
<1>13. TradesFair(s)
  <2>1. x * y = y * x /\ y >= y
    BY <1>1, <1>10
  <2> QED BY <1>7, <1>8, <1>9, <1>10, <1>11, <1>12, <2>1 DEF TradesFair
<1>14. Balances(s) /\ NoPoolTwice(s)
  <2>1. y \in Nat /\ r.out \in Nat
    BY <1>1, <1>6
  <2> HIDE DEF y
  <2> QED BY <1>5, <1>6, <1>10, <1>11, <1>12, <2>1, RouteBalances
<1> QED BY <1>13, <1>14 DEF SolutionOK, s

-----------------------------------------------------------------------------
(* In a step the auction stays, and with it what a solution settles. *)
LEMMA StillOK == ASSUME auction' = auction, NEW s PROVE SolutionOK(s)' = SolutionOK(s)
<1>1. \A tr : OrderOf(tr)' = OrderOf(tr)
  BY DEF OrderOf
<1>2. /\ \A tr : Sold(s, tr)' = Sold(s, tr) /\ Bought(s, tr)' = Bought(s, tr)
  BY <1>1 DEF Sold, Bought
<1>3. TradesFair(s)' = TradesFair(s)
  BY <1>1, <1>2 DEF TradesFair
<1>4. \A t : Inflow(s, t)' = Inflow(s, t) /\ Outflow(s, t)' = Outflow(s, t)
  BY <1>1, <1>2 DEF Inflow, Outflow
<1>5. Balances(s)' = Balances(s)
  BY <1>1, <1>4 DEF Balances
<1> QED BY <1>3, <1>5 DEF SolutionOK, NoPoolTwice

(* The solutions of the answer, as a set: its elements outlive the step. *)
Answered == { solutions[i] : i \in DOMAIN solutions }

SettleInv == \A s \in Answered : SolutionOK(s)

(* A step settles when each solution after it was there or is sound. *)
LEMMA StepSettles ==
    ASSUME SettleInv, auction' = auction, \A s \in Answered' : s \in Answered \/ SolutionOK(s)
    PROVE  SettleInv'
<1> SUFFICES ASSUME NEW s \in Answered' PROVE SolutionOK(s)'
  BY DEF SettleInv
<1>1. SolutionOK(s)
  BY DEF SettleInv
<1> QED BY <1>1, StillOK

LEMMA AppendAnswered ==
    ASSUME Listed(solutions), NEW new, solutions' = Append(solutions, new)
    PROVE  Answered' \subseteq Answered \cup {new}
<1>1. /\ DOMAIN solutions = 1 .. Len(solutions) /\ Len(solutions) \in Nat
      /\ DOMAIN solutions' = 1 .. Len(solutions) + 1
      /\ \A i \in 1 .. Len(solutions) : solutions'[i] = solutions[i]
      /\ solutions'[Len(solutions) + 1] = new
  BY AppendListed
<1>2. \A i \in DOMAIN solutions' : i \in DOMAIN solutions \/ i = Len(solutions) + 1
  BY <1>1
<1> QED BY <1>1, <1>2 DEF Answered

LEMMA TakeSettles ==
    ASSUME Args, OrdersInv, MatchInv, OnceInv, SettleInv, TakeMatch
    PROVE  SettleInv'
<1> DEFINE m == matches[k]
           a == orders[m[1]]
           b == orders[m[2]]
           gas == sumGas(sumGas(cfg.overhead, cfg.perTrade), cfg.perTrade)
           new == MatchSolution(Len(solutions), a, b, gas)
<1>1. /\ pc = "take" /\ k <= Len(matches) /\ auction' = auction
      /\ UNCHANGED solutions \/ solutions' = Append(solutions, new)
  BY DEF TakeMatch
<1>2. FromAuction(a) /\ FromAuction(b) /\ Crosses(a, b)
  <2>1. m[1] \in DOMAIN orders /\ m[2] \in DOMAIN orders /\ Crosses(a, b)
    BY <1>1, FreshMatch DEF Match
  <2> QED BY <2>1, OrdersKnown DEF FromAuction
<1> HIDE DEF a, b
<1>3. SolutionOK(new)
  BY <1>2, MatchSettles
<1> HIDE DEF new
<1>4. Listed(solutions)
  BY DEF OnceInv
<1>5. Answered' \subseteq Answered \cup {new}
  <2>1. CASE UNCHANGED solutions
    BY <2>1 DEF Answered
  <2>2. CASE solutions' = Append(solutions, new)
    BY <1>4, <2>2, AppendAnswered
  <2> QED BY <1>1, <2>1, <2>2
<1> QED BY <1>1, <1>3, <1>5, StepSettles

LEMMA RouteSettles ==
    ASSUME Args, PoolsInv, OrdersInv, OnceInv, SettleInv, RouteNext
    PROVE  SettleInv'
<1> DEFINE o == orders[k]
           r == routeOrder(o, RouteFor(o))
           new == RoutedSolution(r)
<1>1. /\ pc = "route" /\ k <= Len(orders) /\ auction' = auction
      /\ UNCHANGED solutions \/ (r.why = "ok" /\ solutions' = Append(solutions, new))
  BY RouteTurn
<1>2. FromAuction(o)
  <2>1. k \in DOMAIN orders
    BY <1>1, OrdersKnown DEF Args
  <2> QED BY <2>1, OrdersKnown DEF FromAuction
<1>3. PoolList(pools) /\ graph = NewGraph(pools)
  BY <1>1 DEF PoolsInv
<1> HIDE DEF o
<1>4. r.why = "ok" => SolutionOK(new)
  <2> SUFFICES ASSUME r.why = "ok" PROVE SolutionOK(new)
    OBVIOUS
  <2>1. CASE o.kind = "buy"
    BY <1>2, <1>3, <2>1, BuySettles
  <2>2. CASE o.kind # "buy"
    BY <1>2, <1>3, <2>2, SellSettles
  <2> QED BY <2>1, <2>2
<1> HIDE DEF new, r
<1>5. Listed(solutions)
  BY DEF OnceInv
<1>6. CASE UNCHANGED solutions
  <2>1. Answered' = Answered
    BY <1>6 DEF Answered
  <2> QED BY <1>1, <2>1, StepSettles
<1>7. CASE r.why = "ok" /\ solutions' = Append(solutions, new)
  <2>1. Answered' \subseteq Answered \cup {new}
    BY <1>5, <1>7, AppendAnswered
  <2> QED BY <1>1, <1>4, <1>7, <2>1, StepSettles
<1> QED BY <1>1, <1>6, <1>7

LEMMA NextSettle ==
    ASSUME Args, PoolsInv, OrdersInv, MatchInv, OnceInv, SettleInv, [Next]_vars
    PROVE  SettleInv'
<1>0. auction' = auction
  BY NextArgs
<1>1. CASE TakeMatch
  BY <1>1, TakeSettles
<1>2. CASE RouteNext
  BY <1>2, RouteSettles
<1>3. CASE Finish
  <2>1. solutions' = Cap(solutions, cfg.maxSolutions) /\ cfg.maxSolutions \in Int /\ Listed(solutions)
    BY <1>3, SolveAssumption DEF Finish, Args, OnceInv
  <2>2. DOMAIN solutions' \subseteq DOMAIN solutions /\ \A i \in DOMAIN solutions' : solutions'[i] = solutions[i]
    BY <2>1, CapListed
  <2>3. Answered' \subseteq Answered
    BY <2>2 DEF Answered
  <2> QED BY <1>0, <2>3, StepSettles
<1>4. CASE UNCHANGED solutions
  <2>1. Answered' = Answered
    BY <1>4 DEF Answered
  <2> QED BY <1>0, <2>1, StepSettles
<1>5. CASE BuildPool \/ PoolsCancelled \/ PoolsBuilt \/ GraphCancelled \/ MakeGraph \/ Pair \/ Paired
        \/ Taken \/ Expire
  BY <1>4, <1>5 DEF BuildPool, PoolsCancelled, PoolsBuilt, GraphCancelled, MakeGraph, Pair, Paired,
                    Taken, Expire
<1>6. CASE UNCHANGED vars
  BY <1>4, <1>6 DEF vars
<1> QED BY <1>1, <1>2, <1>3, <1>5, <1>6 DEF Next, Step

-----------------------------------------------------------------------------
(***************************************************************************)
(* The theorems.                                                           *)
(***************************************************************************)
(* The layers, each inductive relative to the ones before it. *)
IInv == Args /\ PoolsInv /\ OrdersInv /\ MatchInv /\ OnceInv /\ CountInv /\ SettleInv

LEMMA Inductive == Spec => []IInv
<1>1. Init => IInv
  <2> SUFFICES ASSUME Init PROVE IInv
    OBVIOUS
  <2>1. Answered = {}
    BY EmptyListed DEF Init, Answered
  <2> QED BY <2>1, InitPools, InitOrders, InitMatch, InitOnce, InitCount DEF IInv, SettleInv
<1>2. IInv /\ [Next]_vars => IInv'
  BY NextArgs, NextPools, NextOrders, NextMatch, NextOnce, NextCount, NextSettle DEF IInv
<1> QED BY <1>1, <1>2, PTL DEF Spec

(* Whatever the auction, the configuration and the moment the deadline     *)
(* passes, Solve's two passes (solve.go:96-151) never trade an order       *)
(* twice, and number the solutions of the answer one after the other.      *)
THEOREM NoneTradesTwice == Spec => []EachOrderOnce
<1>1. IInv => EachOrderOnce
  BY DEF IInv, OnceInv, Once, EachOrderOnce
<1> QED BY <1>1, Inductive, PTL

(* findCoWMatches (solve.go:384) leaves no two sell orders that cross,     *)
(* although it walks only one side of each pair of tokens and takes the    *)
(* first partner it meets.                                                 *)
THEOREM NoMatchMissed == Spec => []MatchingMaximal
<1>1. IInv => MatchingMaximal
  BY MatchMaximal DEF IInv
<1> QED BY <1>1, Inductive, PTL

(* The statistics Solve returns account for every liquidity entry, also    *)
(* when the limit or the deadline cuts the list, and, when the deadline is *)
(* met, for every order.                                                   *)
THEOREM StatsComplete == Spec => []StatsAddUp
<1>1. IInv => StatsAddUp
  BY DEF IInv, PoolsInv, CountInv, StatsAddUp, PoolsAccounted
<1> QED BY <1>1, Inductive, PTL

(* Every solution of both passes settles: its trades are at exactly its    *)
(* clearing prices and within their orders' limits, no token is paid out   *)
(* that did not come in, and no pool is used twice.                        *)
THEOREM SolutionsSettle == Spec => []Settles
<1>1. IInv => Settles
  <2> SUFFICES ASSUME SettleInv, NEW i \in DOMAIN solutions PROVE SolutionOK(solutions[i])
    BY DEF IInv, Settles, SolutionOK, NoPoolTwice
  <2> QED BY DEF SettleInv, Answered
<1> QED BY <1>1, Inductive, PTL
=============================================================================
