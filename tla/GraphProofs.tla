---------------------------- MODULE GraphProofs ----------------------------
(***************************************************************************)
(* What the pool graph and the routes over it are, for any pools: lemmas   *)
(* for the proofs about Router and Solve.                                  *)
(***************************************************************************)
EXTENDS Graph, Induction, FiniteSetTheorems, SequenceTheorems, TLAPS

-----------------------------------------------------------------------------
(* Sorting.                                                                *)

(* Sorting a finite set by a total order lists it in that order. *)
LEMMA SortedLists ==
    ASSUME NEW S, NEW R, TotalOrder(R, S), IsFiniteSet(S)
    PROVE  InOrder(Sorted(S, R), S, R)
<1>1. PICK q : InOrder(q, S, R)
  BY ListingExists
<1> QED BY <1>1 DEF Sorted, InOrder

-----------------------------------------------------------------------------
(* The index of pools by token.                                            *)

LEMMA PrefixSeq ==
    ASSUME NEW X, NEW s \in Seq(X), NEW n \in Nat
    PROVE  /\ Prefix(s, n) \in Seq(X) /\ Len(Prefix(s, n)) <= Len(s)
           /\ \A i \in 1 .. Len(Prefix(s, n)) : Prefix(s, n)[i] = s[i]
<1>1. CASE Len(s) > n
  <2>1. Prefix(s, n) = SubSeq(s, 1, n) /\ n <= Len(s)
    BY <1>1, LenProperties DEF Prefix
  <2> QED BY <2>1, SubSeqProperties, LenProperties
<1>2. CASE ~(Len(s) > n)
  BY <1>2, LenProperties DEF Prefix
<1> QED BY <1>1, <1>2

With(pools, t, n, f) ==
    IF n = 0 THEN <<>>
    ELSE IF t \in pools[n].tokens THEN Append(f[n - 1], pools[n]) ELSE f[n - 1]

LEMMA PoolsWithSeq ==
    ASSUME NEW P, NEW pools \in Seq(P), NEW t
    PROVE  PoolsWith(pools, t) \in Seq({ p \in P : t \in p.tokens })
<1> DEFINE N == Len(pools)
           A == Seq({ p \in P : t \in p.tokens })
           step == [na \in (1 .. N) \X A |->
                      IF t \in pools[na[1]].tokens THEN Append(na[2], pools[na[1]]) ELSE na[2]]
           Fits(f) == f = [n \in 0 .. N |-> With(pools, t, n, f)]
           upTo == CHOOSE f : Fits(f)
<1>1. N \in Nat /\ DOMAIN pools = 1 .. N /\ <<>> \in A
  BY LenProperties
<1>2. ASSUME NEW na \in (1 .. N) \X A
      PROVE  (IF t \in pools[na[1]].tokens THEN Append(na[2], pools[na[1]]) ELSE na[2]) \in A
  <2>1. pools[na[1]] \in P
    BY <1>1, ElementOfSeq
  <2> QED BY <2>1, AppendProperties
<1>3. step \in [(1 .. N) \X A -> A]
  BY <1>2
<1>4. ASSUME NEW f, NEW n \in 1 .. N, f[n - 1] \in A
      PROVE  With(pools, t, n, f) = step[<<n, f[n - 1]>>]
  <2>1. <<n, f[n - 1]>> \in (1 .. N) \X A /\ n # 0
    BY <1>1, <1>4
  <2> QED BY <2>1 DEF With
<1>5. \A f : With(pools, t, 0, f) = <<>>
  BY DEF With
<1>6. PICK g : Iterates(g, N, A, <<>>, step)
  <2> HIDE DEF N, A, step
  <2> QED BY <1>1, <1>3, RecursionExists
<1>7. Fits(g)
  <2> HIDE DEF A, step
  <2>1. ASSUME NEW n \in 0 .. N PROVE g[n] = With(pools, t, n, g)
    <3>1. CASE n = 0
      BY <1>5, <1>6, <3>1 DEF Iterates
    <3>2. CASE n # 0
      <4>1. n \in 1 .. N /\ g[n - 1] \in A
        BY <1>1, <1>6, <3>2 DEF Iterates
      <4> QED BY <1>4, <1>6, <4>1 DEF Iterates
    <3> QED BY <3>1, <3>2
  <2>2. g = [n \in 0 .. N |-> g[n]]
    BY <1>6 DEF Iterates
  <2> QED BY <2>1, <2>2
<1>8. Fits(upTo)
  <2> HIDE DEF Fits
  <2> QED BY <1>7
<1> HIDE DEF upTo, A, step
<1>9. \A n \in 0 .. N : upTo[n] = With(pools, t, n, upTo)
  BY <1>8
<1>10. Follows(upTo, N, A, <<>>, step)
  BY <1>1, <1>4, <1>5, <1>9 DEF Follows
<1>11. upTo[N] \in A
  <2>1. \A n \in 0 .. N : upTo[n] \in A
    <3> HIDE DEF N, Fits
    <3> QED BY <1>1, <1>3, <1>10, RecursionTyped
  <2> QED BY <1>1, <2>1
<1>12. PoolsWith(pools, t) = upTo[N]
  BY DEF PoolsWith, upTo, With
<1> QED BY <1>11, <1>12 DEF A

Names == 0 .. KeyBase - 1

(* What routing relies on of the pools and of the index built from them. *)
UniqueIds(P) == \A p \in P : PoolOK(p) /\ \A q \in P : p.id = q.id => p = q

Indexes(graph, P) ==
    /\ \A t : poolsFor(graph, t) \in Seq({ p \in P : t \in p.tokens })
    /\ graph.intermediates \in Seq(Names)

LEMMA NamesFinite == Names \subseteq Nat /\ IsFiniteSet(Names)
<1>1. 0 \in Int /\ KeyBase - 1 \in Int
  BY GraphAssumption
<1>2. IsFiniteSet(0 .. KeyBase - 1)
  BY ONLY <1>1, FS_Interval
<1> QED BY <1>1, <1>2 DEF Names

LEMMA PivotsSeq ==
    ASSUME NEW T \in SUBSET Names, NEW X, NEW byToken \in [T -> Seq(X)]
    PROVE  Pivots(byToken) \in Seq(Names)
<1> DEFINE S == { t \in DOMAIN byToken : Len(byToken[t]) >= 2 }
           R == { tu \in S \X S : LET n == Len(byToken[tu[1]])
                                      m == Len(byToken[tu[2]])
                                  IN  n > m \/ (n = m /\ tu[1] < tu[2]) }
<1>1. S \subseteq Names /\ \A t \in S : Len(byToken[t]) \in Nat
  BY LenProperties
<1>2. Names \subseteq Nat /\ IsFiniteSet(Names)
  BY NamesFinite
<1>3. IsFiniteSet(S)
  BY <1>1, <1>2, FS_Subset
<1>4. TotalOrder(R, S)
  <2>1. \A x, y \in S : <<x, y>> \in R <=>
             \/ Len(byToken[x]) > Len(byToken[y])
             \/ Len(byToken[x]) = Len(byToken[y]) /\ x < y
    OBVIOUS
  <2> HIDE DEF R, S
  <2>2. \A x, y \in S : x # y => <<x, y>> \in R \/ <<y, x>> \in R
    BY <1>1, <1>2, <2>1
  <2>3. \A x, y, z \in S : <<x, y>> \in R /\ <<y, z>> \in R => <<x, z>> \in R
    BY <1>1, <1>2, <2>1
  <2> QED BY <2>2, <2>3 DEF TotalOrder
<1>5. Pivots(byToken) = Sorted(S, R)
  BY DEF Pivots
<1> HIDE DEF S, R
<1>6. Sorted(S, R) \in [1 .. Cardinality(S) -> S] /\ Cardinality(S) \in Nat
  BY <1>3, <1>4, SortedLists, FS_CardinalityType DEF InOrder
<1>7. Sorted(S, R) \in [1 .. Cardinality(S) -> Names]
  BY <1>1, <1>6
<1> QED BY <1>5, <1>6, <1>7, IsASeq

LEMMA GraphIndexes ==
    ASSUME NEW pools, PoolList(pools)
    PROVE  /\ UniqueIds(ToSet(pools))
           /\ Indexes(NewGraph(pools), ToSet(pools))
<1> DEFINE P == ToSet(pools)
           byToken == [t \in TokensOf(pools) |-> PoolsWith(pools, t)]
           graph == NewGraph(pools)
<1>1. /\ Len(pools) \in Nat /\ DOMAIN pools = 1 .. Len(pools)
      /\ pools = [i \in 1 .. Len(pools) |-> pools[i]]
  BY DEF PoolList, Listed
<1>2. UniqueIds(P)
  BY <1>1 DEF PoolList, UniqueIds, ToSet
<1>3. pools \in Seq(P)
  <2>1. \A i \in 1 .. Len(pools) : pools[i] \in P
    BY <1>1 DEF ToSet
  <2>2. pools \in [1 .. Len(pools) -> P]
    BY <1>1, <2>1
  <2> QED BY <1>1, <2>2, IsASeq
<1>4. TokensOf(pools) \subseteq Names
  BY <1>1 DEF TokensOf, PoolList, PoolOK, Names
<1>5. \A t : PoolsWith(pools, t) \in Seq({ p \in P : t \in p.tokens })
  <2> HIDE DEF P
  <2> QED BY <1>3, PoolsWithSeq
<1>6. graph.byToken = byToken /\ graph.intermediates = Prefix(Pivots(byToken), MaxIntermediates)
  BY DEF NewGraph
<1>7. graph.intermediates \in Seq(Names)
  <2>1. byToken \in [TokensOf(pools) -> Seq(P)]
    <3>1. \A t : PoolsWith(pools, t) \in Seq(P)
      <4> TAKE t
      <4> DEFINE X == { p \in P : t \in p.tokens }
      <4>1. X \subseteq P /\ PoolsWith(pools, t) \in Seq(X)
        BY <1>5
      <4> HIDE DEF P, X
      <4> QED BY <4>1, SeqMonotonic
    <3> QED BY <3>1
  <2> HIDE DEF byToken, P, graph
  <2>2. Pivots(byToken) \in Seq(Names)
    BY <1>4, <2>1, PivotsSeq
  <2> QED BY <1>6, <2>2, PrefixSeq, GraphAssumption
<1>8. ASSUME NEW t PROVE poolsFor(graph, t) \in Seq({ p \in P : t \in p.tokens })
  <2> DEFINE X == { p \in P : t \in p.tokens }
  <2>1. PoolsWith(pools, t) \in Seq(X)
    BY <1>5
  <2>2. poolsFor(graph, t) =
            IF t \in TokensOf(pools) THEN Prefix(PoolsWith(pools, t), MaxPoolsPerToken) ELSE <<>>
    BY <1>6 DEF poolsFor
  <2>3. MaxPoolsPerToken \in Nat
    BY GraphAssumption
  <2> HIDE DEF X
  <2>4. poolsFor(graph, t) \in Seq(X)
    BY <2>1, <2>2, <2>3, PrefixSeq, EmptySeq
  <2> QED BY <2>4 DEF X
<1> QED BY <1>2, <1>7, <1>8 DEF Indexes

-----------------------------------------------------------------------------
(* The routes there are, by their positions in the loops.                  *)

DirectAt(graph, sell, buy, x, i) == DirectRoute(poolsFor(graph, sell)[i], sell, buy, x)

TwoHopAt(graph, sell, buy, x, m, i, j) ==
    LET mid == graph.intermediates[m]
    IN  TwoHopRoute(poolsFor(graph, sell)[i], mid, poolsFor(graph, mid)[j], sell, buy, x)

IsPivot(graph, sell, buy, m) ==
    m \in 1 .. Len(graph.intermediates) /\ graph.intermediates[m] \notin {sell, buy}

LEMMA DirectRoutesAre ==
    ASSUME NEW P, NEW graph, Indexes(graph, P), NEW sell, NEW buy, sell # buy, NEW x, NEW r
    PROVE  r \in DirectRoutes(graph, sell, buy, x) <=>
             r # NoRoute /\ \E i \in 1 .. Len(poolsFor(graph, sell)) :
                               r = DirectAt(graph, sell, buy, x, i)
<1> DEFINE ps == poolsFor(graph, sell)
           out(p) == p.quote[<<sell, buy>>][x]
           Made(p) == MakeRoute(<<Hop(p, sell, buy, x, out(p))>>, out(p), p.gas)
           Fit(p) == buy \in p.tokens /\ Quoted(out(p))
<1>1. ps \in Seq({ p \in P : sell \in p.tokens })
  BY DEF Indexes
<1>2. DOMAIN ps = 1 .. Len(ps) /\ \A i \in 1 .. Len(ps) : sell \in ps[i].tokens
  <2> DEFINE X == { p \in P : sell \in p.tokens }
  <2>1. \A i \in 1 .. Len(ps) : ps[i] \in X
    <3> HIDE DEF X, ps
    <3> QED BY <1>1, ElementOfSeq DEF X
  <2>2. DOMAIN ps = 1 .. Len(ps)
    <3> HIDE DEF X, ps
    <3> QED BY <1>1, LenProperties DEF X
  <2> QED BY <2>1, <2>2
<1>3. \A p : Fit(p) => Made(p) # NoRoute
  BY DEF Quoted, MakeRoute, NoRoute
<1>4. \A i \in 1 .. Len(ps) :
          DirectAt(graph, sell, buy, x, i) = IF Fit(ps[i]) THEN Made(ps[i]) ELSE NoRoute
  BY <1>2 DEF DirectAt, DirectRoute, Supports
<1>5. r \in DirectRoutes(graph, sell, buy, x) <=>
          \E i \in 1 .. Len(ps) : Fit(ps[i]) /\ r = Made(ps[i])
  <2>1. r \in DirectRoutes(graph, sell, buy, x) <=>
          \E p \in ToSet(ps) : Fit(p) /\ r = Made(p)
    BY DEF DirectRoutes
  <2> QED BY <1>2, <2>1 DEF ToSet
<1> HIDE DEF ps, Made, Fit
<1> QED BY <1>3, <1>4, <1>5 DEF ps

LEMMA GasSum ==
    ASSUME NEW a \in Nat, NEW b \in Nat
    PROVE  /\ (sumGas(a, b) # Failed) <=> (a + b <= MaxUint64)
           /\ sumGas(a, b) # Failed => sumGas(a, b) = a + b
  BY GraphAssumption DEF sumGas, Failed

(* Two pools through a pivot, and the route they make. *)
Fits(p, m, q, sell, buy, x) ==
    LET y == p.quote[<<sell, m>>][x]
    IN  /\ m \in p.tokens /\ q # p /\ Quoted(y)
        /\ buy \in q.tokens /\ Quoted(q.quote[<<m, buy>>][y])
        /\ p.gas + q.gas <= MaxUint64

Joined(p, m, q, sell, buy, x) ==
    LET y   == p.quote[<<sell, m>>][x]
        out == q.quote[<<m, buy>>][y]
    IN  MakeRoute(<<Hop(p, sell, m, x, y), Hop(q, m, buy, y, out)>>, out, p.gas + q.gas)

LEMMA TwoHopMembers ==
    ASSUME NEW graph, NEW sell, NEW buy, NEW x, NEW r
    PROVE  r \in TwoHopRoutes(graph, sell, buy, x) <=>
             \E m \in ToSet(graph.intermediates) \ {sell, buy} :
             \E p \in ToSet(poolsFor(graph, sell)) : \E q \in ToSet(poolsFor(graph, m)) :
                Fits(p, m, q, sell, buy, x) /\ r = Joined(p, m, q, sell, buy, x)
<1> DEFINE ps == poolsFor(graph, sell)
           qs(m) == poolsFor(graph, m)
           Made(p, m, q) == Joined(p, m, q, sell, buy, x)
           y(p, m) == p.quote[<<sell, m>>][x]
           Ends(p, m) == { q \in ToSet(qs(m)) \ {p} :
                             /\ Quoted(y(p, m)) /\ buy \in q.tokens
                             /\ Quoted(q.quote[<<m, buy>>][y(p, m)])
                             /\ p.gas + q.gas <= MaxUint64 }
           Via(p, m) == { Made(p, m, q) : q \in Ends(p, m) }
           Starts(m) == { p \in ToSet(ps) : m \in p.tokens }
           Mids == ToSet(graph.intermediates) \ {sell, buy}
<1>1. TwoHopRoutes(graph, sell, buy, x) =
        UNION { UNION { Via(p, m) : p \in Starts(m) } : m \in Mids }
  BY DEF TwoHopRoutes, Joined
<1>2. \A p, m : r \in Via(p, m) <=> \E q \in Ends(p, m) : r = Made(p, m, q)
  OBVIOUS
<1> HIDE DEF Via
<1>3. r \in TwoHopRoutes(graph, sell, buy, x) <=>
        \E m \in Mids : \E p \in Starts(m) : r \in Via(p, m)
  BY <1>1
<1>4. \A p, m, q : p \in Starts(m) /\ q \in Ends(p, m) <=>
          p \in ToSet(ps) /\ q \in ToSet(qs(m)) /\ Fits(p, m, q, sell, buy, x)
  BY DEF Fits
<1> HIDE DEF Made, Ends, Starts
<1> QED BY <1>2, <1>3, <1>4 DEF Made

LEMMA TwoHopRoutesAre ==
    ASSUME NEW P, UniqueIds(P), NEW graph, Indexes(graph, P), NEW sell, NEW buy, NEW x, NEW r
    PROVE  r \in TwoHopRoutes(graph, sell, buy, x) <=>
             r # NoRoute /\ \E m \in 1 .. Len(graph.intermediates) :
                              /\ IsPivot(graph, sell, buy, m)
                              /\ \E i \in 1 .. Len(poolsFor(graph, sell)),
                                    j \in 1 .. Len(poolsFor(graph, graph.intermediates[m])) :
                                    r = TwoHopAt(graph, sell, buy, x, m, i, j)
<1> DEFINE ps == poolsFor(graph, sell)
           qs(mid) == poolsFor(graph, mid)
           mids == graph.intermediates
           y(p, mid) == p.quote[<<sell, mid>>][x]
           out(p, mid, q) == q.quote[<<mid, buy>>][y(p, mid)]
           Fit(p, mid, q) == Fits(p, mid, q, sell, buy, x)
           Made(p, mid, q) == Joined(p, mid, q, sell, buy, x)
<1>1. ASSUME NEW t
      PROVE  /\ DOMAIN poolsFor(graph, t) = 1 .. Len(poolsFor(graph, t))
             /\ \A i \in 1 .. Len(poolsFor(graph, t)) :
                   t \in poolsFor(graph, t)[i].tokens /\ poolsFor(graph, t)[i].gas \in Nat
  <2> DEFINE X == { p \in P : t \in p.tokens }
             s == poolsFor(graph, t)
  <2>1. s \in Seq(X)
    BY DEF Indexes
  <2>2. \A i \in 1 .. Len(s) : s[i] \in X
    <3> HIDE DEF X, s
    <3> QED BY <2>1, ElementOfSeq
  <2>3. DOMAIN s = 1 .. Len(s)
    <3> HIDE DEF X, s
    <3> QED BY <2>1, LenProperties
  <2> QED BY <2>2, <2>3 DEF UniqueIds, PoolOK
<1>2. DOMAIN mids = 1 .. Len(mids)
  BY LenProperties DEF Indexes
<1>3. \A p, mid, q : Fit(p, mid, q) => Made(p, mid, q) # NoRoute
  BY DEF Quoted, MakeRoute, NoRoute, Fits, Joined
<1>4. ASSUME NEW m, IsPivot(graph, sell, buy, m),
             NEW i \in 1 .. Len(ps), NEW j \in 1 .. Len(qs(mids[m]))
      PROVE  TwoHopAt(graph, sell, buy, x, m, i, j) =
               IF Fit(ps[i], mids[m], qs(mids[m])[j])
               THEN Made(ps[i], mids[m], qs(mids[m])[j]) ELSE NoRoute
  <2> DEFINE p == ps[i]
             mid == mids[m]
             q == qs(mid)[j]
             gas == sumGas(p.gas, q.gas)
  <2>1. /\ sell \in p.tokens /\ mid \in q.tokens /\ p.gas \in Nat /\ q.gas \in Nat
        /\ mid # sell /\ mid # buy
    BY <1>1, <1>4 DEF IsPivot
  <2>2. gas # Failed <=> p.gas + q.gas <= MaxUint64
    BY <2>1, GasSum
  <2>3. gas # Failed => gas = p.gas + q.gas
    BY <2>1, GasSum
  <2>4. TwoHopAt(graph, sell, buy, x, m, i, j) = TwoHopRoute(p, mid, q, sell, buy, x)
    BY DEF TwoHopAt
  <2> HIDE DEF p, mid, q
  <2>5. TwoHopRoute(p, mid, q, sell, buy, x) =
          IF Fit(p, mid, q) THEN Made(p, mid, q) ELSE NoRoute
    <3> HIDE DEF gas
    <3>1. TwoHopRoute(p, mid, q, sell, buy, x) =
            IF /\ Supports(p, sell, mid) /\ Quoted(y(p, mid))
               /\ p # q /\ Supports(q, mid, buy) /\ Quoted(out(p, mid, q)) /\ gas # Failed
            THEN MakeRoute(<<Hop(p, sell, mid, x, y(p, mid)),
                             Hop(q, mid, buy, y(p, mid), out(p, mid, q))>>,
                           out(p, mid, q), gas)
            ELSE NoRoute
      BY DEF TwoHopRoute, gas
    <3>2. Fit(p, mid, q) <=> /\ Supports(p, sell, mid) /\ Quoted(y(p, mid))
                             /\ p # q /\ Supports(q, mid, buy) /\ Quoted(out(p, mid, q))
                             /\ gas # Failed
      BY <2>1, <2>2 DEF Supports, Fits
    <3> QED BY <2>3, <3>1, <3>2 DEF Joined
  <2> QED BY <2>4, <2>5 DEF p, mid, q
<1>5. r \in TwoHopRoutes(graph, sell, buy, x) <=>
          \E mid \in ToSet(mids) \ {sell, buy} : \E p \in ToSet(ps) : \E q \in ToSet(qs(mid)) :
             Fit(p, mid, q) /\ r = Made(p, mid, q)
  BY TwoHopMembers
<1>6. r \in TwoHopRoutes(graph, sell, buy, x) <=>
          \E m \in 1 .. Len(mids) : IsPivot(graph, sell, buy, m) /\
             \E i \in 1 .. Len(ps), j \in 1 .. Len(qs(mids[m])) :
               Fit(ps[i], mids[m], qs(mids[m])[j]) /\ r = Made(ps[i], mids[m], qs(mids[m])[j])
  <2> HIDE DEF Made, Fit
  <2> QED BY <1>1, <1>2, <1>5 DEF ToSet, IsPivot
<1> HIDE DEF Made, Fit
<1> QED BY <1>3, <1>4, <1>6

-----------------------------------------------------------------------------
(* What a route is made of, and that its key determines it.                *)

Single(p, sell, buy, x) ==
    LET out == p.quote[<<sell, buy>>][x]
    IN  MakeRoute(<<Hop(p, sell, buy, x, out)>>, out, p.gas)

Direct(r, P, sell, buy, x) ==
    \E p \in P : Quoted(p.quote[<<sell, buy>>][x]) /\ r = Single(p, sell, buy, x)

TwoHop(r, P, sell, buy, x) ==
    \E p, q \in P, m \in Names \ {sell, buy} :
        Fits(p, m, q, sell, buy, x) /\ r = Joined(p, m, q, sell, buy, x)

LEMMA PoolsOf ==
    ASSUME NEW P, NEW graph, Indexes(graph, P), NEW t
    PROVE  /\ ToSet(poolsFor(graph, t)) \subseteq { p \in P : t \in p.tokens }
           /\ ToSet(graph.intermediates) \subseteq Names
<1> DEFINE X == { p \in P : t \in p.tokens }
<1>1. poolsFor(graph, t) \in Seq(X) /\ graph.intermediates \in Seq(Names)
  BY DEF Indexes
<1> HIDE DEF X
<1>2. ToSet(poolsFor(graph, t)) \subseteq X /\ ToSet(graph.intermediates) \subseteq Names
  BY <1>1, ElementOfSeq, LenProperties DEF ToSet
<1> QED BY <1>2 DEF X

LEMMA RoutesShape ==
    ASSUME NEW P, NEW graph, Indexes(graph, P), NEW sell, NEW buy, NEW x,
           NEW r \in AllRoutes(graph, sell, buy, x)
    PROVE  sell # buy /\ ~(x <= 0) /\ (Direct(r, P, sell, buy, x) \/ TwoHop(r, P, sell, buy, x))
<1>1. sell # buy /\ ~(x <= 0)
  BY DEF AllRoutes
<1>2. CASE r \in DirectRoutes(graph, sell, buy, x)
  <2>1. \A p \in ToSet(poolsFor(graph, sell)) : p \in P
    BY PoolsOf
  <2> QED BY <1>1, <1>2, <2>1 DEF DirectRoutes, Direct, Single
<1>3. CASE r \in TwoHopRoutes(graph, sell, buy, x)
  <2>1. \A t : \A p \in ToSet(poolsFor(graph, t)) : p \in P
    BY PoolsOf
  <2>2. \A m \in ToSet(graph.intermediates) \ {sell, buy} : m \in Names \ {sell, buy}
    BY PoolsOf
  <2>3. PICK m \in ToSet(graph.intermediates) \ {sell, buy} :
          \E p \in ToSet(poolsFor(graph, sell)) : \E q \in ToSet(poolsFor(graph, m)) :
             Fits(p, m, q, sell, buy, x) /\ r = Joined(p, m, q, sell, buy, x)
    BY <1>3, TwoHopMembers
  <2> QED BY <1>1, <2>1, <2>2, <2>3 DEF TwoHop
<1> QED BY <1>1, <1>2, <1>3 DEF AllRoutes

LEMMA Digits ==
    ASSUME NEW B \in Nat, NEW a \in Nat, NEW b \in Nat, NEW c \in Nat, NEW d \in Nat,
           b < B, d < B, a * B + b = c * B + d
    PROVE  a = c /\ b = d
<1>1. \A n \in Nat : n * B >= 0 /\ n * B \in Nat
  OBVIOUS
<1>2. CASE a < c
  <2>1. c - a - 1 \in Nat /\ c * B = a * B + B + (c - a - 1) * B
    BY <1>2
  <2> QED BY <1>1, <2>1
<1>3. CASE c < a
  <2>1. a - c - 1 \in Nat /\ a * B = c * B + B + (a - c - 1) * B
    BY <1>3
  <2> QED BY <1>1, <2>1
<1>4. CASE a = c
  BY <1>4
<1> QED BY <1>2, <1>3, <1>4

LEMMA DigitBelow ==
    ASSUME NEW B \in Nat, NEW C \in Nat, NEW a \in Nat, NEW b \in Nat, a < C, b < B
    PROVE  a * B + b \in Nat /\ a * B + b < C * B
<1>1. C - a - 1 \in Nat /\ C * B = a * B + B + (C - a - 1) * B
  OBVIOUS
<1>2. (C - a - 1) * B >= 0 /\ a * B \in Nat
  <2>1. \A n \in Nat : n * B >= 0 /\ n * B \in Nat
    OBVIOUS
  <2> QED BY <1>1, <2>1
<1> QED BY <1>1, <1>2

Cube == KeyBase * KeyBase * KeyBase

LEMMA HopKeys ==
    ASSUME NEW g, NEW h, {g.pool, g.tokenIn, g.tokenOut, h.pool, h.tokenIn, h.tokenOut} \subseteq Names
    PROVE  /\ hopKey(g) \in Nat /\ hopKey(g) < Cube
           /\ hopKey(g) = hopKey(h) =>
                g.pool = h.pool /\ g.tokenIn = h.tokenIn /\ g.tokenOut = h.tokenOut
           /\ hopKey(g) = 0 => g.tokenIn = 0 /\ g.tokenOut = 0
<1> DEFINE B == KeyBase
           G == g.pool * B + g.tokenIn
           H == h.pool * B + h.tokenIn
<1>1. /\ B \in Nat
      /\ g.pool \in Nat /\ g.tokenIn \in Nat /\ g.tokenOut \in Nat
      /\ h.pool \in Nat /\ h.tokenIn \in Nat /\ h.tokenOut \in Nat
      /\ g.pool < B /\ g.tokenIn < B /\ g.tokenOut < B
      /\ h.pool < B /\ h.tokenIn < B /\ h.tokenOut < B
  BY GraphAssumption DEF Names
<1>2. hopKey(g) = G * B + g.tokenOut /\ hopKey(h) = H * B + h.tokenOut
  BY DEF hopKey
<1>3. B * B \in Nat
  BY <1>1
<1>4. G \in Nat /\ G < B * B /\ H \in Nat /\ H < B * B
  <2> HIDE DEF B
  <2> QED BY <1>1, DigitBelow
<1> HIDE DEF B, G, H
<1>5. hopKey(g) \in Nat /\ hopKey(g) < B * B * B
  BY <1>1, <1>2, <1>3, <1>4, DigitBelow
<1>6. ASSUME hopKey(g) = hopKey(h) PROVE G = H /\ g.tokenOut = h.tokenOut
  BY <1>1, <1>2, <1>4, <1>6, Digits
<1>7. G = H => g.pool = h.pool /\ g.tokenIn = h.tokenIn
  BY <1>1, Digits DEF G, H
<1>8. hopKey(g) = 0 => g.tokenIn = 0 /\ g.tokenOut = 0
  <2>1. \A n \in Nat : n * B \in Nat
    BY <1>1
  <2>2. ASSUME hopKey(g) = 0 PROVE G * B = 0 /\ g.tokenOut = 0 /\ G = 0
    <3>1. G * B \in Nat
      BY <1>4, <2>1
    <3>2. G * B = 0 /\ g.tokenOut = 0
      BY <1>1, <1>2, <2>2, <3>1
    <3>3. G # 0 => G * B >= B
      <4>1. G # 0 => G - 1 \in Nat /\ G * B = (G - 1) * B + B
        BY <1>1, <1>4
      <4> QED BY <1>1, <2>1, <4>1
    <3> QED BY <1>1, <1>4, <3>2, <3>3
  <2>3. G = 0 => g.tokenIn = 0
    <3>1. g.pool * B \in Nat
      BY <1>1, <2>1
    <3> QED BY <1>1, <3>1 DEF G
  <2> QED BY <2>2, <2>3
<1> QED BY <1>5, <1>6, <1>7, <1>8 DEF Cube, B

Numbers(r) == r.out \in Nat /\ r.gas \in Nat /\ r.key \in Nat

(* A hop over pools and tokens whose names fit a key. *)
Named(h) == {h.pool, h.tokenIn, h.tokenOut} \subseteq Names

LEMMA OneHopKey ==
    ASSUME NEW h, Named(h)
    PROVE  /\ routeKey(<<h>>) = hopKey(h) * Cube + 0 /\ routeKey(<<h>>) \in Nat
           /\ hopKey(h) \in Nat /\ Cube \in Nat /\ 0 < Cube
<1>1. hopKey(h) \in Nat /\ hopKey(h) < Cube
  BY HopKeys DEF Named
<1>2. KeyBase \in Nat
  BY GraphAssumption
<1>3. Cube \in Nat
  BY <1>2 DEF Cube
<1>4. routeKey(<<h>>) = hopKey(h) * KeyBase * KeyBase * KeyBase + 0
  BY DEF routeKey
<1>5. hopKey(h) * KeyBase * KeyBase * KeyBase = hopKey(h) * Cube
  BY <1>1, <1>2 DEF Cube
<1>6. \A n \in Nat : n * Cube \in Nat
  BY <1>3
<1> QED BY <1>1, <1>3, <1>4, <1>5, <1>6

LEMMA TwoHopKey ==
    ASSUME NEW g, NEW h, Named(g), Named(h)
    PROVE  /\ routeKey(<<g, h>>) = hopKey(g) * Cube + hopKey(h) /\ routeKey(<<g, h>>) \in Nat
           /\ hopKey(h) \in Nat /\ hopKey(h) < Cube
<1>1. hopKey(g) \in Nat /\ hopKey(h) \in Nat /\ hopKey(h) < Cube
  BY HopKeys DEF Named
<1>2. KeyBase \in Nat
  BY GraphAssumption
<1>3. Cube \in Nat
  BY <1>2 DEF Cube
<1>4. routeKey(<<g, h>>) = hopKey(g) * KeyBase * KeyBase * KeyBase + hopKey(h)
  BY DEF routeKey
<1>5. hopKey(g) * KeyBase * KeyBase * KeyBase = hopKey(g) * Cube
  BY <1>1, <1>2 DEF Cube
<1>6. \A n \in Nat : n * Cube \in Nat
  BY <1>3
<1> QED BY <1>1, <1>3, <1>4, <1>5, <1>6

(* A pool and two tokens make a hop whose names fit a key. *)
LEMMA HopNamed ==
    ASSUME NEW P, UniqueIds(P), NEW p \in P, NEW t \in Names, NEW u \in Names, NEW a, NEW b
    PROVE  LET h == Hop(p, t, u, a, b)
           IN  Named(h) /\ h.pool = p.id /\ h.tokenIn = t /\ h.tokenOut = u
  BY DEF Named, Hop, UniqueIds, PoolOK, Names

OneHopOf(r, p) == \E h : Named(h) /\ h.pool = p.id /\ r.key = routeKey(<<h>>)

TwoHopsOf(r, p, m, q, buy) ==
    \E g, h : /\ Named(g) /\ Named(h) /\ r.key = routeKey(<<g, h>>)
             /\ g.pool = p.id /\ h.pool = q.id /\ h.tokenIn = m /\ h.tokenOut = buy

LEMMA SingleFacts ==
    ASSUME NEW P, UniqueIds(P), NEW p \in P, NEW sell \in Names, NEW buy \in Names, NEW x
    PROVE  /\ Single(p, sell, buy, x).out = p.quote[<<sell, buy>>][x]
           /\ Single(p, sell, buy, x).gas = p.gas
           /\ OneHopOf(Single(p, sell, buy, x), p)
<1> DEFINE h == Hop(p, sell, buy, x, p.quote[<<sell, buy>>][x])
<1>1. Named(h) /\ h.pool = p.id
  BY HopNamed
<1>2. Single(p, sell, buy, x) = MakeRoute(<<h>>, p.quote[<<sell, buy>>][x], p.gas)
  BY DEF Single
<1> HIDE DEF h
<1> QED BY <1>1, <1>2 DEF MakeRoute, OneHopOf

LEMMA JoinedFacts ==
    ASSUME NEW P, UniqueIds(P), NEW p \in P, NEW q \in P, NEW m \in Names,
           NEW sell \in Names, NEW buy \in Names, NEW x
    PROVE  /\ Joined(p, m, q, sell, buy, x).out = q.quote[<<m, buy>>][p.quote[<<sell, m>>][x]]
           /\ Joined(p, m, q, sell, buy, x).gas = p.gas + q.gas
           /\ TwoHopsOf(Joined(p, m, q, sell, buy, x), p, m, q, buy)
<1> DEFINE y   == p.quote[<<sell, m>>][x]
           out == q.quote[<<m, buy>>][y]
           g   == Hop(p, sell, m, x, y)
           h   == Hop(q, m, buy, y, out)
<1>1. /\ Named(g) /\ Named(h) /\ g.pool = p.id /\ h.pool = q.id
      /\ h.tokenIn = m /\ h.tokenOut = buy
  BY HopNamed
<1>2. Joined(p, m, q, sell, buy, x) = MakeRoute(<<g, h>>, out, p.gas + q.gas)
  BY DEF Joined
<1> HIDE DEF g, h, out
<1>3. LET r == Joined(p, m, q, sell, buy, x)
      IN  r.out = out /\ r.gas = p.gas + q.gas /\ r.key = routeKey(<<g, h>>)
  BY <1>2 DEF MakeRoute
<1> QED BY <1>1, <1>3 DEF out, TwoHopsOf

LEMMA RouteNumbers ==
    ASSUME NEW P, UniqueIds(P), NEW graph, Indexes(graph, P),
           NEW sell \in Names, NEW buy \in Names, NEW x,
           NEW r \in AllRoutes(graph, sell, buy, x)
    PROVE  Numbers(r) /\ r.out # 0
<1>1. \A p \in P : p.gas \in Nat
  BY DEF UniqueIds, PoolOK
<1>2. ASSUME Direct(r, P, sell, buy, x) PROVE Numbers(r) /\ r.out # 0
  <2>1. PICK p \in P : Quoted(p.quote[<<sell, buy>>][x]) /\ r = Single(p, sell, buy, x)
    BY <1>2 DEF Direct
  <2>2. r.key \in Nat
    <3>1. OneHopOf(r, p)
      BY <2>1, SingleFacts
    <3>2. PICK h : Named(h) /\ r.key = routeKey(<<h>>)
      BY <3>1 DEF OneHopOf
    <3> QED BY <3>2, OneHopKey
  <2>3. r.out = p.quote[<<sell, buy>>][x] /\ r.gas = p.gas
    BY <2>1, SingleFacts
  <2> QED BY <1>1, <2>1, <2>2, <2>3 DEF Quoted, Numbers
<1>3. ASSUME TwoHop(r, P, sell, buy, x) PROVE Numbers(r) /\ r.out # 0
  <2>1. PICK p \in P, q \in P, m \in Names \ {sell, buy} :
          Fits(p, m, q, sell, buy, x) /\ r = Joined(p, m, q, sell, buy, x)
    BY <1>3 DEF TwoHop
  <2>2. Quoted(q.quote[<<m, buy>>][p.quote[<<sell, m>>][x]])
    BY <2>1 DEF Fits
  <2>3. r.key \in Nat
    <3>1. TwoHopsOf(r, p, m, q, buy)
      BY <2>1, JoinedFacts
    <3>2. PICK g, h : Named(g) /\ Named(h) /\ r.key = routeKey(<<g, h>>)
      BY <3>1 DEF TwoHopsOf
    <3> QED BY <3>2, TwoHopKey
  <2>4. r.out = q.quote[<<m, buy>>][p.quote[<<sell, m>>][x]] /\ r.gas = p.gas + q.gas
    BY <2>1, JoinedFacts
  <2> QED BY <1>1, <2>1, <2>2, <2>3, <2>4 DEF Quoted, Numbers
<1> QED BY <1>2, <1>3, RoutesShape

(* The key tells routes apart: the order on routes is strict. *)
LEMMA KeyDetermines ==
    ASSUME NEW P, UniqueIds(P), NEW graph, Indexes(graph, P),
           NEW sell \in Names, NEW buy \in Names, NEW x,
           NEW r \in AllRoutes(graph, sell, buy, x), NEW s \in AllRoutes(graph, sell, buy, x),
           r.key = s.key
    PROVE  r = s
<1>0. /\ sell # buy
      /\ Direct(r, P, sell, buy, x) \/ TwoHop(r, P, sell, buy, x)
      /\ Direct(s, P, sell, buy, x) \/ TwoHop(s, P, sell, buy, x)
  BY RoutesShape
<1>1. ASSUME Direct(r, P, sell, buy, x), Direct(s, P, sell, buy, x) PROVE r = s
  <2>1. PICK p \in P, q \in P : r = Single(p, sell, buy, x) /\ s = Single(q, sell, buy, x)
    BY <1>1 DEF Direct
  <2>2. PICK g : Named(g) /\ g.pool = p.id /\ r.key = routeKey(<<g>>)
    <3>1. OneHopOf(r, p)
      BY <2>1, SingleFacts
    <3> QED BY <3>1 DEF OneHopOf
  <2>3. PICK h : Named(h) /\ h.pool = q.id /\ s.key = routeKey(<<h>>)
    <3>1. OneHopOf(s, q)
      BY <2>1, SingleFacts
    <3> QED BY <3>1 DEF OneHopOf
  <2>4. hopKey(g) = hopKey(h)
    BY <2>2, <2>3, OneHopKey, Digits
  <2>5. g.pool = h.pool
    BY <2>2, <2>3, <2>4, HopKeys DEF Named
  <2> QED BY <2>1, <2>2, <2>3, <2>5 DEF UniqueIds
<1>2. ASSUME TwoHop(r, P, sell, buy, x), TwoHop(s, P, sell, buy, x) PROVE r = s
  <2>1. PICK p \in P, q \in P, m \in Names : r = Joined(p, m, q, sell, buy, x)
    BY <1>2 DEF TwoHop
  <2>2. PICK pp \in P, qq \in P, mm \in Names : s = Joined(pp, mm, qq, sell, buy, x)
    BY <1>2 DEF TwoHop
  <2>3. PICK g, h : /\ Named(g) /\ Named(h) /\ r.key = routeKey(<<g, h>>)
                    /\ g.pool = p.id /\ h.pool = q.id /\ h.tokenIn = m
    <3>1. TwoHopsOf(r, p, m, q, buy)
      BY <2>1, JoinedFacts
    <3> QED BY <3>1 DEF TwoHopsOf
  <2>4. PICK gg, hh : /\ Named(gg) /\ Named(hh) /\ s.key = routeKey(<<gg, hh>>)
                      /\ gg.pool = pp.id /\ hh.pool = qq.id /\ hh.tokenIn = mm
    <3>1. TwoHopsOf(s, pp, mm, qq, buy)
      BY <2>2, JoinedFacts
    <3> QED BY <3>1 DEF TwoHopsOf
  <2>5. /\ hopKey(g) \in Nat /\ hopKey(gg) \in Nat /\ Cube \in Nat
        /\ hopKey(h) \in Nat /\ hopKey(hh) \in Nat /\ hopKey(h) < Cube /\ hopKey(hh) < Cube
        /\ hopKey(g) * Cube + hopKey(h) = hopKey(gg) * Cube + hopKey(hh)
    BY <2>3, <2>4, OneHopKey, TwoHopKey
  <2>6. hopKey(g) = hopKey(gg) /\ hopKey(h) = hopKey(hh)
    BY <2>5, Digits
  <2>7. g.pool = gg.pool /\ h.pool = hh.pool /\ h.tokenIn = hh.tokenIn
    BY <2>3, <2>4, <2>6, HopKeys DEF Named
  <2>8. p = pp /\ q = qq /\ m = mm
    BY <2>3, <2>4, <2>7 DEF UniqueIds
  <2> QED BY <2>1, <2>2, <2>8
<1>3. ASSUME NEW a, NEW b, Direct(a, P, sell, buy, x), TwoHop(b, P, sell, buy, x), a.key = b.key
      PROVE  FALSE
  <2>1. PICK p \in P : a = Single(p, sell, buy, x)
    BY <1>3 DEF Direct
  <2>2. PICK q \in P, v \in P, m \in Names \ {sell, buy} : b = Joined(q, m, v, sell, buy, x)
    BY <1>3 DEF TwoHop
  <2>3. PICK f : Named(f) /\ a.key = routeKey(<<f>>)
    <3>1. OneHopOf(a, p)
      BY <2>1, SingleFacts
    <3> QED BY <3>1 DEF OneHopOf
  <2>4. PICK g, h : /\ Named(g) /\ Named(h) /\ b.key = routeKey(<<g, h>>)
                    /\ h.tokenIn = m /\ h.tokenOut = buy
    <3>1. TwoHopsOf(b, q, m, v, buy)
      BY <2>2, JoinedFacts
    <3> QED BY <3>1 DEF TwoHopsOf
  <2>5. /\ hopKey(f) \in Nat /\ hopKey(g) \in Nat /\ Cube \in Nat /\ 0 < Cube
        /\ hopKey(h) \in Nat /\ hopKey(h) < Cube
        /\ hopKey(f) * Cube + 0 = hopKey(g) * Cube + hopKey(h)
    <3>1. /\ hopKey(f) \in Nat /\ Cube \in Nat /\ 0 < Cube
          /\ routeKey(<<f>>) = hopKey(f) * Cube + 0
      BY <2>3, OneHopKey
    <3>2. /\ hopKey(h) \in Nat /\ hopKey(h) < Cube
          /\ routeKey(<<g, h>>) = hopKey(g) * Cube + hopKey(h)
      BY <2>4, TwoHopKey
    <3>3. hopKey(g) \in Nat
      BY <2>4, OneHopKey
    <3> QED BY <1>3, <2>3, <2>4, <3>1, <3>2, <3>3
  <2>6. 0 = hopKey(h)
    <3> DEFINE z == 0
    <3>1. z \in Nat /\ z < Cube /\ hopKey(f) * Cube + z = hopKey(g) * Cube + hopKey(h)
      BY <2>5
    <3> HIDE DEF z
    <3>2. z = hopKey(h)
      BY <2>5, <3>1, Digits
    <3> QED BY <3>2 DEF z
  <2>7. h.tokenIn = 0 /\ h.tokenOut = 0
    BY <2>4, <2>6, HopKeys DEF Named
  <2> QED BY <2>2, <2>4, <2>7
<1> QED BY <1>0, <1>1, <1>2, <1>3

-----------------------------------------------------------------------------
(* There is a best route.                                                  *)

AtMost(f, n, b) == \A i \in 1 .. n : f[i] <= b

LEMMA Bounded ==
    ASSUME NEW n \in Nat, NEW f \in [1 .. n -> Nat]
    PROVE  \E b \in Nat : AtMost(f, n, b)
<1> USE DEF AtMost
<1> DEFINE S == { k \in Nat : k <= n => \E b \in Nat : \A i \in 1 .. k : f[i] <= b }
<1>1. 0 \in S
  OBVIOUS
<1>2. ASSUME NEW k \in Nat, k \in S PROVE k + 1 \in S
  <2> SUFFICES ASSUME k + 1 <= n PROVE \E b \in Nat : \A i \in 1 .. k + 1 : f[i] <= b
    OBVIOUS
  <2>1. PICK b \in Nat : \A i \in 1 .. k : f[i] <= b
    BY <1>2
  <2>2. f[k + 1] \in Nat
    OBVIOUS
  <2> DEFINE c == b + f[k + 1]
  <2>3. c \in Nat /\ b <= c /\ f[k + 1] <= c
    BY <2>2
  <2> HIDE DEF c
  <2>4. \A i \in 1 .. k + 1 : f[i] <= c
    <3> TAKE i \in 1 .. k + 1
    <3>1. i = k + 1 \/ (i \in 1 .. k /\ f[i] \in Nat)
      OBVIOUS
    <3> QED BY <2>1, <2>3, <3>1
  <2> QED BY <2>3, <2>4
<1>3. n \in S
  <2> HIDE DEF S
  <2> QED BY <1>1, <1>2, SetInduction
<1> QED BY <1>3

(* A bound for f, when there is one. *)
Bound(f, n) == CHOOSE b \in Nat : AtMost(f, n, b)

LEMMA BoundHolds ==
    ASSUME NEW n \in Nat, NEW f \in [1 .. n -> Nat]
    PROVE  Bound(f, n) \in Nat /\ \A i \in 1 .. n : f[i] <= Bound(f, n)
<1>1. Bound(f, n) \in Nat /\ AtMost(f, n, Bound(f, n))
  BY Bounded DEF Bound
<1> QED BY <1>1 DEF AtMost

OutOf(r) == IF r.out \in Nat THEN r.out ELSE 0

LEMMA OutsBounded ==
    ASSUME NEW P, UniqueIds(P), NEW graph, Indexes(graph, P),
           NEW sell \in Names, NEW buy \in Names, NEW x
    PROVE  \E b \in Nat : \A r \in AllRoutes(graph, sell, buy, x) : r.out <= b
<1> DEFINE L(t) == Len(poolsFor(graph, t))
           mids == graph.intermediates
           D == [i \in 1 .. L(sell) |-> OutOf(DirectAt(graph, sell, buy, x, i))]
           J(m, i) == [j \in 1 .. L(mids[m]) |-> OutOf(TwoHopAt(graph, sell, buy, x, m, i, j))]
           I(m) == [i \in 1 .. L(sell) |-> Bound(J(m, i), L(mids[m]))]
           M == [m \in 1 .. Len(mids) |-> Bound(I(m), L(sell))]
           b == Bound(D, L(sell)) + Bound(M, Len(mids))
<1>1. Len(mids) \in Nat /\ \A t : L(t) \in Nat
  BY LenProperties DEF Indexes
<1>2. Bound(D, L(sell)) \in Nat /\ \A i \in 1 .. L(sell) : D[i] <= Bound(D, L(sell))
  <2>1. D \in [1 .. L(sell) -> Nat]
    BY DEF OutOf
  <2> HIDE DEF D, L
  <2> QED BY <1>1, <2>1, BoundHolds
<1>3. ASSUME NEW m \in 1 .. Len(mids), NEW i \in 1 .. L(sell)
      PROVE  /\ Bound(J(m, i), L(mids[m])) \in Nat
             /\ \A j \in 1 .. L(mids[m]) : J(m, i)[j] <= Bound(J(m, i), L(mids[m]))
  <2>1. J(m, i) \in [1 .. L(mids[m]) -> Nat]
    BY DEF OutOf
  <2> HIDE DEF J, L, mids
  <2> QED BY <1>1, <2>1, BoundHolds
<1>4. ASSUME NEW m \in 1 .. Len(mids)
      PROVE  /\ Bound(I(m), L(sell)) \in Nat
             /\ \A i \in 1 .. L(sell) : I(m)[i] <= Bound(I(m), L(sell))
  <2>1. I(m) \in [1 .. L(sell) -> Nat]
    <3> HIDE DEF J, L, mids
    <3> QED BY <1>3
  <2> HIDE DEF I, L, mids
  <2> QED BY <1>1, <2>1, BoundHolds
<1>5. /\ Bound(M, Len(mids)) \in Nat
      /\ \A m \in 1 .. Len(mids) : M[m] <= Bound(M, Len(mids))
  <2>1. M \in [1 .. Len(mids) -> Nat]
    <3> HIDE DEF I, L, mids
    <3> QED BY <1>4
  <2> HIDE DEF M, mids
  <2> QED BY <1>1, <2>1, BoundHolds
<1>6. b \in Nat /\ Bound(D, L(sell)) <= b /\ Bound(M, Len(mids)) <= b
  <2> HIDE DEF D, L, M, mids
  <2> QED BY <1>2, <1>5
<1>7. ASSUME NEW r \in AllRoutes(graph, sell, buy, x) PROVE r.out <= b
  <2>1. r.out \in Nat /\ sell # buy
    BY RouteNumbers, RoutesShape DEF Numbers
  <2>2. CASE r \in DirectRoutes(graph, sell, buy, x)
    <3>1. PICK i \in 1 .. L(sell) : r = DirectAt(graph, sell, buy, x, i)
      BY <2>1, <2>2, DirectRoutesAre
    <3>2. D[i] = r.out
      BY <2>1, <3>1 DEF OutOf
    <3> HIDE DEF D, L, b
    <3> QED BY <1>2, <1>6, <2>1, <3>2
  <2>3. CASE r \in TwoHopRoutes(graph, sell, buy, x)
    <3>1. PICK m \in 1 .. Len(mids) : \E i \in 1 .. L(sell), j \in 1 .. L(mids[m]) :
            r = TwoHopAt(graph, sell, buy, x, m, i, j)
      BY <2>3, TwoHopRoutesAre
    <3>2. PICK i \in 1 .. L(sell), j \in 1 .. L(mids[m]) :
            r = TwoHopAt(graph, sell, buy, x, m, i, j)
      BY <3>1
    <3>3. J(m, i)[j] = r.out
      BY <2>1, <3>2 DEF OutOf
    <3>4. I(m)[i] = Bound(J(m, i), L(mids[m])) /\ M[m] = Bound(I(m), L(sell))
      OBVIOUS
    <3> DEFINE u == Bound(J(m, i), L(mids[m]))
               v == Bound(I(m), L(sell))
               w == Bound(M, Len(mids))
    <3>5. u \in Nat /\ r.out <= u
      <4> HIDE DEF J, L, mids
      <4> QED BY <1>3, <3>3
    <3>6. v \in Nat /\ u <= v
      <4> HIDE DEF I, J, L, mids
      <4> QED BY <1>4, <3>4
    <3>7. w \in Nat /\ v <= w
      <4> HIDE DEF I, J, M, L, mids
      <4> QED BY <1>5, <3>4
    <3>8. w <= b /\ b \in Nat
      BY <1>6
    <3> HIDE DEF u, v, w, b
    <3> QED BY <2>1, <3>5, <3>6, <3>7, <3>8
  <2> QED BY <2>2, <2>3 DEF AllRoutes
<1> HIDE DEF b
<1> QED BY <1>6, <1>7

LEMMA BestExists ==
    ASSUME NEW A, A # {}, \A r \in A : Numbers(r), NEW b \in Nat, \A r \in A : r.out <= b
    PROVE  \E r \in A : \A s \in A : ~Beats(s, r)
<1> USE DEF Numbers
<1> DEFINE Short == { b - r.out : r \in A }
<1>1. Short \subseteq Nat /\ Short # {}
  OBVIOUS
<1>2. PICK d \in Short : \A e \in Short : d <= e
  <2> HIDE DEF Short
  <2> QED BY <1>1, LeastNat
<1>3. PICK r1 \in A : d = b - r1.out
  BY <1>2
<1>4. ASSUME NEW s \in A PROVE s.out <= r1.out
  <2>1. b - s.out \in Short
    OBVIOUS
  <2>2. d <= b - s.out
    BY <1>2, <2>1
  <2> QED BY <1>3, <2>2
<1> DEFINE A2 == { r \in A : r.out = r1.out }
           Gas == { r.gas : r \in A2 }
<1>5. Gas \subseteq Nat /\ Gas # {}
  BY <1>3
<1>6. PICK gas \in Gas : \A e \in Gas : gas <= e
  <2> HIDE DEF Gas
  <2> QED BY <1>5, LeastNat
<1> DEFINE A3 == { r \in A2 : r.gas = gas }
           Keys == { r.key : r \in A3 }
<1>7. Keys \subseteq Nat /\ Keys # {}
  BY <1>6
<1>8. PICK key \in Keys : \A e \in Keys : key <= e
  <2> HIDE DEF Keys
  <2> QED BY <1>7, LeastNat
<1>9. PICK r \in A3 : r.key = key
  BY <1>8
<1>10. ASSUME NEW s \in A, Beats(s, r) PROVE FALSE
  <2>1. s.out <= r.out
    BY <1>4, <1>9
  <2>2. s.out = r.out => s \in A2 /\ s.gas \in Gas /\ r.gas <= s.gas
    BY <1>6, <1>9
  <2>3. s.out = r.out /\ s.gas = r.gas => s \in A3 /\ s.key \in Keys /\ r.key <= s.key
    BY <1>8, <1>9, <2>2
  <2>4. r \in A
    BY <1>9
  <2> HIDE DEF A2, A3, Gas, Keys
  <2> QED BY <1>10, <2>1, <2>2, <2>3, <2>4 DEF Beats
<1> QED BY <1>9, <1>10

(* BestRoute answers a route of the graph whenever there is one. *)
LEMMA BestRouteIs ==
    ASSUME NEW P, UniqueIds(P), NEW graph, Indexes(graph, P),
           NEW sell \in Names, NEW buy \in Names, NEW x
    PROVE  \/ BestRoute(graph, sell, buy, x) = NoRoute
           \/ BestRoute(graph, sell, buy, x) \in AllRoutes(graph, sell, buy, x)
<1> DEFINE A == AllRoutes(graph, sell, buy, x)
<1>1. CASE A = {}
  BY <1>1 DEF BestRoute
<1>2. CASE A # {}
  <2>1. \A r \in A : Numbers(r)
    BY RouteNumbers
  <2>2. PICK b \in Nat : \A r \in A : r.out <= b
    BY OutsBounded
  <2>3. \E r \in A : \A s \in A : ~Beats(s, r)
    <3> HIDE DEF A
    <3> QED BY <1>2, <2>1, <2>2, BestExists
  <2>4. BestRoute(graph, sell, buy, x) = CHOOSE r \in A : \A s \in A : ~Beats(s, r)
    BY <1>2 DEF BestRoute
  <2> HIDE DEF A
  <2> QED BY <2>3, <2>4 DEF A
<1> QED BY <1>1, <1>2
=============================================================================
