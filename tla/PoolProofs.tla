----------------------------- MODULE PoolProofs -----------------------------
(***************************************************************************)
(* The pools of an auction, from a liquidity entry to the routes through   *)
(* them.  The nested loops of BestRouteContext return the one best route,  *)
(* for any pools, bounds, call and deadline; buildPool makes a pool of     *)
(* exactly the well-formed entries, each fit to be asked for quotes, for   *)
(* any entry and any order in which its maps are visited.                  *)
(***************************************************************************)
EXTENDS Router, PoolBuilding, GraphProofs

-----------------------------------------------------------------------------
(* The search.                                                             *)

Routes == AllRoutes(graph, call.sell, call.buy, call.amountIn)

OfPool(i)       == DirectAt(graph, call.sell, call.buy, call.amountIn, i)
OfPair(m, i, j) == TwoHopAt(graph, call.sell, call.buy, call.amountIn, m, i, j)

(* A candidate that the answer so far accounts for. *)
Weighed(r, answer) == r = NoRoute \/ (answer # NoRoute /\ ~Beats(r, answer))

(* The positions the loops have left behind. *)
Passed(m, i, j) == m < mid \/ (m = mid /\ (i < first \/ (i = first /\ j < second)))

DirectWeighed ==
    \A i \in 1 .. Len(Firsts) :
        (pc = "direct" => i < first) => Weighed(OfPool(i), best)

TwoHopWeighed ==
    \A m \in 1 .. Len(Mids) : IsPivot(graph, call.sell, call.buy, m) =>
        \A i \in 1 .. Len(Firsts), j \in 1 .. Len(Seconds(m)) :
            pc # "direct" /\ Passed(m, i, j) => Weighed(OfPair(m, i, j), best)

(* The loops' positions: the inner one restarts whenever an outer moves. *)
Positions ==
    /\ {mid, first, second} \subseteq Nat \ {0}
    /\ pc = "direct" => mid = 1 /\ second = 1
    /\ second # 1 => mid <= Len(Mids) /\ ~Skipped /\ first <= Len(Firsts)
    /\ pc = "done" /\ ~Degenerate => mid > Len(Mids)

IInv ==
    /\ call \in Cases /\ graph = NewGraph(call.pools)
    /\ pc \in {"direct", "twoHop", "done", "error"}
    /\ Positions
    /\ best = NoRoute \/ best \in Routes
    /\ pc # "error" /\ ~Degenerate => DirectWeighed /\ TwoHopWeighed

-----------------------------------------------------------------------------
(* What a call brings, for the lemmas about the graph. *)
Setting ==
    LET P == ToSet(call.pools)
    IN  /\ UniqueIds(P) /\ Indexes(graph, P)
        /\ call.sell \in Names /\ call.buy \in Names /\ call.amountIn \in Int

LEMMA InSetting == ASSUME call \in Cases, graph = NewGraph(call.pools) PROVE Setting
<1>1. PoolList(call.pools) /\ call.sell \in Names /\ call.buy \in Names /\ call.amountIn \in Int
  BY CasesAssumption DEF Names
<1> QED BY <1>1, GraphIndexes DEF Setting

LEMMA Lengths ==
    ASSUME Setting
    PROVE  Len(Firsts) \in Nat /\ Len(Mids) \in Nat /\ \A m : Len(Seconds(m)) \in Nat
<1> DEFINE Of(t) == { p \in ToSet(call.pools) : t \in p.tokens }
<1>1. Mids \in Seq(Names) /\ \A t : poolsFor(graph, t) \in Seq(Of(t))
  BY DEF Setting, Indexes, Mids
<1> HIDE DEF Of
<1> QED BY <1>1, LenProperties DEF Firsts, Seconds

(* The order on routes: what a chain of better keeps. *)
LEMMA BetterKeeps ==
    ASSUME NEW a, NEW b, NEW c, Numbers(a), Numbers(b), Numbers(c)
    PROVE  Weighed(b, better(a, b)) /\ (Weighed(c, a) => Weighed(c, better(a, b)))
<1> USE DEF Weighed
<1>1. CASE a = NoRoute
  BY <1>1 DEF better, Beats, Numbers
<1>2. CASE a # NoRoute /\ (b = NoRoute \/ ~Beats(b, a))
  BY <1>2 DEF better
<1>3. CASE a # NoRoute /\ b # NoRoute /\ Beats(b, a)
  <2>1. better(a, b) = b
    BY <1>3 DEF better
  <2>2. ~Beats(b, b)
    BY DEF Beats, Numbers
  <2>3. ~Beats(c, a) => ~Beats(c, b)
    BY <1>3 DEF Beats, Numbers
  <2> QED BY <1>3, <2>1, <2>2, <2>3
<1> QED BY <1>1, <1>2, <1>3

LEMMA NoRouteNumbers == Numbers(NoRoute)
  BY DEF Numbers, NoRoute

(* Every position of the loops gives no route or one there is. *)
LEMMA Candidates ==
    ASSUME Setting, ~Degenerate
    PROVE  /\ \A i \in 1 .. Len(Firsts) :
                (OfPool(i) = NoRoute \/ OfPool(i) \in Routes) /\ Numbers(OfPool(i))
           /\ \A m \in 1 .. Len(Mids) : IsPivot(graph, call.sell, call.buy, m) =>
                \A i \in 1 .. Len(Firsts), j \in 1 .. Len(Seconds(m)) :
                   (OfPair(m, i, j) = NoRoute \/ OfPair(m, i, j) \in Routes)
                   /\ Numbers(OfPair(m, i, j))
<1> DEFINE P == ToSet(call.pools)
<1>1. /\ UniqueIds(P) /\ Indexes(graph, P) /\ call.sell \in Names /\ call.buy \in Names
      /\ call.sell # call.buy /\ ~(call.amountIn <= 0)
  BY DEF Setting, Degenerate
<1> HIDE DEF P
<1>2. \A r \in Routes : Numbers(r)
  BY <1>1, RouteNumbers DEF Routes
<1>3. ASSUME NEW i \in 1 .. Len(Firsts)
      PROVE  OfPool(i) = NoRoute \/ OfPool(i) \in Routes
  BY <1>1, DirectRoutesAre DEF OfPool, Firsts, Routes, AllRoutes
<1>4. ASSUME NEW m \in 1 .. Len(Mids), IsPivot(graph, call.sell, call.buy, m),
             NEW i \in 1 .. Len(Firsts), NEW j \in 1 .. Len(Seconds(m))
      PROVE  OfPair(m, i, j) = NoRoute \/ OfPair(m, i, j) \in Routes
  BY <1>1, <1>4, TwoHopRoutesAre DEF OfPair, Firsts, Mids, Seconds, Routes, AllRoutes
<1> QED BY <1>2, <1>3, <1>4, NoRouteNumbers

(* Nothing else is a route. *)
LEMMA OnlyCandidates ==
    ASSUME Setting, NEW r \in Routes
    PROVE  /\ r # NoRoute /\ ~Degenerate
           /\ \/ \E i \in 1 .. Len(Firsts) : r = OfPool(i)
              \/ \E m \in 1 .. Len(Mids) :
                   /\ IsPivot(graph, call.sell, call.buy, m)
                   /\ \E i \in 1 .. Len(Firsts), j \in 1 .. Len(Seconds(m)) : r = OfPair(m, i, j)
<1> DEFINE P == ToSet(call.pools)
<1>1. UniqueIds(P) /\ Indexes(graph, P) /\ call.sell \in Names /\ call.buy \in Names
  BY DEF Setting
<1>2. call.sell # call.buy /\ ~(call.amountIn <= 0)
  BY DEF Routes, AllRoutes
<1> HIDE DEF P
<1>3. CASE r \in DirectRoutes(graph, call.sell, call.buy, call.amountIn)
  BY <1>1, <1>2, <1>3, DirectRoutesAre DEF OfPool, Firsts, Degenerate
<1>4. CASE r \in TwoHopRoutes(graph, call.sell, call.buy, call.amountIn)
  BY <1>1, <1>2, <1>4, TwoHopRoutesAre DEF OfPair, Firsts, Mids, Seconds, Degenerate
<1> QED BY <1>3, <1>4 DEF Routes, AllRoutes

LEMMA BestNumbers ==
    ASSUME Setting, best = NoRoute \/ best \in Routes
    PROVE  Numbers(best)
  BY RouteNumbers, NoRouteNumbers DEF Setting, Routes

-----------------------------------------------------------------------------
LEMMA InitIInv == Init => IInv
<1> SUFFICES ASSUME Init PROVE IInv
  OBVIOUS
<1> USE DEF Init
<1>1. Positions
  BY DEF Positions
<1>2. DirectWeighed /\ TwoHopWeighed
  BY DEF DirectWeighed, TwoHopWeighed
<1> QED BY <1>1, <1>2 DEF IInv

(* A step that leaves the answer alone. *)
LEMMA SameAnswer ==
    ASSUME IInv, Setting, UNCHANGED <<call, graph, best>>, pc' # "error", pc # "error", ~Degenerate,
           (pc = "direct") = (pc' = "direct") \/ (pc = "direct" /\ first > Len(Firsts)),
           pc' = "direct" => first' = first,
           \A m \in 1 .. Len(Mids) : \A i \in 1 .. Len(Firsts), j \in 1 .. Len(Seconds(m)) :
              /\ IsPivot(graph, call.sell, call.buy, m)
              /\ pc' # "direct" /\ Passed(m, i, j)'
              => pc # "direct" /\ Passed(m, i, j)
    PROVE  (DirectWeighed /\ TwoHopWeighed)'
<1>1. DirectWeighed /\ TwoHopWeighed
  BY DEF IInv
<1>2. DirectWeighed'
  <2>1. Len(Firsts) \in Nat /\ first \in Nat
    BY Lengths DEF IInv, Positions
  <2> QED BY <1>1, <2>1 DEF DirectWeighed, Firsts, OfPool
<1>3. TwoHopWeighed'
  BY <1>1 DEF TwoHopWeighed, Firsts, Mids, Seconds, OfPair
<1> QED BY <1>2, <1>3

LEMMA TryDirectStep == ASSUME IInv, Setting, TryDirect PROVE IInv'
<1> USE DEF TryDirect
<1>0. /\ pc = "direct" /\ pc' = "direct" /\ ~Degenerate /\ first' = first + 1
      /\ first \in 1 .. Len(Firsts) /\ UNCHANGED <<call, graph, mid, second>>
      /\ best' = better(best, OfPool(first)) /\ Len(Firsts) \in Nat
      /\ best = NoRoute \/ best \in Routes
  BY Lengths DEF IInv, Positions, In, OfPool, DirectAt, Firsts
<1>1. Numbers(best) /\ \A i \in 1 .. Len(Firsts) : Numbers(OfPool(i))
  BY <1>0, BestNumbers, Candidates
<1>2. Positions'
  <2>1. Positions
    BY DEF IInv
  <2> QED BY <1>0, <2>1 DEF Positions, Mids, Firsts, Skipped, Degenerate
<1>3. best' = NoRoute \/ best' \in Routes'
  BY <1>0, Candidates DEF better, Routes
<1>4. DirectWeighed'
  <2> SUFFICES ASSUME NEW i \in 1 .. Len(Firsts), i < first + 1
               PROVE  Weighed(OfPool(i), best')
    BY <1>0 DEF DirectWeighed, Firsts, OfPool, Weighed
  <2>1. CASE i = first
    BY <1>0, <1>1, <2>1, BetterKeeps
  <2>2. CASE i < first
    <3>1. Weighed(OfPool(i), best)
      BY <1>0, <2>2 DEF IInv, DirectWeighed
    <3> QED BY <1>0, <1>1, <3>1, BetterKeeps
  <2> QED BY <1>0, <2>1, <2>2
<1>5. TwoHopWeighed'
  BY <1>0 DEF TwoHopWeighed
<1> QED BY <1>0, <1>2, <1>3, <1>4, <1>5 DEF IInv

LEMMA TryTwoHopStep == ASSUME IInv, Setting, TryTwoHop PROVE IInv'
<1> USE DEF TryTwoHop
<1>0. /\ pc = "twoHop" /\ pc' = "twoHop" /\ ~Degenerate /\ second' = second + 1
      /\ mid \in 1 .. Len(Mids) /\ IsPivot(graph, call.sell, call.buy, mid)
      /\ first \in 1 .. Len(Firsts) /\ second \in 1 .. Len(Seconds(mid))
      /\ UNCHANGED <<call, graph, mid, first>>
      /\ best' = better(best, OfPair(mid, first, second))
      /\ best = NoRoute \/ best \in Routes
  BY Lengths DEF IInv, Positions, AtPivot, Skipped, In, OfPair, TwoHopAt, Firsts, Mids, Seconds,
                 IsPivot
<1>1. Numbers(best) /\ Numbers(OfPair(mid, first, second))
  BY <1>0, BestNumbers, Candidates
<1>2. Positions'
  <2>1. Positions /\ ~Skipped
    BY DEF IInv
  <2> QED BY <1>0, <2>1 DEF Positions, Mids, Firsts, Skipped, Degenerate
<1>3. best' = NoRoute \/ best' \in Routes'
  <2>1. OfPair(mid, first, second) = NoRoute \/ OfPair(mid, first, second) \in Routes
    BY <1>0, Candidates
  <2> QED BY <1>0, <2>1 DEF better, Routes
<1>4. DirectWeighed'
  <2> SUFFICES ASSUME NEW i \in 1 .. Len(Firsts) PROVE Weighed(OfPool(i), best')
    BY <1>0 DEF DirectWeighed, Firsts, OfPool, Weighed
  <2>1. Weighed(OfPool(i), best) /\ Numbers(OfPool(i))
    BY <1>0, Candidates DEF IInv, DirectWeighed
  <2> QED BY <1>0, <1>1, <2>1, BetterKeeps
<1>5. TwoHopWeighed'
  <2> SUFFICES ASSUME NEW m \in 1 .. Len(Mids), IsPivot(graph, call.sell, call.buy, m),
                      NEW i \in 1 .. Len(Firsts), NEW j \in 1 .. Len(Seconds(m)),
                      Passed(m, i, j)'
               PROVE  Weighed(OfPair(m, i, j), best')
    BY <1>0 DEF TwoHopWeighed, Firsts, Mids, Seconds, OfPair, Weighed
  <2>1. CASE m = mid /\ i = first /\ j = second
    BY <1>0, <1>1, <2>1, BetterKeeps
  <2>2. CASE ~(m = mid /\ i = first /\ j = second)
    <3>1. Passed(m, i, j)
      <4>1. m \in Int /\ i \in Int /\ j \in Int /\ {mid, first, second} \subseteq Int
        BY Lengths DEF IInv, Positions
      <4> QED BY <1>0, <2>2, <4>1 DEF Passed
    <3>2. Weighed(OfPair(m, i, j), best) /\ Numbers(OfPair(m, i, j))
      BY <1>0, <3>1, Candidates DEF IInv, TwoHopWeighed
    <3> QED BY <1>0, <1>1, <3>2, BetterKeeps
  <2> QED BY <2>1, <2>2
<1> QED BY <1>0, <1>2, <1>3, <1>4, <1>5 DEF IInv

(* The steps that only move the loops' positions. *)
LEMMA MoveStep ==
    ASSUME IInv, Setting, Reject \/ DirectDone \/ NextFirst \/ NextMid \/ Finish
    PROVE  IInv'
<1> USE DEF IInv
<1>0. /\ UNCHANGED <<call, graph, cancelled, best>>
      /\ {mid, first, second} \subseteq Int /\ Len(Firsts) \in Nat /\ Len(Mids) \in Nat
      /\ \A m : Len(Seconds(m)) \in Nat
  BY Lengths DEF Reject, DirectDone, NextFirst, NextMid, Finish, Positions
<1>1. Degenerate' = Degenerate /\ Routes' = Routes /\ Firsts' = Firsts /\ Mids' = Mids
  BY <1>0 DEF Degenerate, Routes, Firsts, Mids
<1>2. CASE Reject
  <2>1. Positions'
    BY <1>0, <1>1, <1>2 DEF Reject, Positions, Skipped
  <2> QED BY <1>0, <1>1, <1>2, <2>1 DEF Reject
<1>3. CASE DirectDone
  <2>1. Positions'
    BY <1>0, <1>1, <1>3 DEF DirectDone, Positions, Skipped, In
  <2>2. ASSUME NEW m \in 1 .. Len(Mids), NEW i \in 1 .. Len(Firsts), NEW j \in 1 .. Len(Seconds(m))
        PROVE  ~Passed(m, i, j)'
    BY <1>0, <1>3 DEF DirectDone, In, Passed, Positions
  <2>3. (DirectWeighed /\ TwoHopWeighed)'
    BY <1>0, <1>3, <2>2, SameAnswer DEF DirectDone, In
  <2> QED BY <1>0, <1>1, <1>3, <2>1, <2>3 DEF DirectDone
<1>4. CASE NextFirst
  <2>1. Positions'
    BY <1>0, <1>1, <1>4 DEF NextFirst, Positions, Skipped, AtPivot, In
  <2>2. ASSUME NEW m \in 1 .. Len(Mids), NEW i \in 1 .. Len(Firsts), NEW j \in 1 .. Len(Seconds(m)),
               Passed(m, i, j)'
        PROVE  Passed(m, i, j)
    BY <1>0, <1>4, <2>2 DEF NextFirst, Passed, Positions
  <2>3. (DirectWeighed /\ TwoHopWeighed)'
    BY <1>0, <1>4, <2>2, SameAnswer DEF NextFirst, AtPivot, In
  <2> QED BY <1>0, <1>1, <1>4, <2>1, <2>3 DEF NextFirst
<1>5. CASE NextMid
  <2>0. second = 1
    BY <1>0, <1>5 DEF NextMid, Positions
  <2>1. Positions'
    BY <1>0, <1>1, <1>5, <2>0 DEF NextMid, Positions, AtPivot, In
  <2>2. ASSUME NEW m \in 1 .. Len(Mids), NEW i \in 1 .. Len(Firsts), NEW j \in 1 .. Len(Seconds(m)),
               IsPivot(graph, call.sell, call.buy, m), Passed(m, i, j)'
        PROVE  Passed(m, i, j)
    BY <1>0, <1>5, <2>0, <2>2 DEF NextMid, Passed, Positions, IsPivot, Skipped, Mids
  <2>3. (DirectWeighed /\ TwoHopWeighed)'
    BY <1>0, <1>5, <2>2, SameAnswer DEF NextMid, AtPivot, In
  <2> QED BY <1>0, <1>1, <1>5, <2>1, <2>3 DEF NextMid
<1>6. CASE Finish
  <2>1. Positions'
    BY <1>0, <1>1, <1>6 DEF Finish, Positions, Skipped, In
  <2>2. ASSUME NEW m \in 1 .. Len(Mids), NEW i \in 1 .. Len(Firsts), NEW j \in 1 .. Len(Seconds(m)),
               Passed(m, i, j)'
        PROVE  Passed(m, i, j)
    BY <1>6, <2>2 DEF Finish, Passed
  <2>3. (DirectWeighed /\ TwoHopWeighed)'
    BY <1>0, <1>6, <2>2, SameAnswer DEF Finish, In
  <2> QED BY <1>0, <1>1, <1>6, <2>1, <2>3 DEF Finish
<1> QED BY <1>2, <1>3, <1>4, <1>5, <1>6

LEMMA NextIInv == IInv /\ [Next]_vars => IInv'
<1> SUFFICES ASSUME IInv, [Next]_vars PROVE IInv'
  OBVIOUS
<1>1. Setting
  BY InSetting DEF IInv
<1>2. CASE TryDirect
  BY <1>1, <1>2, TryDirectStep
<1>3. CASE TryTwoHop
  BY <1>1, <1>3, TryTwoHopStep
<1>4. CASE Reject \/ DirectDone \/ NextFirst \/ NextMid \/ Finish
  BY <1>1, <1>4, MoveStep
<1>5. CASE Abort
  BY <1>5 DEF Abort, IInv, Positions, Skipped, Mids, Firsts
<1>6. CASE UNCHANGED <<call, graph, pc, mid, first, second, best>>
  BY <1>6 DEF IInv, Positions, Skipped, Degenerate, Mids, Firsts, Seconds, DirectWeighed, Routes,
              TwoHopWeighed, Passed, Weighed, OfPool, OfPair
<1> QED BY <1>2, <1>3, <1>4, <1>5, <1>6 DEF Next, Step, Expire, Returned, vars

(* All candidates weighed at the end, the answer beats every other route.  *)
LEMMA IInvBest == IInv => ReturnsTheBest
<1> SUFFICES ASSUME IInv, pc = "done" PROVE IF Routes = {} THEN best = NoRoute
                 ELSE best \in Routes /\ \A r \in Routes \ {best} : Beats(best, r)
  BY DEF ReturnsTheBest, Routes
<1>1. Setting
  BY InSetting DEF IInv
<1>2. ASSUME NEW r \in Routes PROVE Weighed(r, best) /\ r # NoRoute
  <2>1. ~Degenerate /\ DirectWeighed /\ TwoHopWeighed /\ mid > Len(Mids) /\ mid \in Nat
    BY <1>1, OnlyCandidates DEF IInv, Positions
  <2>2. \A m \in 1 .. Len(Mids) : m < mid
    BY <1>1, <2>1, Lengths
  <2> QED BY <1>1, <2>1, <2>2, OnlyCandidates DEF DirectWeighed, TwoHopWeighed, Passed
<1>3. ASSUME NEW r \in Routes, best # r PROVE best \in Routes /\ Beats(best, r)
  <2>1. best \in Routes /\ ~Beats(r, best)
    BY <1>2 DEF Weighed, IInv
  <2>2. Numbers(best) /\ Numbers(r) /\ best.key # r.key
    BY <1>1, <1>3, <2>1, RouteNumbers, KeyDetermines DEF Setting, Routes
  <2> QED BY <2>1, <2>2 DEF Beats, Numbers
<1> QED BY <1>2, <1>3 DEF IInv

(* Whatever the pools, the bounds and the deadline: a search that ends     *)
(* returns the best of all routes, which is one.                           *)
THEOREM SearchOptimal == Spec => []ReturnsTheBest
<1>1. Spec => []IInv
  BY InitIInv, NextIInv, PTL DEF Spec
<1> QED BY <1>1, IInvBest, PTL

-----------------------------------------------------------------------------
(* Numbers and sorting.                                                    *)

NumberStep(t, n, f) == IF n = 0 THEN 0 ELSE 10 * f[n - 1] + DigitOf[t[n]]

(* A text of digits is a natural number. *)
LEMMA NumberNat ==
    ASSUME NEW t \in Seq(STRING), decimalDigitsOnly(t)
    PROVE  Number(t) \in Nat
<1> DEFINE N == Len(t)
           step == [na \in (1 .. N) \X Nat |-> 10 * na[2] + DigitOf[t[na[1]]]]
           Reads(f) == f = [n \in 0 .. N |-> NumberStep(t, n, f)]
           upTo == CHOOSE f : Reads(f)
<1>1. N \in Nat /\ DOMAIN t = 1 .. N
  BY LenProperties
<1>2. \A i \in 1 .. N : DigitOf[t[i]] \in Nat
  <2> TAKE i \in 1 .. N
  <2>1. t[i] \in DOMAIN DigitOf
    BY <1>1 DEF decimalDigitsOnly, Range
  <2>2. \A c \in DOMAIN DigitOf : DigitOf[c] \in Nat
    BY DEF DigitOf
  <2> QED BY <2>1, <2>2
<1>3. step \in [(1 .. N) \X Nat -> Nat]
  <2>1. ASSUME NEW na \in (1 .. N) \X Nat PROVE 10 * na[2] + DigitOf[t[na[1]]] \in Nat
    BY <1>2
  <2> QED BY <2>1
<1>4. ASSUME NEW f, NEW n \in 1 .. N, f[n - 1] \in Nat
      PROVE  NumberStep(t, n, f) = step[<<n, f[n - 1]>>]
  <2>1. <<n, f[n - 1]>> \in (1 .. N) \X Nat /\ n # 0
    BY <1>1, <1>4
  <2> QED BY <2>1 DEF NumberStep
<1>5. \A f : NumberStep(t, 0, f) = 0
  BY DEF NumberStep
<1>6. PICK g : Iterates(g, N, Nat, 0, step)
  <2> HIDE DEF N, step
  <2> QED BY <1>1, <1>3, RecursionExists
<1>7. Reads(g)
  <2> HIDE DEF step
  <2>1. ASSUME NEW n \in 0 .. N PROVE g[n] = NumberStep(t, n, g)
    <3>1. CASE n = 0
      BY <1>5, <1>6, <3>1 DEF Iterates
    <3>2. CASE n # 0
      <4>1. n \in 1 .. N /\ g[n - 1] \in Nat
        BY <1>1, <1>6, <3>2 DEF Iterates
      <4> QED BY <1>4, <1>6, <4>1 DEF Iterates
    <3> QED BY <3>1, <3>2
  <2>2. g = [n \in 0 .. N |-> g[n]]
    BY <1>6 DEF Iterates
  <2> QED BY <2>1, <2>2
<1>8. Reads(upTo)
  <2> HIDE DEF Reads
  <2> QED BY <1>7
<1> HIDE DEF upTo, step
<1>9. \A n \in 0 .. N : upTo[n] = NumberStep(t, n, upTo)
  BY <1>8
<1>10. Follows(upTo, N, Nat, 0, step)
  BY <1>1, <1>4, <1>5, <1>9 DEF Follows
<1>11. upTo[N] \in Nat
  <2>1. \A n \in 0 .. N : upTo[n] \in Nat
    <3> HIDE DEF N, Reads
    <3> QED BY <1>1, <1>3, <1>10, RecursionTyped
  <2> QED BY <1>1, <2>1
<1>12. Number(t) = upTo[N]
  BY DEF Number, upTo, NumberStep
<1> QED BY <1>11, <1>12

(* Sorting by keys that all differ is a permutation with ascending keys. *)
LEMMA OrderedBy ==
    ASSUME NEW A, NEW s \in Seq(A), NEW key \in [DOMAIN s -> Int],
           \A i, j \in DOMAIN s : key[i] = key[j] => i = j
    PROVE  \E p \in Surjection(DOMAIN s, DOMAIN s) :
               /\ Ordered(s, key) = [i \in DOMAIN s |-> s[p[i]]]
               /\ \A i, j \in DOMAIN s : i < j => key[p[i]] < key[p[j]]
<1> DEFINE D == DOMAIN s
           R == { ij \in D \X D : key[ij[1]] < key[ij[2]] }
           Sorts(p) == \A i, j \in D : i < j => key[p[i]] <= key[p[j]]
           P == CHOOSE p \in Surjection(D, D) : Sorts(p)
<1>1. Len(s) \in Nat /\ D = 1 .. Len(s)
  BY LenProperties
<1>2. IsFiniteSet(D) /\ Cardinality(D) = Len(s)
  <2>1. 1 \in Int /\ Len(s) \in Int
    BY <1>1
  <2>2. /\ IsFiniteSet(1 .. Len(s))
        /\ Cardinality(1 .. Len(s)) = IF 1 > Len(s) THEN 0 ELSE Len(s) - 1 + 1
    BY <2>1, FS_Interval
  <2> QED BY <1>1, <2>2
<1>3. TotalOrder(R, D)
  <2>1. \A x, y \in D : x # y => <<x, y>> \in R \/ <<y, x>> \in R
    OBVIOUS
  <2>2. \A x, y, z \in D : <<x, y>> \in R /\ <<y, z>> \in R => <<x, z>> \in R
    OBVIOUS
  <2> QED BY <2>1, <2>2 DEF TotalOrder
<1>4. PICK q : InOrder(q, D, R)
  <2> HIDE DEF D, R
  <2> QED BY <1>2, <1>3, ListingExists
<1>5. q \in Surjection(D, D)
  BY <1>1, <1>2, <1>4 DEF InOrder, Surjection
<1>6. Sorts(q)
  <2>1. \A i, j \in D : i < j => <<q[i], q[j]>> \in R
    BY <1>1, <1>2, <1>4 DEF InOrder
  <2>2. ASSUME NEW i \in D, NEW j \in D, i < j PROVE key[q[i]] <= key[q[j]]
    <3>1. q[i] \in D /\ q[j] \in D
      BY <1>5 DEF Surjection
    <3>2. key[q[i]] < key[q[j]]
      BY <2>1, <2>2
    <3>3. key[q[i]] \in Int /\ key[q[j]] \in Int
      BY <3>1
    <3> HIDE DEF D
    <3> QED BY <3>2, <3>3
  <2> QED BY <2>2
<1>7. P \in Surjection(D, D) /\ Sorts(P)
  <2> HIDE DEF Sorts
  <2> QED BY <1>5, <1>6
<1>8. Ordered(s, key) = [i \in D |-> s[P[i]]]
  BY DEF Ordered
<1> HIDE DEF P
<1>9. \A i, j \in D : P[i] = P[j] => i = j
  <2>1. P \in Surjection(D, D)
    BY <1>7
  <2> HIDE DEF D
  <2>2. P \in Injection(D, D)
    BY <1>2, <2>1, FS_SurjSameCardinalityImpliesInj
  <2> QED BY <2>2 DEF Injection, IsInjective
<1>10. \A i \in D : P[i] \in D
  BY <1>7 DEF Surjection
<1>11. \A i, j \in D : i < j => key[P[i]] < key[P[j]]
  <2> TAKE i \in D, j \in D
  <2> HAVE i < j
  <2>1. key[P[i]] <= key[P[j]]
    BY <1>7
  <2>2. i # j
    BY <1>1
  <2>3. P[i] # P[j]
    BY <1>9, <2>2
  <2>4. key[P[i]] # key[P[j]]
    BY <1>10, <2>3
  <2>5. key[P[i]] \in Int /\ key[P[j]] \in Int
    BY <1>10
  <2> QED BY <2>1, <2>4, <2>5
<1> QED BY <1>7, <1>8, <1>11

-----------------------------------------------------------------------------
(* What buildPool knows at each stage.                                     *)

Keys == DOMAIN entry.tokens
Net  == DOMAIN entry.net

(* What the entry says of one key of its map of tokens, of its map of net  *)
(* liquidity.                                                              *)
KeyRow(key) ==
    [balance |-> parsePositiveUnsigned(entry.tokens[key].balance, ReserveBits),
     scale   |-> ScaledDecimal(entry.tokens[key].scale, ScaleUnit)]

Index(key) == ParseInt(key, IndexBits)

NetOk(key) == parseSignedInteger(entry.net[key], LiquidityBits).ok

KeyTick(key) ==
    [index |-> Index(key).value, net |-> parseSignedInteger(entry.net[key], LiquidityBits).value]

(* The addresses are those of the keys, each once. *)
Collected(keys) ==
    /\ addresses \in Seq(DOMAIN ToLower)
    /\ Len(addresses) = Cardinality(keys)
    /\ \A i \in DOMAIN addresses : \E key \in keys : addresses[i] = ToLower[key]
    /\ \A key \in keys : \E i \in DOMAIN addresses : addresses[i] = ToLower[key]
    /\ \A i, j \in DOMAIN addresses : addresses[i] = addresses[j] => i = j
    /\ Distinct(keys)

Ranked ==
    \A i, j \in DOMAIN addresses : i < j => Rank[addresses[i]] < Rank[addresses[j]]

(* The rows are those of the first addresses, and they are in order. *)
RowsRead ==
    /\ rows \in Seq({ KeyRow(key) : key \in Keys })
    /\ Len(rows) <= Len(addresses)
    /\ \A i \in DOMAIN rows :
          RowOk(rows[i]) /\ \A key \in Keys : addresses[i] = ToLower[key] => rows[i] = KeyRow(key)

(* The ticks are those of the keys, each once. *)
TicksRead(keys) ==
    /\ ticks \in Seq({ KeyTick(key) : key \in keys })
    /\ Len(ticks) = Cardinality(keys)
    /\ \A key \in keys : TickOk(Index(key)) /\ NetOk(key)
    /\ \A key \in keys : \E i \in DOMAIN ticks : ticks[i].index = Index(key).value
    /\ \A i, j \in DOMAIN ticks : ticks[i].index = ticks[j].index => i = j
    /\ \A x, y \in keys : x # y => Index(x).value # Index(y).value

Ascending == \A i, j \in DOMAIN ticks : i < j => ticks[i].index < ticks[j].index

OfList == addresses = [i \in 1 .. 2 |-> ToLower[entry.tokens[i]]]

WellFormed == CommonOk /\ (MapWellFormed \/ (ListOk /\ TicksWellFormed))

Fresh == left = {} /\ addresses = <<>> /\ rows = <<>> /\ ticks = <<>>

Collecting ==
    CommonOk /\ MapOk /\ left \subseteq Keys /\ Collected(Keys \ left) /\ rows = <<>> /\ ticks = <<>>

Looking ==
    CommonOk /\ MapOk /\ left = {} /\ Collected(Keys) /\ Ranked /\ RowsRead /\ ticks = <<>>

ReadingTicks ==
    CommonOk /\ ListOk /\ left \subseteq Net /\ OfList /\ TicksRead(Net \ left) /\ rows = <<>>

Done ==
    \/ Looking /\ Len(rows) = Len(addresses)
    \/ ReadingTicks /\ left = {} /\ Ascending

BuildInv ==
    /\ entry \in Entries
    /\ stage \in {"open", "collect", "look", "ticks", "built", "skipped"}
    /\ stage = "open"    => Fresh
    /\ stage = "collect" => Collecting
    /\ stage = "look"    => Looking
    /\ stage = "ticks"   => ReadingTicks
    /\ stage = "built"   => Done
    /\ stage = "skipped" => ~WellFormed

(* Names that EqualFold joins are equal in lower case: hexadecimal         *)
(* addresses are so.  An entry with two names that only EqualFold joins    *)
(* may take the reserve of either for both.                                *)
SpelledIn(e) == IF e.shape = "map" THEN DOMAIN e.tokens ELSE ToSet(e.tokens)

PlainNames ==
    \A e \in Entries : e.shape \in {"map", "list"} =>
        \A x \in SpelledIn(e), y \in DOMAIN ToLower : EqualFold(x, y) => SameName(x, y)

-----------------------------------------------------------------------------
(* What is read of the entry depends on the entry alone.                   *)

LEMMA SameEntry ==
    ASSUME entry' = entry
    PROVE  /\ CommonOk' <=> CommonOk
           /\ MapOk' <=> MapOk
           /\ ListOk' <=> ListOk
           /\ WellFormed' <=> WellFormed
           /\ Keys' = Keys /\ Net' = Net
<1>1. CommonOk' <=> CommonOk
  BY DEF CommonOk, GasOk
<1>2. MapOk' <=> MapOk
  BY DEF MapOk
<1>3. ListOk' <=> ListOk
  BY DEF ListOk
<1>4. MapWellFormed' <=> MapWellFormed
  BY <1>2 DEF MapWellFormed, RowOk
<1>5. TicksWellFormed' <=> TicksWellFormed
  BY DEF TicksWellFormed
<1>6. WellFormed' <=> WellFormed
  BY <1>1, <1>3, <1>4, <1>5 DEF WellFormed
<1> QED BY <1>1, <1>2, <1>3, <1>6 DEF Keys, Net

LEMMA SameRows ==
    ASSUME entry' = entry
    PROVE  /\ \A key : KeyRow(key)' = KeyRow(key) /\ KeyTick(key)' = KeyTick(key)
           /\ \A key : NetOk(key)' <=> NetOk(key)
           /\ \A row : RowOk(row)' <=> RowOk(row)
  BY DEF KeyRow, KeyTick, NetOk, RowOk

LEMMA EntryFacts ==
    ASSUME entry \in Entries
    PROVE  /\ entry.gas \in Seq(STRING)
           /\ IsFiniteSet(Net)
           /\ MapOk => Keys \subseteq DOMAIN ToLower /\ IsFiniteSet(Keys)
           /\ ListOk => entry.tokens \in Seq(DOMAIN ToLower)
  BY PoolBuildingAssumption DEF EntryOk, MapOk, ListOk, Net, Keys

(* A map is no list. *)
LEMMA MapOrList == ~(MapOk /\ ListOk) /\ (MapWellFormed => MapOk)
  BY DEF MapOk, ListOk, MapWellFormed

LEMMA LowerFacts ==
    ASSUME NEW x \in DOMAIN ToLower
    PROVE  /\ ToLower[x] \in DOMAIN ToLower /\ ToLower[x] \in DOMAIN Rank
           /\ ToLower[ToLower[x]] = ToLower[x]
           /\ Fold[ToLower[x]] = Fold[x]
           /\ Rank[ToLower[x]] \in Int
  BY PoolBuildingAssumption

-----------------------------------------------------------------------------
(* The steps.                                                              *)

LEMMA RefuseKeeps ==
    ASSUME BuildInv, Refuse PROVE BuildInv'
<1>1. stage' = "skipped" /\ entry' = entry
  BY DEF Refuse, Skip
<1>2. ~WellFormed
  BY MapOrList DEF Refuse, WellFormed
<1> QED BY <1>1, <1>2, SameEntry DEF BuildInv

LEMMA OpenMapKeeps ==
    ASSUME BuildInv, OpenMap PROVE BuildInv'
<1> USE DEF OpenMap
<1>1. entry' = entry /\ stage' = "collect" /\ left' = Keys /\ Fresh /\ CommonOk /\ MapOk
  BY DEF BuildInv, Keys
<1>2. addresses' = <<>> /\ rows' = <<>> /\ ticks' = <<>>
  BY <1>1 DEF Fresh
<1>3. Collected({})'
  <2>1. Cardinality({}) = 0
    BY FS_EmptySet
  <2> QED BY <1>2, <2>1 DEF Collected, Distinct
<1>4. (Keys \ left)' = {} /\ (left \subseteq Keys)'
  BY <1>1, SameEntry
<1>5. Collecting'
  BY <1>1, <1>2, <1>3, <1>4, SameEntry DEF Collecting
<1> QED BY <1>1, <1>5 DEF BuildInv

LEMMA OpenListKeeps ==
    ASSUME BuildInv, OpenList PROVE BuildInv'
<1> USE DEF OpenList
<1>1. entry' = entry /\ stage' = "ticks" /\ left' = Net /\ Fresh /\ CommonOk /\ ListOk
  BY DEF BuildInv, Net
<1>2. rows' = <<>> /\ ticks' = <<>>
  BY <1>1 DEF Fresh
<1>3. TicksRead({})'
  <2>1. Cardinality({}) = 0
    BY FS_EmptySet
  <2> QED BY <1>2, <2>1 DEF TicksRead
<1>4. (Net \ left)' = {} /\ (left \subseteq Net)'
  BY <1>1, SameEntry
<1>5. OfList'
  BY DEF OfList
<1>6. ReadingTicks'
  BY <1>1, <1>2, <1>3, <1>4, <1>5, SameEntry DEF ReadingTicks
<1> QED BY <1>1, <1>6 DEF BuildInv

LEMMA CollectKeeps ==
    ASSUME BuildInv, NEW key \in left, Collect(key) PROVE BuildInv'
<1>a. PICK Before : Before = Keys \ left
  OBVIOUS
<1>b. PICK After : After = Before \cup {key}
  OBVIOUS
<1>1. Collecting /\ entry' = entry /\ left' = left \ {key} /\ UNCHANGED <<rows, ticks>>
  BY DEF BuildInv, Collect, Visit
<1>2. key \in Keys /\ key \notin Before /\ Before \subseteq Keys /\ (Keys \ left)' = After
  BY <1>a, <1>b, <1>1, SameEntry DEF Collecting
<1>3. Collected(Before) /\ addresses \in Seq(DOMAIN ToLower)
  BY <1>a, <1>1 DEF Collecting, Collected
<1>4. IsFiniteSet(Before) /\ Keys \subseteq DOMAIN ToLower
  BY <1>a, <1>1, EntryFacts, FS_Difference DEF BuildInv, Collecting
<1>5. CASE ToLower[key] \in Range(addresses)
  <2>1. PICK other \in Before : ToLower[other] = ToLower[key]
    BY <1>3, <1>5 DEF Range, Collected
  <2>2. ~Distinct(Keys)
    BY <1>2, <2>1 DEF Distinct, SameName
  <2>3. ~WellFormed
    BY <1>1, <2>2, MapOrList DEF WellFormed, MapWellFormed, Keys, Collecting
  <2>4. stage' = "skipped"
    BY <1>5 DEF Collect
  <2> QED BY <1>1, <2>3, <2>4, SameEntry DEF BuildInv
<1>6. CASE ToLower[key] \notin Range(addresses)
  <2>1. stage' = "collect" /\ addresses' = Append(addresses, ToLower[key])
    BY <1>6 DEF Collect
  <2>2. /\ addresses' \in Seq(DOMAIN ToLower)
        /\ Len(addresses') = Len(addresses) + 1
        /\ \A i \in 1 .. Len(addresses) : addresses'[i] = addresses[i]
        /\ addresses'[Len(addresses) + 1] = ToLower[key]
    BY <1>2, <1>3, <1>4, <2>1, LowerFacts, AppendProperties
  <2>3. Len(addresses) \in Nat /\ DOMAIN addresses = 1 .. Len(addresses)
        /\ DOMAIN addresses' = 1 .. Len(addresses) + 1
    BY <1>3, <2>2, LenProperties
  <2>4. Cardinality(After) = Cardinality(Before) + 1
    BY <1>b, <1>2, <1>4, FS_AddElement
  <2>5. \A i \in DOMAIN addresses : addresses[i] # ToLower[key]
    BY <1>6 DEF Range
  <2>6. Distinct(After)
    BY <1>b, <1>3, <2>5 DEF Collected, Distinct, SameName
  <2>7. Len(addresses') = Cardinality(After)
    BY <1>3, <2>2, <2>4 DEF Collected
  <2>8. \A i \in DOMAIN addresses' : \E k \in After : addresses'[i] = ToLower[k]
    <3> TAKE i \in DOMAIN addresses'
    <3>1. CASE i \in DOMAIN addresses
      BY <1>b, <1>3, <2>2, <2>3, <3>1 DEF Collected
    <3>2. CASE i = Len(addresses) + 1
      BY <1>b, <2>2, <3>2
    <3> QED BY <2>3, <3>1, <3>2
  <2>9. \A k \in After : \E i \in DOMAIN addresses' : addresses'[i] = ToLower[k]
    <3> TAKE k \in After
    <3>1. CASE k \in Before
      BY <1>3, <2>2, <2>3, <3>1 DEF Collected
    <3>2. CASE k = key
      <4>1. Len(addresses) + 1 \in DOMAIN addresses'
        BY <2>3
      <4> QED BY <2>2, <3>2, <4>1
    <3> QED BY <1>b, <3>1, <3>2
  <2>10. \A i, j \in DOMAIN addresses' : addresses'[i] = addresses'[j] => i = j
    <3> TAKE i \in DOMAIN addresses', j \in DOMAIN addresses'
    <3>1. CASE i \in DOMAIN addresses /\ j \in DOMAIN addresses
      BY <1>3, <2>2, <2>3, <3>1 DEF Collected
    <3>2. CASE i \notin DOMAIN addresses \/ j \notin DOMAIN addresses
      BY <2>2, <2>3, <2>5, <3>2
    <3> QED BY <3>1, <3>2
  <2>11. Collected(After)'
    BY <2>2, <2>6, <2>7, <2>8, <2>9, <2>10 DEF Collected, Distinct, SameName
  <2>12. (left \subseteq Keys)' /\ rows' = <<>> /\ ticks' = <<>>
    BY <1>1, SameEntry DEF Collecting
  <2>13. Collected(Keys \ left)'
    BY <1>2, <2>11
  <2>14. Collecting'
    BY <1>1, <2>12, <2>13, SameEntry DEF Collecting
  <2> QED BY <1>1, <2>1, <2>14 DEF BuildInv
<1> QED BY <1>5, <1>6

LEMMA SortAddressesKeeps ==
    ASSUME BuildInv, SortAddresses PROVE BuildInv'
<1>1. /\ Collecting /\ left = {} /\ stage' = "look"
      /\ entry' = entry /\ left' = left /\ rows' = <<>> /\ ticks' = <<>>
  BY DEF BuildInv, SortAddresses, Collecting
<1>2. Collected(Keys) /\ Keys \subseteq DOMAIN ToLower
  BY <1>1, EntryFacts DEF Collecting, BuildInv
<1> DEFINE key == [i \in DOMAIN addresses |-> Rank[addresses[i]]]
<1>3. addresses \in Seq(DOMAIN ToLower) /\ Len(addresses) \in Nat /\ DOMAIN addresses = 1 .. Len(addresses)
  BY <1>2, LenProperties DEF Collected
<1>4. \A i \in DOMAIN addresses : addresses[i] \in DOMAIN ToLower \cap DOMAIN Rank /\ Rank[addresses[i]] \in Int
  <2> TAKE i \in DOMAIN addresses
  <2>1. PICK k \in Keys : addresses[i] = ToLower[k]
    BY <1>2 DEF Collected
  <2> QED BY <1>2, <2>1, LowerFacts
<1>5. key \in [DOMAIN addresses -> Int]
  BY <1>4
<1>6. \A i, j \in DOMAIN addresses : key[i] = key[j] => i = j
  BY <1>2, <1>4, PoolBuildingAssumption DEF Collected
<1>7. PICK p \in Surjection(DOMAIN addresses, DOMAIN addresses) :
          /\ Ordered(addresses, key) = [i \in DOMAIN addresses |-> addresses[p[i]]]
          /\ \A i, j \in DOMAIN addresses : i < j => key[p[i]] < key[p[j]]
  <2> HIDE DEF key
  <2> QED BY <1>3, <1>5, <1>6, OrderedBy
<1>8. addresses' = [i \in 1 .. Len(addresses) |-> addresses[p[i]]]
  BY <1>3, <1>7 DEF SortAddresses
<1>9. /\ \A i \in 1 .. Len(addresses) : p[i] \in 1 .. Len(addresses)
      /\ \A i \in 1 .. Len(addresses) : \E j \in 1 .. Len(addresses) : p[j] = i
  BY <1>3 DEF Surjection
<1>10. /\ addresses' \in Seq(DOMAIN ToLower) /\ Len(addresses') = Len(addresses)
       /\ DOMAIN addresses' = 1 .. Len(addresses)
  <2>1. \A i \in 1 .. Len(addresses) : addresses[p[i]] \in DOMAIN ToLower
    BY <1>3, <1>4, <1>9
  <2> QED BY <1>3, <1>8, <2>1
<1>11. \A i, j \in DOMAIN addresses' : i < j => Rank[addresses'[i]] < Rank[addresses'[j]]
  BY <1>3, <1>7, <1>8, <1>9, <1>10
<1>12. \A i \in DOMAIN addresses' : Rank[addresses'[i]] \in Int
  BY <1>3, <1>4, <1>8, <1>9, <1>10
<1>13. \A i, j \in DOMAIN addresses' : addresses'[i] = addresses'[j] => i = j
  <2> SUFFICES ASSUME NEW i \in DOMAIN addresses', NEW j \in DOMAIN addresses', i < j,
                      addresses'[i] = addresses'[j]
               PROVE  FALSE
    BY <1>3, <1>10
  <2> QED BY <1>11, <1>12
<1>14. \A i \in DOMAIN addresses' : \E k \in Keys : addresses'[i] = ToLower[k]
  <2> TAKE i \in DOMAIN addresses'
  <2>1. p[i] \in DOMAIN addresses /\ addresses'[i] = addresses[p[i]]
    BY <1>3, <1>8, <1>9, <1>10
  <2> QED BY <1>2, <2>1 DEF Collected
<1>15. \A k \in Keys : \E i \in DOMAIN addresses' : addresses'[i] = ToLower[k]
  <2> TAKE k \in Keys
  <2>1. PICK i \in 1 .. Len(addresses) : addresses[i] = ToLower[k]
    BY <1>2, <1>3 DEF Collected
  <2>2. PICK j \in 1 .. Len(addresses) : p[j] = i
    BY <1>9
  <2> QED BY <1>8, <1>10, <2>1, <2>2
<1>16. Collected(Keys)'
  BY <1>1, <1>2, <1>10, <1>13, <1>14, <1>15, SameEntry DEF Collected, Distinct, SameName
<1>17. Ranked'
  BY <1>11 DEF Ranked
<1>18. RowsRead'
  BY <1>1, <1>3, <1>10 DEF RowsRead
<1>19. Looking'
  BY <1>1, <1>16, <1>17, <1>18, SameEntry DEF Looking, Collecting
<1> QED BY <1>1, <1>19 DEF BuildInv

(* Equal in EqualFold is equal in lower case, for an address of the entry. *)
LEMMA FoundIs ==
    ASSUME BuildInv, PlainNames, MapOk, Collected(Keys), NEW i \in DOMAIN addresses,
           NEW y \in DOMAIN ToLower, EqualFold(addresses[i], y)
    PROVE  ToLower[y] = addresses[i]
<1>1. PICK x \in Keys : addresses[i] = ToLower[x]
  BY DEF Collected
<1>2. x \in DOMAIN ToLower /\ x \in SpelledIn(entry) /\ entry.shape \in {"map", "list"}
  BY EntryFacts DEF BuildInv, MapOk, SpelledIn, Keys
<1>3. EqualFold(x, y)
  BY <1>1, <1>2, LowerFacts DEF EqualFold
<1> QED BY <1>1, <1>2, <1>3 DEF PlainNames, BuildInv, SameName

LEMMA LookKeeps ==
    ASSUME BuildInv, PlainNames, Look PROVE BuildInv'
<1>1. Looking /\ Len(rows) < Len(addresses) /\ entry' = entry
  BY DEF BuildInv, Look, Skip
<1>2. PICK key \in Found(addresses[Len(rows) + 1]) :
        IF RowOk(KeyRow(key))
        THEN rows' = Append(rows, KeyRow(key)) /\ UNCHANGED <<entry, stage, left, addresses, ticks>>
        ELSE Skip
  BY DEF Look, KeyRow
<1>3. /\ Collected(Keys) /\ MapOk /\ CommonOk
      /\ addresses \in Seq(DOMAIN ToLower) /\ rows \in Seq({ KeyRow(k) : k \in Keys })
  BY <1>1 DEF Looking, Collected, RowsRead
<1>4. /\ Len(rows) \in Nat /\ DOMAIN rows = 1 .. Len(rows)
      /\ Len(addresses) \in Nat /\ DOMAIN addresses = 1 .. Len(addresses)
      /\ Len(rows) + 1 \in DOMAIN addresses
  BY <1>1, <1>3, LenProperties
<1>5. /\ key \in Keys /\ key \in DOMAIN ToLower
      /\ EqualFold(addresses[Len(rows) + 1], key)
  BY <1>2, <1>3, EntryFacts DEF BuildInv, Found, Keys, EqualFold
<1>6. ToLower[key] = addresses[Len(rows) + 1]
  BY <1>3, <1>4, <1>5, FoundIs
<1>7. CASE RowOk(KeyRow(key))
  <2>1. rows' = Append(rows, KeyRow(key)) /\ UNCHANGED <<entry, stage, left, addresses, ticks>>
    BY <1>2, <1>7
  <2>2. /\ rows' \in Seq({ KeyRow(k) : k \in Keys })
        /\ Len(rows') = Len(rows) + 1
        /\ \A i \in 1 .. Len(rows) : rows'[i] = rows[i]
        /\ rows'[Len(rows) + 1] = KeyRow(key)
    <3>1. KeyRow(key) \in { KeyRow(k) : k \in Keys }
      BY <1>5
    <3> QED BY <1>3, <2>1, <3>1, AppendProperties
  <2>3. DOMAIN rows' = 1 .. Len(rows) + 1
    BY <1>4, <2>2, LenProperties
  <2>4. \A k \in Keys : ToLower[k] = ToLower[key] => k = key
    BY <1>3, <1>5 DEF Collected, Distinct, SameName
  <2>5. ASSUME NEW i \in DOMAIN rows'
        PROVE  RowOk(rows'[i]) /\ \A k \in Keys : addresses[i] = ToLower[k] => rows'[i] = KeyRow(k)
    <3>1. CASE i \in DOMAIN rows
      BY <1>1, <1>4, <2>2, <3>1 DEF Looking, RowsRead
    <3>2. CASE i = Len(rows) + 1
      BY <1>6, <1>7, <2>2, <2>4, <3>2
    <3> QED BY <1>4, <2>3, <3>1, <3>2
  <2>6. { KeyRow(k) : k \in Keys }' = { KeyRow(k) : k \in Keys }
    BY <1>1, SameEntry, SameRows
  <2>7. RowsRead'
    BY <1>1, <1>4, <2>1, <2>2, <2>5, <2>6, SameEntry, SameRows DEF RowsRead
  <2>8. Collected(Keys)' /\ Ranked'
    BY <1>1, <2>1, SameEntry DEF Looking, Collected, Ranked, Distinct, SameName
  <2>9. Looking'
    BY <1>1, <2>1, <2>7, <2>8, SameEntry DEF Looking
  <2>10. stage' = "look"
    BY <2>1 DEF Look
  <2> QED BY <1>1, <2>9, <2>10 DEF BuildInv
<1>8. CASE ~RowOk(KeyRow(key))
  <2>1. stage' = "skipped"
    BY <1>2, <1>8 DEF Skip
  <2>2. ~MapWellFormed
    BY <1>5, <1>8 DEF MapWellFormed, KeyRow, Keys
  <2>3. ~WellFormed
    BY <1>3, <2>2, MapOrList DEF WellFormed
  <2> QED BY <1>1, <2>1, <2>3, SameEntry DEF BuildInv
<1> QED BY <1>7, <1>8

LEMMA ReadTickKeeps ==
    ASSUME BuildInv, NEW key \in left, ReadTick(key) PROVE BuildInv'
<1>a. PICK Before : Before = Net \ left
  OBVIOUS
<1>b. PICK After : After = Before \cup {key}
  OBVIOUS
<1>1. ReadingTicks /\ entry' = entry /\ left' = left \ {key} /\ UNCHANGED <<addresses, rows>>
  BY DEF BuildInv, ReadTick, Visit
<1>2. key \in Net /\ key \notin Before /\ Before \subseteq Net /\ (Net \ left)' = After
  BY <1>a, <1>b, <1>1, SameEntry DEF ReadingTicks
<1>3. TicksRead(Before) /\ ticks \in Seq({ KeyTick(k) : k \in Before })
  BY <1>a, <1>1 DEF ReadingTicks, TicksRead
<1>4. IsFiniteSet(Before)
  BY <1>a, EntryFacts, FS_Difference DEF BuildInv
<1> DEFINE Bad == \/ ~TickOk(Index(key)) \/ ~NetOk(key)
                  \/ \E i \in DOMAIN ticks : ticks[i].index = Index(key).value
<1>5. IF Bad THEN stage' = "skipped" /\ UNCHANGED ticks
      ELSE ticks' = Append(ticks, KeyTick(key)) /\ UNCHANGED stage
  BY DEF ReadTick, Index, NetOk, KeyTick
<1>6. Len(ticks) \in Nat /\ DOMAIN ticks = 1 .. Len(ticks)
  BY <1>3, LenProperties
<1>7. CASE Bad
  <2>1. ~TickOk(Index(key)) \/ ~NetOk(key) => ~TicksWellFormed
    BY <1>2 DEF TicksWellFormed, Net, Index, NetOk
  <2>2. ASSUME NEW i \in DOMAIN ticks, ticks[i].index = Index(key).value
        PROVE  ~TicksWellFormed
    <3>1. PICK other \in Before : ticks[i] = KeyTick(other)
      BY <1>3, <1>6, <2>2, ElementOfSeq
    <3>2. Index(other).value = Index(key).value /\ other # key /\ other \in Net
      BY <1>2, <2>2, <3>1 DEF KeyTick
    <3> QED BY <1>2, <3>2 DEF TicksWellFormed, Net, Index
  <2>3. ~TicksWellFormed
    BY <1>7, <2>1, <2>2
  <2>4. ~WellFormed
    BY <1>1, <2>3, MapOrList DEF WellFormed, ReadingTicks
  <2> QED BY <1>1, <1>5, <1>7, <2>4, SameEntry DEF BuildInv
<1>8. CASE ~Bad
  <2>1. ticks' = Append(ticks, KeyTick(key)) /\ stage' = "ticks"
    BY <1>5, <1>8 DEF ReadTick
  <2>2. ticks \in Seq({ KeyTick(k) : k \in After }) /\ KeyTick(key) \in { KeyTick(k) : k \in After }
    <3>1. { KeyTick(k) : k \in Before } \subseteq { KeyTick(k) : k \in After }
      BY <1>b
    <3>2. KeyTick(key) \in { KeyTick(k) : k \in After }
      BY <1>b
    <3> QED BY <1>3, <3>1, <3>2
  <2>3. /\ ticks' \in Seq({ KeyTick(k) : k \in After })
        /\ Len(ticks') = Len(ticks) + 1
        /\ \A i \in 1 .. Len(ticks) : ticks'[i] = ticks[i]
        /\ ticks'[Len(ticks) + 1] = KeyTick(key)
    BY <2>1, <2>2, AppendProperties
  <2>4. DOMAIN ticks' = 1 .. Len(ticks) + 1
    BY <1>6, <2>3, LenProperties
  <2>5. Len(ticks') = Cardinality(After)
    <3>1. Cardinality(Before \cup {key}) = Cardinality(Before) + 1
      BY <1>2, <1>4, FS_AddElement
    <3> QED BY <1>b, <1>3, <2>3, <3>1 DEF TicksRead
  <2>6. KeyTick(key).index = Index(key).value
    BY DEF KeyTick
  <2>7. \A k \in After : TickOk(Index(k)) /\ NetOk(k)
    BY <1>b, <1>3, <1>8 DEF TicksRead
  <2>8. \A k \in After : \E i \in DOMAIN ticks' : ticks'[i].index = Index(k).value
    <3> TAKE k \in After
    <3>1. CASE k \in Before
      <4>1. PICK i \in DOMAIN ticks : ticks[i].index = Index(k).value
        BY <1>3, <3>1 DEF TicksRead
      <4>2. i \in DOMAIN ticks' /\ ticks'[i] = ticks[i]
        BY <1>6, <2>3, <2>4
      <4> QED BY <4>1, <4>2
    <3>2. CASE k = key
      <4>1. Len(ticks) + 1 \in DOMAIN ticks'
        BY <1>6, <2>4
      <4> QED BY <2>3, <2>6, <3>2, <4>1
    <3> QED BY <1>b, <3>1, <3>2
  <2>9. \A i, j \in DOMAIN ticks' : ticks'[i].index = ticks'[j].index => i = j
    <3> TAKE i \in DOMAIN ticks', j \in DOMAIN ticks'
    <3>1. CASE i \in DOMAIN ticks /\ j \in DOMAIN ticks
      BY <1>3, <1>6, <2>3, <3>1 DEF TicksRead
    <3>2. CASE i \notin DOMAIN ticks \/ j \notin DOMAIN ticks
      BY <1>6, <1>8, <2>3, <2>4, <2>6, <3>2
    <3> QED BY <3>1, <3>2
  <2>10. \A x, y \in After : x # y => Index(x).value # Index(y).value
    <3>1. \A x \in Before : Index(x).value # Index(key).value
      BY <1>3, <1>8 DEF TicksRead
    <3> QED BY <1>b, <1>3, <3>1 DEF TicksRead
  <2>11. { KeyTick(k) : k \in After }' = { KeyTick(k) : k \in After }
    BY <1>1, SameRows
  <2>12. TicksRead(After)'
    BY <1>1, <2>3, <2>5, <2>7, <2>8, <2>9, <2>10, <2>11, SameRows DEF TicksRead, TickOk, Index
  <2>13. TicksRead(Net \ left)'
    BY <1>2, <2>12
  <2>14. OfList' /\ (left \subseteq Net)' /\ rows' = <<>>
    BY <1>1, SameEntry DEF ReadingTicks, OfList
  <2>15. ReadingTicks'
    BY <1>1, <2>13, <2>14, SameEntry DEF ReadingTicks
  <2> QED BY <1>1, <2>1, <2>15 DEF BuildInv
<1> QED BY <1>7, <1>8

LEMMA BuiltKeeps ==
    ASSUME BuildInv, Built PROVE BuildInv'
<1> DEFINE key == [i \in DOMAIN ticks |-> ticks[i].index]
<1>1. /\ stage' = "built" /\ UNCHANGED <<entry, left, addresses, rows>>
      /\ ticks' = Ordered(ticks, key)
  BY DEF Built, SortTicks
<1>2. CASE stage = "look"
  <2>1. Looking /\ Len(rows) = Len(addresses) /\ ticks = <<>>
    BY <1>2 DEF BuildInv, Built, Looking
  <2>2. ticks' = <<>>
    BY <1>1, <2>1 DEF Ordered
  <2>3. { KeyRow(k) : k \in Keys }' = { KeyRow(k) : k \in Keys }
    BY <1>1, SameEntry, SameRows
  <2>4. RowsRead'
    BY <1>1, <2>1, <2>3, SameEntry, SameRows DEF RowsRead, Looking
  <2>5. Collected(Keys)' /\ Ranked'
    BY <1>1, <2>1, SameEntry DEF Looking, Collected, Ranked, Distinct, SameName
  <2>6. Looking' /\ (Len(rows) = Len(addresses))'
    BY <1>1, <2>1, <2>2, <2>4, <2>5, SameEntry DEF Looking
  <2> QED BY <1>1, <2>6 DEF BuildInv, Done
<1>3. CASE stage = "ticks"
  <2>1. ReadingTicks /\ left = {}
    BY <1>3 DEF BuildInv, Built
  <2>2. TicksRead(Net) /\ ticks \in Seq({ KeyTick(k) : k \in Net })
    BY <2>1 DEF ReadingTicks, TicksRead
  <2>3. Len(ticks) \in Nat /\ DOMAIN ticks = 1 .. Len(ticks)
    BY <2>2, LenProperties
  <2>4. \A i \in DOMAIN ticks : ticks[i].index \in Int
    <3> TAKE i \in DOMAIN ticks
    <3>1. PICK k \in Net : ticks[i] = KeyTick(k)
      BY <2>2, <2>3, ElementOfSeq
    <3>2. Index(k).value \in Int
      BY <2>2 DEF TicksRead, TickOk
    <3> QED BY <3>1, <3>2 DEF KeyTick
  <2>5. key \in [DOMAIN ticks -> Int]
    BY <2>4
  <2>6. \A i, j \in DOMAIN ticks : key[i] = key[j] => i = j
    BY <2>2 DEF TicksRead
  <2>7. PICK p \in Surjection(DOMAIN ticks, DOMAIN ticks) :
            /\ Ordered(ticks, key) = [i \in DOMAIN ticks |-> ticks[p[i]]]
            /\ \A i, j \in DOMAIN ticks : i < j => key[p[i]] < key[p[j]]
    <3> HIDE DEF key
    <3> QED BY <2>2, <2>5, <2>6, OrderedBy
  <2>8. /\ \A i \in 1 .. Len(ticks) : p[i] \in 1 .. Len(ticks)
        /\ \A i \in 1 .. Len(ticks) : \E j \in 1 .. Len(ticks) : p[j] = i
    BY <2>3 DEF Surjection
  <2>9. ticks' = [i \in 1 .. Len(ticks) |-> ticks[p[i]]]
    BY <1>1, <2>3, <2>7
  <2>10. /\ ticks' \in Seq({ KeyTick(k) : k \in Net }) /\ Len(ticks') = Len(ticks)
         /\ DOMAIN ticks' = 1 .. Len(ticks)
    <3>1. \A i \in 1 .. Len(ticks) : ticks[p[i]] \in { KeyTick(k) : k \in Net }
      BY <2>2, <2>3, <2>8, ElementOfSeq
    <3> QED BY <2>3, <2>9, <3>1
  <2>11. \A i, j \in DOMAIN ticks' : i < j => ticks'[i].index < ticks'[j].index
    BY <2>3, <2>7, <2>8, <2>9, <2>10
  <2>12. \A i \in DOMAIN ticks' : ticks'[i].index \in Int
    BY <2>3, <2>4, <2>8, <2>9, <2>10
  <2>13. \A i, j \in DOMAIN ticks' : ticks'[i].index = ticks'[j].index => i = j
    <3> SUFFICES ASSUME NEW i \in DOMAIN ticks', NEW j \in DOMAIN ticks', i < j,
                        ticks'[i].index = ticks'[j].index
                 PROVE  FALSE
      BY <2>3, <2>10
    <3> QED BY <2>11, <2>12
  <2>14. \A k \in Net : \E i \in DOMAIN ticks' : ticks'[i].index = Index(k).value
    <3> TAKE k \in Net
    <3>1. PICK i \in 1 .. Len(ticks) : ticks[i].index = Index(k).value
      BY <2>2, <2>3 DEF TicksRead
    <3>2. PICK j \in 1 .. Len(ticks) : p[j] = i
      BY <2>8
    <3> QED BY <2>9, <2>10, <3>1, <3>2
  <2>15. { KeyTick(k) : k \in Net }' = { KeyTick(k) : k \in Net } /\ (Net \ left)' = Net
    BY <1>1, <2>1, SameEntry, SameRows
  <2>16. TicksRead(Net)'
    BY <1>1, <2>2, <2>10, <2>13, <2>14, <2>15, SameEntry, SameRows DEF TicksRead, TickOk, Index
  <2>17. TicksRead(Net \ left)'
    BY <1>1, <2>1, <2>15, <2>16, SameEntry
  <2>18. OfList' /\ (left \subseteq Net)' /\ rows' = <<>>
    BY <1>1, <2>1, SameEntry DEF ReadingTicks, OfList
  <2>19. ReadingTicks' /\ left' = {} /\ Ascending'
    BY <1>1, <2>1, <2>11, <2>17, <2>18, SameEntry DEF ReadingTicks, Ascending
  <2> QED BY <1>1, <2>19 DEF BuildInv, Done
<1> QED BY <1>2, <1>3 DEF Built

LEMMA BuildStep ==
    ASSUME BuildInv, PlainNames, [EntryNext]_entryVars PROVE BuildInv'
<1>1. CASE UNCHANGED entryVars
  <2>1. /\ entry' = entry /\ stage' = stage /\ left' = left
        /\ addresses' = addresses /\ rows' = rows /\ ticks' = ticks
    BY <1>1 DEF entryVars
  <2>2. /\ { KeyRow(k) : k \in Keys }' = { KeyRow(k) : k \in Keys }
        /\ { KeyTick(k) : k \in Net \ left }' = { KeyTick(k) : k \in Net \ left }
    BY <2>1, SameEntry, SameRows
  <2>3. Fresh' <=> Fresh
    BY <2>1 DEF Fresh
  <2>4. /\ Collected(Keys)' <=> Collected(Keys)
        /\ Collected(Keys \ left)' <=> Collected(Keys \ left)
        /\ Ranked' <=> Ranked
    BY <2>1, SameEntry DEF Collected, Ranked, Distinct, SameName
  <2>5. RowsRead' <=> RowsRead
    BY <2>1, <2>2, SameEntry, SameRows DEF RowsRead
  <2>6. TicksRead(Net \ left)' <=> TicksRead(Net \ left)
    BY <2>1, <2>2, SameEntry, SameRows DEF TicksRead, TickOk, Index
  <2>7. (OfList' <=> OfList) /\ (Ascending' <=> Ascending)
    BY <2>1 DEF OfList, Ascending
  <2>8. (Collecting' <=> Collecting) /\ (Looking' <=> Looking) /\ (ReadingTicks' <=> ReadingTicks)
    BY <2>1, <2>4, <2>5, <2>6, <2>7, SameEntry DEF Collecting, Looking, ReadingTicks
  <2>9. Done' <=> Done
    BY <2>1, <2>7, <2>8 DEF Done
  <2> QED BY <2>1, <2>3, <2>8, <2>9, SameEntry DEF BuildInv
<1>2. CASE Refuse
  BY <1>2, RefuseKeeps
<1>3. CASE OpenMap
  BY <1>3, OpenMapKeeps
<1>4. CASE OpenList
  BY <1>4, OpenListKeeps
<1>5. CASE SortAddresses
  BY <1>5, SortAddressesKeeps
<1>6. CASE Look
  BY <1>6, LookKeeps
<1>7. CASE Built
  BY <1>7, BuiltKeeps
<1>8. ASSUME NEW key \in left, Collect(key) PROVE BuildInv'
  BY <1>8, CollectKeeps
<1>9. ASSUME NEW key \in left, ReadTick(key) PROVE BuildInv'
  BY <1>9, ReadTickKeeps
<1> QED BY <1>1, <1>2, <1>3, <1>4, <1>5, <1>6, <1>7, <1>8, <1>9 DEF EntryNext

THEOREM BuildingInvariant ==
    ASSUME PlainNames PROVE EntrySpec => []BuildInv
<1>1. EntryInit => BuildInv
  BY DEF EntryInit, BuildInv, Fresh
<1>2. BuildInv /\ [EntryNext]_entryVars => BuildInv'
  BY BuildStep
<1> QED BY <1>1, <1>2, PTL DEF EntrySpec

(* An entry becomes a pool exactly when it is well formed, in whichever    *)
(* order its maps are visited.                                             *)
THEOREM PoolIffWellFormed ==
    ASSUME PlainNames PROVE EntrySpec => []BuiltIffWellFormed
<1>1. BuildInv => BuiltIffWellFormed
  <2> SUFFICES ASSUME BuildInv, stage = "built" PROVE WellFormed
    BY DEF BuildInv, BuiltIffWellFormed, WellFormed
  <2>1. CASE Looking /\ Len(rows) = Len(addresses)
    <3>1. CommonOk /\ MapOk /\ Collected(Keys) /\ RowsRead
      BY <2>1 DEF Looking
    <3>2. DOMAIN rows = DOMAIN addresses
      BY <2>1, <3>1, LenProperties DEF Collected, RowsRead
    <3>3. ASSUME NEW key \in Keys PROVE RowOk(KeyRow(key))
      <4>1. PICK i \in DOMAIN addresses : addresses[i] = ToLower[key]
        BY <3>1 DEF Collected
      <4> QED BY <3>1, <3>2, <4>1 DEF RowsRead
    <3>4. MapWellFormed
      BY <3>1, <3>3 DEF MapWellFormed, Collected, KeyRow, Keys
    <3> QED BY <3>1, <3>4 DEF WellFormed
  <2>2. CASE ReadingTicks /\ left = {} /\ Ascending
    <3>1. CommonOk /\ ListOk /\ TicksRead(Net)
      BY <2>2 DEF ReadingTicks
    <3>2. TicksWellFormed
      BY <3>1 DEF TicksRead, TicksWellFormed, Net, Index, NetOk
    <3> QED BY <3>1, <3>2 DEF WellFormed
  <2> QED BY <2>1, <2>2 DEF BuildInv, Done
<1> QED BY <1>1, BuildingInvariant, PTL

(* What the quotes assume of a pool holds of every pool built.             *)
THEOREM PoolsQuotable ==
    ASSUME PlainNames PROVE EntrySpec => []Quotable
<1>1. BuildInv => Quotable
  <2> SUFFICES ASSUME BuildInv, stage = "built"
               PROVE  /\ gas > 0
                      /\ entry.shape = "map" => Ranked
                      /\ entry.shape = "map" => /\ Len(rows) = Len(addresses)
                                                /\ Len(rows) = Cardinality(Keys)
                      /\ Ascending
                      /\ entry.shape = "list" => Len(ticks) = Cardinality(Net)
    BY DEF Quotable, Ranked, Ascending, Keys, Net
  <2>1. Done /\ CommonOk
    BY DEF BuildInv, Done, Looking, ReadingTicks
  <2>2. gas > 0
    <3>1. Number(entry.gas) \in Nat
      BY <2>1, EntryFacts, NumberNat DEF BuildInv, CommonOk, GasOk, decimalDigits
    <3> QED BY <3>1, PoolBuildingAssumption DEF gas
  <2>3. CASE Looking /\ Len(rows) = Len(addresses)
    <3>1. Collected(Keys) /\ Ranked /\ ticks = <<>> /\ entry.shape = "map"
      BY <2>3 DEF Looking, MapOk
    <3>2. Ascending
      BY <3>1 DEF Ascending
    <3> QED BY <2>2, <2>3, <3>1, <3>2 DEF Collected
  <2>4. CASE ReadingTicks /\ left = {} /\ Ascending
    <3>1. TicksRead(Net) /\ entry.shape = "list"
      BY <2>4 DEF ReadingTicks, ListOk
    <3> QED BY <2>2, <2>4, <3>1 DEF TicksRead
  <2> QED BY <2>1, <2>3, <2>4 DEF Done
<1> QED BY <1>1, BuildingInvariant, PTL

-----------------------------------------------------------------------------
(* Asking a pool.                                                          *)

(* Two tokens that a pool is asked for stand at two places of its          *)
(* addresses, and each is the only one there under its name.               *)
AskedAt(in, out, i, j) ==
    /\ i \in DOMAIN addresses /\ j \in DOMAIN addresses /\ i # j
    /\ \A a \in DOMAIN addresses : /\ EqualFold(addresses[a], in) <=> a = i
                                   /\ EqualFold(addresses[a], out) <=> a = j
    /\ addresses[i] = ToLower[in] /\ addresses[j] = ToLower[out]

OneName ==
    /\ addresses \in Seq(DOMAIN ToLower)
    /\ \A i, j \in DOMAIN addresses : addresses[i] = addresses[j] => i = j
    /\ \A i \in DOMAIN addresses, y \in DOMAIN ToLower :
          EqualFold(addresses[i], y) => ToLower[y] = addresses[i]

LEMMA BuiltNames ==
    ASSUME BuildInv, PlainNames, stage = "built" PROVE OneName
<1>1. CASE Looking
  <2>1. MapOk /\ Collected(Keys)
    BY <1>1 DEF Looking
  <2> QED BY <2>1, FoundIs DEF OneName, Collected
<1>2. CASE ReadingTicks
  <2>1. /\ OfList /\ ListOk /\ entry.tokens \in Seq(DOMAIN ToLower)
        /\ Len(entry.tokens) = 2 /\ entry.shape = "list" /\ entry \in Entries
    BY <1>2, EntryFacts DEF ReadingTicks, BuildInv, ListOk
  <2>2. entry.tokens[1] \in DOMAIN ToLower /\ entry.tokens[2] \in DOMAIN ToLower
    BY <2>1, ElementOfSeq
  <2>3. /\ addresses \in Seq(DOMAIN ToLower) /\ DOMAIN addresses = 1 .. 2
        /\ addresses[1] = ToLower[entry.tokens[1]] /\ addresses[2] = ToLower[entry.tokens[2]]
        /\ addresses[1] # addresses[2]
    BY <2>1, <2>2, LowerFacts DEF OfList, ListOk
  <2>4. ASSUME NEW i \in 1 .. 2, NEW y \in DOMAIN ToLower, EqualFold(addresses[i], y)
        PROVE  ToLower[y] = addresses[i]
    <3>1. entry.tokens[i] \in ToSet(entry.tokens)
      BY <2>1, LenProperties DEF ToSet
    <3>2. entry.tokens[i] \in SpelledIn(entry)
      BY <2>1, <3>1 DEF SpelledIn
    <3>3. EqualFold(entry.tokens[i], y)
      BY <2>2, <2>3, <2>4, LowerFacts DEF EqualFold
    <3>4. SameName(entry.tokens[i], y)
      BY <2>1, <3>2, <3>3 DEF PlainNames
    <3> QED BY <2>3, <3>4 DEF SameName
  <2> QED BY <2>3, <2>4 DEF OneName
<1> QED BY <1>1, <1>2 DEF BuildInv, Done

LEMMA AskedFor ==
    ASSUME OneName, NEW in \in DOMAIN ToLower, NEW out \in DOMAIN ToLower, SupportsPair(in, out)
    PROVE  /\ \E i, j \in DOMAIN addresses : AskedAt(in, out, i, j)
           /\ AllTokens = addresses
<1>1. ~EqualFold(in, out)
  BY DEF SupportsPair
<1>2. AllTokens = addresses
  <2> SUFFICES ASSUME AllTokens = <<addresses[1]>> PROVE FALSE
    BY DEF AllTokens
  <2>1. EqualFold(addresses[1], in) /\ EqualFold(addresses[1], out)
    BY DEF SupportsPair
  <2> QED BY <1>1, <2>1 DEF EqualFold
<1>3. PICK i \in DOMAIN addresses, j \in DOMAIN addresses :
          EqualFold(addresses[i], in) /\ EqualFold(addresses[j], out)
  BY <1>2 DEF SupportsPair
<1>4. addresses[i] = ToLower[in] /\ addresses[j] = ToLower[out]
  BY <1>3 DEF OneName
<1>5. i # j
  BY <1>1, <1>3 DEF EqualFold
<1>6. \A a \in DOMAIN addresses : /\ EqualFold(addresses[a], in) <=> a = i
                                  /\ EqualFold(addresses[a], out) <=> a = j
  BY <1>3, <1>4 DEF OneName
<1>7. AskedAt(in, out, i, j)
  BY <1>3, <1>4, <1>5, <1>6 DEF AskedAt
<1> QED BY <1>2, <1>7

(* The places a quote takes its reserves from. *)
LEMMA SidesAre ==
    ASSUME NEW in \in DOMAIN ToLower, NEW out \in DOMAIN ToLower, NEW i, NEW j, AskedAt(in, out, i, j),
           DOMAIN addresses \subseteq Int, entry.kind # "stable" => DOMAIN addresses = 1 .. 2
    PROVE  Sides(in, out) = [in |-> i, out |-> j]
<1>1. \A a \in Int : Max({a}) = a
  BY DEF Max
<1>2. CASE entry.kind = "stable"
  <2>1. /\ { a \in DOMAIN addresses : EqualFold(addresses[a], in) } = {i}
        /\ { a \in DOMAIN addresses : EqualFold(addresses[a], out) } = {j}
    BY DEF AskedAt
  <2>2. i \in Int /\ j \in Int
    BY DEF AskedAt
  <2> QED BY <1>1, <1>2, <2>1, <2>2 DEF Sides
<1>3. CASE entry.kind # "stable"
  <2>1. i \in 1 .. 2 /\ j \in 1 .. 2 /\ i # j
    BY <1>3 DEF AskedAt
  <2>2. EqualFold(in, addresses[2]) <=> i = 2
    BY <1>3 DEF AskedAt, EqualFold
  <2> QED BY <1>3, <2>1, <2>2 DEF Sides
<1> QED BY <1>2, <1>3

(* A row holds the balance the entry gives to the token at its place. *)
LEMMA RowBalance ==
    ASSUME BuildInv, Looking, Len(rows) = Len(addresses), NEW i \in DOMAIN addresses
    PROVE  \E x \in Keys : /\ addresses[i] = ToLower[x]
                           /\ rows[i].balance = Number(entry.tokens[x].balance)
<1>1. Collected(Keys) /\ RowsRead /\ MapOk
  BY DEF Looking
<1>2. i \in DOMAIN rows
  BY <1>1, LenProperties DEF Collected, RowsRead
<1>3. PICK x \in Keys : addresses[i] = ToLower[x]
  BY <1>1 DEF Collected
<1>4. rows[i] = KeyRow(x) /\ RowOk(KeyRow(x))
  BY <1>1, <1>2, <1>3 DEF RowsRead
<1>5. parsePositiveUnsigned(entry.tokens[x].balance, ReserveBits) > 0
  BY <1>4 DEF RowOk, KeyRow
<1>6. parsePositiveUnsigned(entry.tokens[x].balance, ReserveBits) = Number(entry.tokens[x].balance)
  BY <1>5 DEF parsePositiveUnsigned
<1> QED BY <1>3, <1>4, <1>6 DEF KeyRow

(* A quote takes for each of its two tokens, in any spelling, the reserve  *)
(* the entry gives to that token; the other token and the direction of a   *)
(* concentrated swap are right as well.                                    *)
THEOREM QuotesOnTheRightSides ==
    ASSUME PlainNames PROVE EntrySpec => []QuotesTheRightSides
<1>1. BuildInv => QuotesTheRightSides
  <2> SUFFICES ASSUME BuildInv, stage = "built",
                      NEW in \in DOMAIN ToLower, NEW out \in DOMAIN ToLower, SupportsPair(in, out)
               PROVE  /\ entry.kind # "stable" => SameName(Other(in), out)
                      /\ entry.shape = "list" => (zeroForOne(in) <=> Rank[ToLower[in]] < Rank[ToLower[out]])
                      /\ entry.shape = "map" =>
                           \E x, y \in Keys :
                              /\ SameName(x, in) /\ SameName(y, out)
                              /\ rows[Sides(in, out).in].balance  = Number(entry.tokens[x].balance)
                              /\ rows[Sides(in, out).out].balance = Number(entry.tokens[y].balance)
    BY DEF QuotesTheRightSides, Keys
  <2>1. OneName
    BY BuiltNames
  <2>2. AllTokens = addresses
    BY <2>1, AskedFor
  <2>3. PICK i \in DOMAIN addresses, j \in DOMAIN addresses : AskedAt(in, out, i, j)
    BY <2>1, AskedFor
  <2>4. /\ addresses[i] = ToLower[in] /\ addresses[j] = ToLower[out] /\ i # j
        /\ SameName(addresses[j], out) /\ ToLower[addresses[i]] = ToLower[in]
    BY <2>3, LowerFacts DEF AskedAt, SameName
  <2>5. Len(addresses) \in Nat /\ DOMAIN addresses = 1 .. Len(addresses)
    BY <2>1, LenProperties DEF OneName
  <2>6. entry.kind # "stable" => Len(addresses) = 2
    <3>1. CASE Looking
      BY <3>1 DEF Looking, MapOk, Collected, Keys
    <3>2. CASE ReadingTicks
      <4>1. DOMAIN addresses = 1 .. 2
        BY <3>2 DEF ReadingTicks, OfList
      <4>2. 2 \in DOMAIN addresses /\ 3 \notin DOMAIN addresses
        BY <4>1
      <4> QED BY <2>5, <4>2
    <3> QED BY <3>1, <3>2 DEF BuildInv, Done
  <2>7. ASSUME entry.kind # "stable" PROVE SameName(Other(in), out)
    <3>1. i \in 1 .. 2 /\ j \in 1 .. 2 /\ i # j
      BY <2>4, <2>5, <2>6, <2>7
    <3>2. (EqualFold(in, addresses[1]) <=> i = 1) /\ (EqualFold(in, addresses[2]) <=> i = 2)
      BY <2>3, <2>5, <2>6, <2>7 DEF AskedAt, EqualFold
    <3>3. Other(in) = addresses[j]
      BY <2>2, <2>6, <2>7, <3>1, <3>2 DEF Other
    <3> QED BY <2>4, <3>3
  <2>8. ASSUME entry.shape = "list" PROVE zeroForOne(in) <=> Rank[ToLower[in]] < Rank[ToLower[out]]
    <3>1. entry.kind # "stable"
      BY <2>8 DEF BuildInv, Done, Looking, ReadingTicks, MapOk, ListOk
    <3>2. i \in 1 .. 2 /\ j \in 1 .. 2 /\ i # j
      BY <2>4, <2>5, <2>6, <3>1
    <3>3. (EqualFold(in, addresses[1]) <=> i = 1) /\ (EqualFold(in, addresses[2]) <=> i = 2)
      BY <2>3, <2>5, <2>6, <3>1 DEF AskedAt, EqualFold
    <3>4. Rank[ToLower[in]] # Rank[ToLower[out]] /\ Rank[ToLower[in]] \in Int /\ Rank[ToLower[out]] \in Int
      BY <2>1, <2>4, LowerFacts, PoolBuildingAssumption DEF OneName
    <3>5. CASE i = 1 /\ j = 2
      BY <2>4, <3>3, <3>4, <3>5 DEF zeroForOne
    <3>6. CASE i = 2 /\ j = 1
      BY <2>4, <3>3, <3>4, <3>6 DEF zeroForOne
    <3> QED BY <3>2, <3>5, <3>6
  <2>9. ASSUME entry.shape = "map"
        PROVE  \E x, y \in Keys :
                  /\ SameName(x, in) /\ SameName(y, out)
                  /\ rows[Sides(in, out).in].balance  = Number(entry.tokens[x].balance)
                  /\ rows[Sides(in, out).out].balance = Number(entry.tokens[y].balance)
    <3>1. Looking /\ Len(rows) = Len(addresses)
      BY <2>9 DEF BuildInv, Done, ReadingTicks, ListOk
    <3>2. Sides(in, out) = [in |-> i, out |-> j]
      BY <2>3, <2>5, <2>6, SidesAre
    <3>3. PICK x \in Keys : /\ addresses[i] = ToLower[x]
                           /\ rows[i].balance = Number(entry.tokens[x].balance)
      BY <3>1, RowBalance
    <3>4. PICK y \in Keys : /\ addresses[j] = ToLower[y]
                           /\ rows[j].balance = Number(entry.tokens[y].balance)
      BY <3>1, RowBalance
    <3>5. SameName(x, in) /\ SameName(y, out)
      BY <2>4, <3>3, <3>4 DEF SameName
    <3>6. Sides(in, out).in = i /\ Sides(in, out).out = j
      BY <3>2
    <3> QED BY <3>3, <3>4, <3>5, <3>6
  <2> QED BY <2>7, <2>8, <2>9
<1> QED BY <1>1, BuildingInvariant, PTL
=============================================================================
