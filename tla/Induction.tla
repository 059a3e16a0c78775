----------------------------- MODULE Induction -----------------------------
(***************************************************************************)
(* Induction and recursion over the natural numbers in the form the proofs *)
(* of this project use: about a set of numbers, and about a step that is a *)
(* function; and the listing of a finite set in order.                     *)
(***************************************************************************)
EXTENDS Integers, WellFoundedInduction, FiniteSetTheorems, TLAPS

(* Every set of natural numbers that is not empty has a least element. *)
LEMMA LeastNat ==
    ASSUME NEW T, T \subseteq Nat, T # {}
    PROVE  \E n \in T : \A m \in T : n <= m
<1> DEFINE R == OpToRel(<, Nat)
<1>1. IsWellFoundedOn(R, Nat)
  BY NatLessThanWellFounded
<1> HIDE DEF R
<1>2. PICK n \in T : \A m \in T : <<m, n>> \notin R
  BY <1>1, WFMin
<1>3. \A i, j \in Nat : i < j => <<i, j>> \in R
  BY DEF R, OpToRel
<1>4. \A m \in T : n <= m
  <2> TAKE m \in T
  <2>1. n \in Nat /\ m \in Nat /\ ~(m < n)
    BY <1>2, <1>3
  <2> QED BY <2>1
<1> QED BY <1>4

LEMMA SetInduction ==
    ASSUME NEW S, 0 \in S, \A n \in Nat : n \in S => n + 1 \in S
    PROVE  Nat \subseteq S
<1> SUFFICES ASSUME ~(Nat \subseteq S) PROVE FALSE
  OBVIOUS
<1>1. PICK n \in Nat \ S : \A m \in Nat \ S : n <= m
  BY LeastNat
<1>2. n \in Nat /\ n # 0
  OBVIOUS
<1>3. n - 1 \in Nat /\ n - 1 + 1 = n /\ ~(n <= n - 1)
  BY <1>2
<1> QED BY <1>1, <1>3

(* A value of A per number up to N, each computed from the one before. *)
Iterates(g, N, A, base, step) ==
    /\ g \in [0 .. N -> A] /\ g[0] = base
    /\ \A n \in 1 .. N : g[n] = step[<<n, g[n - 1]>>]

LEMMA RecursionExists ==
    ASSUME NEW N \in Nat, NEW A, NEW base \in A, NEW step \in [(1 .. N) \X A -> A]
    PROVE  \E g : Iterates(g, N, A, base, step)
<1> USE DEF Iterates
<1> DEFINE Up(n, g) == Iterates(g, n, A, base, step)
           S == { n \in Nat : n <= N => \E g : Up(n, g) }
<1>1. 0 \in S
  <2>1. Up(0, [i \in 0 .. 0 |-> base])
    OBVIOUS
  <2> QED BY <2>1
<1>2. ASSUME NEW n \in Nat, n \in S PROVE n + 1 \in S
  <2> SUFFICES ASSUME n + 1 <= N PROVE \E h : Up(n + 1, h)
    OBVIOUS
  <2>1. PICK g : Up(n, g)
    BY <1>2
  <2> DEFINE h == [i \in 0 .. n + 1 |-> IF i = n + 1 THEN step[<<n + 1, g[n]>>] ELSE g[i]]
  <2>2. step[<<n + 1, g[n]>>] \in A
    BY <2>1
  <2>3. h \in [0 .. n + 1 -> A] /\ h[0] = base
    BY <2>1, <2>2
  <2>4. \A i \in 1 .. n + 1 : h[i] = step[<<i, h[i - 1]>>]
    <3> TAKE i \in 1 .. n + 1
    <3>1. i - 1 \in 0 .. n /\ h[i - 1] = g[i - 1]
      OBVIOUS
    <3>2. CASE i = n + 1
      <4>1. h[i] = step[<<n + 1, g[n]>>] /\ i - 1 = n
        BY <3>2
      <4> QED BY <3>1, <3>2, <4>1
    <3>3. CASE i # n + 1
      <4>1. i \in 1 .. n /\ h[i] = g[i]
        BY <3>3
      <4> QED BY <2>1, <3>1, <4>1
    <3> QED BY <3>2, <3>3
  <2> QED BY <2>3, <2>4
<1> HIDE DEF S
<1>3. N \in S
  BY <1>1, <1>2, SetInduction
<1> QED BY <1>3 DEF S

(* What such a recursion computes stays in A, however the function that    *)
(* satisfies it was chosen.                                                *)
Follows(f, N, A, base, step) ==
    /\ f[0] = base
    /\ \A n \in 1 .. N : f[n - 1] \in A => f[n] = step[<<n, f[n - 1]>>]

LEMMA RecursionTyped ==
    ASSUME NEW N \in Nat, NEW A, NEW base \in A, NEW step \in [(1 .. N) \X A -> A],
           NEW f, Follows(f, N, A, base, step)
    PROVE  \A n \in 0 .. N : f[n] \in A
<1> USE DEF Follows
<1> DEFINE S == { n \in Nat : n <= N => f[n] \in A }
<1>1. 0 \in S
  OBVIOUS
<1>2. ASSUME NEW n \in Nat, n \in S PROVE n + 1 \in S
  <2> SUFFICES ASSUME n + 1 <= N PROVE f[n + 1] \in A
    OBVIOUS
  <2>1. n + 1 \in 1 .. N /\ n + 1 - 1 = n /\ f[n] \in A
    BY <1>2
  <2>2. f[n + 1] = step[<<n + 1, f[n]>>]
    BY <2>1
  <2> QED BY <2>1, <2>2
<1>3. Nat \subseteq S
  <2> HIDE DEF S
  <2> QED BY <1>1, <1>2, SetInduction
<1> QED BY <1>3

-----------------------------------------------------------------------------
(* Listing a finite set in an order. *)

TotalOrder(R, S) ==
    /\ \A x, y \in S : x # y => <<x, y>> \in R \/ <<y, x>> \in R
    /\ \A x, y, z \in S : <<x, y>> \in R /\ <<y, z>> \in R => <<x, z>> \in R

InOrder(q, S, R) ==
    /\ q \in [1 .. Cardinality(S) -> S]
    /\ \A x \in S : \E a \in 1 .. Cardinality(S) : q[a] = x
    /\ \A a, b \in 1 .. Cardinality(S) : a < b => <<q[a], q[b]>> \in R

(* A finite set that is not empty has a greatest element. *)
LEMMA GreatestExists ==
    ASSUME NEW S, NEW R, TotalOrder(R, S), IsFiniteSet(S), S # {}
    PROVE  \E m \in S : \A x \in S \ {m} : <<x, m>> \in R
<1> DEFINE Has(T) == \E m \in T : \A x \in T \ {m} : <<x, m>> \in R
           N == { n \in Nat : \A T \in SUBSET S :
                                IsFiniteSet(T) /\ Cardinality(T) = n + 1 => Has(T) }
<1>1. 0 \in N
  <2> SUFFICES ASSUME NEW T \in SUBSET S, IsFiniteSet(T), Cardinality(T) = 1
               PROVE  Has(T)
    OBVIOUS
  <2>1. PICK x : T = {x}
    BY FS_Singleton
  <2> QED BY <2>1
<1>2. ASSUME NEW n \in Nat, n \in N PROVE n + 1 \in N
  <2> SUFFICES ASSUME NEW T \in SUBSET S, IsFiniteSet(T), Cardinality(T) = n + 1 + 1
               PROVE  Has(T)
    OBVIOUS
  <2>1. PICK x : x \in T
    BY FS_EmptySet
  <2> DEFINE U == T \ {x}
  <2>2. IsFiniteSet(U) /\ Cardinality(U) = n + 1 /\ U \in SUBSET S
    BY <2>1, FS_RemoveElement
  <2>3. PICK m \in U : \A y \in U \ {m} : <<y, m>> \in R
    BY <1>2, <2>2
  <2>4. CASE <<x, m>> \in R
    <3>1. \A y \in T \ {m} : <<y, m>> \in R
      BY <2>3, <2>4
    <3> QED BY <2>3, <3>1
  <2>5. CASE <<m, x>> \in R
    <3>1. \A y \in T \ {x} : <<y, x>> \in R
      BY <2>1, <2>3, <2>5 DEF TotalOrder
    <3> QED BY <2>1, <3>1
  <2>6. m # x /\ m \in S /\ x \in S
    BY <2>1, <2>3
  <2> QED BY <2>4, <2>5, <2>6 DEF TotalOrder
<1>3. PICK c \in Nat : Cardinality(S) = c + 1
  <2>1. Cardinality(S) \in Nat /\ Cardinality(S) # 0
    BY FS_CardinalityType, FS_EmptySet
  <2>2. Cardinality(S) - 1 \in Nat /\ Cardinality(S) = Cardinality(S) - 1 + 1
    BY <2>1
  <2> QED BY <2>2
<1>4. S \in SUBSET S
  OBVIOUS
<1> HIDE DEF Has
<1>5. c \in N
  <2> HIDE DEF N
  <2> QED BY <1>1, <1>2, SetInduction
<1>6. Has(S)
  BY <1>3, <1>4, <1>5
<1> QED BY <1>6 DEF Has

LEMMA ListingExists ==
    ASSUME NEW S, NEW R, TotalOrder(R, S), IsFiniteSet(S)
    PROVE  \E q : InOrder(q, S, R)
<1> DEFINE N == { n \in Nat : \A T \in SUBSET S :
                     IsFiniteSet(T) /\ Cardinality(T) = n => \E q : InOrder(q, T, R) }
<1>1. 0 \in N
  <2> SUFFICES ASSUME NEW T \in SUBSET S, IsFiniteSet(T), Cardinality(T) = 0
               PROVE  \E q : InOrder(q, T, R)
    OBVIOUS
  <2>1. T = {}
    BY FS_EmptySet
  <2>2. InOrder([a \in 1 .. 0 |-> a], T, R)
    BY <2>1 DEF InOrder
  <2> QED BY <2>2
<1>2. ASSUME NEW n \in Nat, n \in N PROVE n + 1 \in N
  <2> SUFFICES ASSUME NEW T \in SUBSET S, IsFiniteSet(T), Cardinality(T) = n + 1
               PROVE  \E q : InOrder(q, T, R)
    OBVIOUS
  <2>1. T # {} /\ TotalOrder(R, T)
    BY FS_EmptySet DEF TotalOrder
  <2>2. PICK m \in T : \A x \in T \ {m} : <<x, m>> \in R
    BY <2>1, GreatestExists
  <2> DEFINE U == T \ {m}
  <2>3. IsFiniteSet(U) /\ Cardinality(U) = n /\ U \in SUBSET S
    BY <2>2, FS_RemoveElement
  <2>4. PICK p : InOrder(p, U, R)
    BY <1>2, <2>3
  <2> DEFINE q == [a \in 1 .. n + 1 |-> IF a = n + 1 THEN m ELSE p[a]]
  <2>5. /\ p \in [1 .. n -> U]
        /\ \A x \in U : \E a \in 1 .. n : p[a] = x
        /\ \A a, b \in 1 .. n : a < b => <<p[a], p[b]>> \in R
    BY <2>3, <2>4 DEF InOrder
  <2>6. q \in [1 .. n + 1 -> T]
    BY <2>2, <2>5
  <2>7. \A x \in T : \E a \in 1 .. n + 1 : q[a] = x
    <3> TAKE x \in T
    <3>1. CASE x = m
      BY <3>1
    <3>2. CASE x # m
      <4>1. PICK a \in 1 .. n : p[a] = x
        BY <2>5, <3>2
      <4>2. a \in 1 .. n + 1 /\ q[a] = x
        BY <4>1
      <4> QED BY <4>2
    <3> QED BY <3>1, <3>2
  <2>8. \A a, b \in 1 .. n + 1 : a < b => <<q[a], q[b]>> \in R
    <3> SUFFICES ASSUME NEW a \in 1 .. n + 1, NEW b \in 1 .. n + 1, a < b
                 PROVE  <<q[a], q[b]>> \in R
      OBVIOUS
    <3>1. a \in 1 .. n /\ q[a] = p[a] /\ p[a] \in T \ {m}
      BY <2>5
    <3>2. CASE b = n + 1
      BY <2>2, <3>1, <3>2
    <3>3. CASE b # n + 1
      <4>1. b \in 1 .. n /\ q[b] = p[b]
        BY <3>3
      <4> QED BY <2>5, <3>1, <4>1
    <3> QED BY <3>2, <3>3
  <2>9. InOrder(q, T, R)
    BY <2>6, <2>7, <2>8 DEF InOrder
  <2> QED BY <2>9
<1>3. Cardinality(S) \in N
  <2> HIDE DEF N
  <2> QED BY <1>1, <1>2, SetInduction, FS_CardinalityType
<1>4. S \in SUBSET S
  OBVIOUS
<1> QED BY <1>3, <1>4

(* There is only one listing of a set by a strict total order. *)
LEMMA OneListingOnly ==
    ASSUME NEW S, NEW R, TotalOrder(R, S), IsFiniteSet(S),
           \A x, y \in S : <<x, y>> \in R => <<y, x>> \notin R,
           NEW p, NEW q, InOrder(p, S, R), InOrder(q, S, R)
    PROVE  p = q
<1> DEFINE n == Cardinality(S)
           T == { i \in 1 .. n : p[i] # q[i] }
<1>1. n \in Nat
  BY FS_CardinalityType
<1>2. ASSUME NEW f, InOrder(f, S, R)
      PROVE  /\ f \in [1 .. n -> S] /\ \A i \in 1 .. n : f[i] \in S
             /\ \A x \in S : \E i \in 1 .. n : f[i] = x
             /\ \A i, j \in 1 .. n : i < j => <<f[i], f[j]>> \in R
  BY <1>2 DEF InOrder
<1> HIDE DEF n
(* What g has where f and g first differ comes later in f. *)
<1>3. ASSUME NEW f, NEW g, InOrder(f, S, R), InOrder(g, S, R), NEW i \in 1 .. n, f[i] # g[i],
             \A j \in 1 .. n : j < i => f[j] = g[j]
      PROVE  <<f[i], g[i]>> \in R
  <2>1. PICK j \in 1 .. n : f[j] = g[i]
    BY <1>2, <1>3
  <2>2. j # i
    BY <1>3, <2>1
  <2>3. ~(j < i)
    <3> SUFFICES ASSUME j < i PROVE FALSE
      OBVIOUS
    <3>1. g[j] = g[i]
      BY <1>3, <2>1
    <3>2. <<g[j], g[i]>> \in R /\ g[i] \in S
      BY <1>2, <1>3
    <3> QED BY <3>1, <3>2
  <2>4. i < j
    BY <1>1, <2>2, <2>3
  <2> QED BY <1>2, <1>3, <2>1, <2>4
<1>4. \A i \in 1 .. n : p[i] = q[i]
  <2> SUFFICES ASSUME NEW k \in 1 .. n, p[k] # q[k] PROVE FALSE
    OBVIOUS
  <2>1. T \subseteq Nat /\ k \in T
    BY <1>1
  <2>2. PICK i \in T : \A j \in T : i <= j
    BY <2>1, LeastNat
  <2>3. i \in 1 .. n /\ p[i] # q[i] /\ \A j \in 1 .. n : j < i => p[j] = q[j]
    BY <1>1, <2>2
  <2>4. <<p[i], q[i]>> \in R /\ <<q[i], p[i]>> \in R
    BY <1>3, <2>3
  <2>5. p[i] \in S /\ q[i] \in S
    BY <1>2, <2>3
  <2> QED BY <2>4, <2>5
<1>5. p = [i \in 1 .. n |-> p[i]] /\ q = [i \in 1 .. n |-> q[i]]
  BY <1>2
<1>6. [i \in 1 .. n |-> p[i]] = [i \in 1 .. n |-> q[i]]
  BY <1>4
<1> QED BY <1>5, <1>6
=============================================================================
