------------------------------ MODULE MinInput ------------------------------
(***************************************************************************)
(* minInputFor of internal/solve: the binary search for the smallest input *)
(* that buys a buy order's amount.  BestRouteContext is a function of the  *)
(* input here (quote[x] is the output of the best route, 0 when there is   *)
(* none: no pool quotes a zero output); Router models how it is found.     *)
(* The auction's context may end between any two steps.                    *)
(***************************************************************************)
EXTENDS Integers

CONSTANTS
    MaxAmount,   \* the largest amount, 2^256 - 1 in the code
    Iterations,  \* the bound on the loop, 256 in the code
    Pow2,        \* the powers of two up to Iterations
    Quotes       \* the quote functions of the instance

ASSUME SizeAssumption ==
    /\ MaxAmount \in Nat \ {0}
    /\ Iterations \in Nat
    /\ Pow2 \in [0 .. Iterations -> Nat]
    /\ Pow2[0] = 1
    /\ \A n \in 0 .. Iterations - 1 : Pow2[n + 1] = 2 * Pow2[n]
    /\ MaxAmount < Pow2[Iterations]

Inputs == 1 .. MaxAmount

ASSUME QuotesAssumption == Quotes \subseteq [Inputs -> Nat]

VARIABLES
    quote, want, maxIn,     \* the arguments: the graph, buyAmount, sellAmount
    cancelled,              \* ctx.Err() != nil
    searchPc, probes, lo, hi,   \* the loop; probes is its i
    bestIn                  \* the answer so far, 0 for a nil route

searchArgs == <<quote, want, maxIn>>
searchVars == <<quote, want, maxIn, cancelled, searchPc, probes, lo, hi, bestIn>>

Buys(x) == quote[x] >= want

(* The search stays inside the range of the order's limit. *)
SearchTypeOK ==
    /\ quote \in [Inputs -> Nat] /\ want \in Nat \ {0} /\ maxIn \in Inputs
    /\ cancelled \in BOOLEAN
    /\ searchPc \in {"full", "loop", "done", "error"}
    /\ probes \in 0 .. Iterations
    /\ lo \in 1 .. maxIn + 1 /\ hi \in 0 .. maxIn
    /\ bestIn \in 0 .. maxIn

SearchInit ==
    /\ quote \in Quotes /\ want \in Inputs /\ maxIn \in Inputs
    /\ cancelled = FALSE
    /\ searchPc = "full" /\ probes = 0 /\ lo = 1 /\ hi = maxIn /\ bestIn = 0

(* The quote of the whole limit: without it there is nothing to search. *)
Full ==
    /\ searchPc = "full" /\ ~cancelled
    /\ IF Buys(maxIn) THEN searchPc' = "loop" /\ bestIn' = maxIn
                      ELSE searchPc' = "done" /\ bestIn' = 0
    /\ UNCHANGED <<searchArgs, cancelled, probes, lo, hi>>

Mid == (lo + hi) \div 2

(* Mutant: the comparison is swapped. *)
Narrow_swapped ==
    IF Buys(Mid) THEN bestIn' = Mid /\ lo' = Mid + 1 /\ UNCHANGED hi
                 ELSE hi' = Mid - 1 /\ UNCHANGED <<lo, bestIn>>

(* Mutant: a failed probe is kept as the best input. *)
Narrow_keeps_failed ==
    /\ bestIn' = Mid
    /\ IF Buys(Mid) THEN hi' = Mid - 1 /\ UNCHANGED lo
                    ELSE lo' = Mid + 1 /\ UNCHANGED hi

Narrow ==
    IF Buys(Mid) THEN bestIn' = Mid /\ hi' = Mid - 1 /\ UNCHANGED lo
                 ELSE lo' = Mid + 1 /\ UNCHANGED <<hi, bestIn>>

(* Mutant: one iteration too few. *)
Continues_short == probes < Iterations - 1 /\ lo <= hi

Continues == probes < Iterations /\ lo <= hi

Probe ==
    /\ searchPc = "loop" /\ Continues /\ ~cancelled
    /\ Narrow
    /\ probes' = probes + 1
    /\ UNCHANGED <<searchArgs, cancelled, searchPc>>

SearchEnds ==
    /\ searchPc = "loop" /\ ~Continues
    /\ searchPc' = "done"
    /\ UNCHANGED <<searchArgs, cancelled, probes, lo, hi, bestIn>>

(* A context check fails: no answer, not the best one so far. *)
Abort ==
    /\ cancelled
    /\ searchPc = "full" \/ (searchPc = "loop" /\ Continues)
    /\ searchPc' = "error" /\ bestIn' = 0
    /\ UNCHANGED <<searchArgs, cancelled, probes, lo, hi>>

Expire ==
    /\ ~cancelled /\ searchPc \in {"full", "loop"}
    /\ cancelled' = TRUE
    /\ UNCHANGED <<searchArgs, searchPc, probes, lo, hi, bestIn>>

SearchStep == Full \/ Probe \/ SearchEnds \/ Abort

(* The call has returned: nothing more happens, and nothing else may stop. *)
Returned ==
    /\ searchPc \in {"done", "error"}
    /\ UNCHANGED searchVars

SearchNext == SearchStep \/ Expire \/ Returned

SearchSpec == SearchInit /\ [][SearchNext]_searchVars

-----------------------------------------------------------------------------
Monotone == \A x, y \in Inputs : x <= y => quote[x] <= quote[y]

(* Whatever the quotes, an answer is within the order's sell limit and     *)
(* really buys what the order wants: a solution built on it settles.       *)
AnswerBuys == searchPc = "done" /\ bestIn # 0 => bestIn <= maxIn /\ Buys(bestIn)

(* The loop ends because the range is empty, never because it ran out of   *)
(* iterations: 256 probes are enough for every uint256 limit.              *)
RangeExhausted == searchPc = "done" /\ bestIn # 0 => lo > hi

(* For quotes that grow with the input the answer is the smallest input,   *)
(* and there is an answer whenever some input within the limit buys want.  *)
SmallestIfMonotone ==
    searchPc = "done" /\ Monotone =>
        \A x \in 1 .. maxIn : Buys(x) => bestIn # 0 /\ bestIn <= x

(* The comment on minInputFor makes no such condition: it searches "the    *)
(* smallest input that still buys want".                                   *)
Smallest ==
    searchPc = "done" =>
        \A x \in 1 .. maxIn : Buys(x) => bestIn # 0 /\ bestIn <= x
=============================================================================
