------------------------------- MODULE Router -------------------------------
(***************************************************************************)
(* Graph.BestRouteContext: its nested loops over the pools of the sell     *)
(* token, the pivots, and the pools of each pivot, one quote at a time,    *)
(* under a context that may end between any two of them.                   *)
(***************************************************************************)
EXTENDS Graph

CONSTANT Cases    \* the calls of the instance: [pools, sell, buy, amountIn]

ASSUME CasesAssumption ==
    \A c \in Cases :
        PoolList(c.pools) /\ {c.sell, c.buy} \subseteq 0 .. KeyBase - 1 /\ c.amountIn \in Int

VARIABLES
    call,         \* the arguments
    graph,        \* NewGraph of the auction's pools
    cancelled,    \* ctx.Err() != nil
    pc,           \* "direct", "twoHop", "done" (route or nil) or "error" (the context's)
    mid, first, second,   \* the loops' positions
    best          \* the best route so far

vars == <<call, graph, cancelled, pc, mid, first, second, best>>

Init ==
    /\ call \in Cases /\ graph = NewGraph(call.pools)
    /\ cancelled = FALSE
    /\ pc = "direct" /\ mid = 1 /\ first = 1 /\ second = 1 /\ best = NoRoute

Degenerate == call.sell = call.buy \/ call.amountIn <= 0

Firsts == poolsFor(graph, call.sell)
Mids   == graph.intermediates

Seconds(m) == poolsFor(graph, Mids[m])

In(loop) == pc = loop /\ ~cancelled /\ ~Degenerate

Reject ==
    /\ pc = "direct" /\ ~cancelled /\ Degenerate
    /\ pc' = "done"
    /\ UNCHANGED <<call, graph, cancelled, mid, first, second, best>>

TryDirect ==
    /\ In("direct") /\ first <= Len(Firsts)
    /\ best' = better(best, DirectRoute(Firsts[first], call.sell, call.buy, call.amountIn))
    /\ first' = first + 1
    /\ UNCHANGED <<call, graph, cancelled, pc, mid, second>>

DirectDone ==
    /\ In("direct") /\ first > Len(Firsts)
    /\ pc' = "twoHop" /\ first' = 1
    /\ UNCHANGED <<call, graph, cancelled, mid, second, best>>

AtPivot == In("twoHop") /\ mid <= Len(Mids)

(* The sell and the buy token are no pivots. *)
Skipped == Mids[mid] \in {call.sell, call.buy}

TryTwoHop ==
    /\ AtPivot /\ ~Skipped /\ first <= Len(Firsts) /\ second <= Len(Seconds(mid))
    /\ best' = better(best, TwoHopRoute(Firsts[first], Mids[mid], Seconds(mid)[second],
                                        call.sell, call.buy, call.amountIn))
    /\ second' = second + 1
    /\ UNCHANGED <<call, graph, cancelled, pc, mid, first>>

NextFirst ==
    /\ AtPivot /\ ~Skipped /\ first <= Len(Firsts) /\ second > Len(Seconds(mid))
    /\ first' = first + 1 /\ second' = 1
    /\ UNCHANGED <<call, graph, cancelled, pc, mid, best>>

NextMid ==
    /\ AtPivot /\ (Skipped \/ first > Len(Firsts))
    /\ mid' = mid + 1 /\ first' = 1
    /\ UNCHANGED <<call, graph, cancelled, pc, second, best>>

Finish ==
    /\ In("twoHop") /\ mid > Len(Mids)
    /\ pc' = "done"
    /\ UNCHANGED <<call, graph, cancelled, mid, first, second, best>>

(* Every context check returns the error and no route. *)
Abort ==
    /\ pc \in {"direct", "twoHop"} /\ cancelled
    /\ pc' = "error" /\ best' = NoRoute
    /\ UNCHANGED <<call, graph, cancelled, mid, first, second>>

Expire ==
    /\ pc \in {"direct", "twoHop"} /\ ~cancelled
    /\ cancelled' = TRUE
    /\ UNCHANGED <<call, graph, pc, mid, first, second, best>>

Step == Reject \/ TryDirect \/ DirectDone \/ TryTwoHop \/ NextFirst \/ NextMid \/ Finish \/ Abort

(* The call has returned: nothing more happens, and nothing else may stop. *)
Returned ==
    /\ pc \in {"done", "error"}
    /\ UNCHANGED vars

Next == Step \/ Expire \/ Returned

Spec == Init /\ [][Next]_vars

-----------------------------------------------------------------------------
(* A search that ends before its deadline returns the one best route of    *)
(* all there are (or none if there is none): whatever the order of the     *)
(* pools, and never the best of a part of them.  The order on routes is    *)
(* strict between different routes, so replays give the same answer.       *)
ReturnsTheBest ==
    pc = "done" =>
        LET all == AllRoutes(graph, call.sell, call.buy, call.amountIn)
        IN  IF all = {} THEN best = NoRoute
            ELSE best \in all /\ \A r \in all \ {best} : Beats(best, r)
=============================================================================
