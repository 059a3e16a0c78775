------------------------------ MODULE Summary ------------------------------
(***************************************************************************)
(* The numbers cmd/report prints: records decoded one by one, sums and     *)
(* sorted latencies over them, the nearest-rank percentiles, and the list  *)
(* of skipped liquidity taken from a Go map, whose order is random.        *)
(***************************************************************************)
EXTENDS Integers, Sequences, FiniteSets, SequencesExt

CONSTANTS Latencies,    \* values of elapsedMs
          SkipKinds,    \* keys of poolsSkipped
          Rank,         \* the order of those keys as strings: a number each
          MaxRecords,   \* bound: records in the evidence
          MaxSkips      \* bound: counts kept per kind

SummaryConstants ==
    /\ Latencies \subseteq Nat /\ IsFiniteSet(SkipKinds)
    /\ Rank \in [SkipKinds -> Nat] /\ IsInjective(Rank)

VARIABLES latencies,    \* elapsedMs of every record, sorted
          skipped       \* the sums of poolsSkipped; a kind not in it counts 0

vars == <<latencies, skipped>>

Init == latencies = <<>> /\ skipped = [k \in SkipKinds |-> 0]

(* A sorted list and one more value: where sort.Slice puts it. *)
Sorted(sorted, v) ==
    InsertAt(sorted, Cardinality({i \in DOMAIN sorted : sorted[i] <= v}) + 1, v)

(***************************************************************************)
(* One record of the loop over records, sort.Slice of latencies included.  *)
(***************************************************************************)
Record(elapsed, kinds) ==
    /\ Len(latencies) < MaxRecords
    /\ \A k \in kinds : skipped[k] < MaxSkips
    /\ latencies' = Sorted(latencies, elapsed)
    /\ skipped' = [k \in SkipKinds |-> skipped[k] + IF k \in kinds THEN 1 ELSE 0]

Next == \E elapsed \in Latencies, kinds \in SUBSET SkipKinds : Record(elapsed, kinds)

Spec == Init /\ [][Next]_vars

(* Mutant: the rank is rounded down.                                       *)
percentile_floor(sorted, percent) ==
    IF Len(sorted) = 0 THEN 0
    ELSE IF percent <= 0 THEN sorted[1]
    ELSE IF percent >= 100 THEN sorted[Len(sorted)]
    ELSE sorted[(percent * Len(sorted)) \div 100 + 1]

(* The slice is 0-based: rank-1 there is rank here.                        *)
percentile(sorted, percent) ==
    IF Len(sorted) = 0 THEN 0
    ELSE IF percent <= 0 THEN sorted[1]
    ELSE IF percent >= 100 THEN sorted[Len(sorted)]
    ELSE sorted[(percent * Len(sorted) + 99) \div 100]

(* The comparison of the two listings: by count, then by name.             *)
Precedes(a, b) ==
    IF skipped[a] # skipped[b] THEN skipped[a] > skipped[b] ELSE Rank[a] < Rank[b]

(* What sort.Slice, which is not stable, may make of the keys of the map.  *)
Listings ==
    LET kinds == {k \in SkipKinds : skipped[k] > 0}
    IN  { s \in [1 .. Cardinality(kinds) -> kinds] :
            /\ IsInjective(s)
            /\ \A i, j \in DOMAIN s : i < j => ~Precedes(s[j], s[i]) }

-----------------------------------------------------------------------------

Below(v) == Cardinality({i \in DOMAIN latencies : latencies[i] <= v})

(* percentile is the nearest-rank one its comment names: the least of the  *)
(* recorded latencies that at least percent of them do not exceed, on      *)
(* lists of any small length and at both ends of the range.                *)
NearestRank ==
    LET n == Len(latencies)
    IN  n > 0 => \A percent \in -1 .. 101 :
          LET v == percentile(latencies, percent)
          IN  /\ v \in Range(latencies)
              /\ 100 * Below(v) >= percent * n \/ v = latencies[n]
              /\ \A w \in Range(latencies) : w < v =>
                    100 * Below(w) < percent * n

(* Two reports of the same evidence print the same list, whatever order    *)
(* the map yields its keys in.                                             *)
OneListing == Cardinality(Listings) = 1
=============================================================================
