------------------------------ MODULE Evidence ------------------------------
(***************************************************************************)
(* The two halves of cmd/report: reading the evidence beside the recorder, *)
(* and the numbers made from records, however many there are.  A behaviour *)
(* is about one of the two.                                                *)
(***************************************************************************)
EXTENDS Report

CONSTANTS Latencies, SkipKinds, Rank, MaxRecords, MaxSkips

VARIABLES half, latencies, skipped

Numbers == INSTANCE Summary

ASSUME SummaryAssumption == Numbers!SummaryConstants

summaryVars == <<latencies, skipped>>

EvidenceInit == half \in {"reading", "summing"} /\ ReportInit /\ Numbers!Init

EvidenceNext ==
    \/ half = "reading" /\ ReportNext /\ UNCHANGED <<half, summaryVars>>
    \/ half = "summing" /\ Numbers!Next /\ UNCHANGED <<half, all>>
    \/ half = "summing" /\ Len(latencies) = MaxRecords /\ UNCHANGED <<half, all, summaryVars>>

EvidenceSpec == EvidenceInit /\ [][EvidenceNext]_<<half, all, summaryVars>>

-----------------------------------------------------------------------------
(* percentile is the nearest-rank percentile of the recorded latencies,    *)
(* and two reports of the same evidence print the same list.               *)
SummaryExact == Numbers!NearestRank /\ Numbers!OneListing
=============================================================================
