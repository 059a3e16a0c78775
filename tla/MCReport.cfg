SPECIFICATION EvidenceSpec
CONSTANTS
    Calls = {c1, c2, c3}
    MaxDay = 2
    Nobody = Nobody
    Latencies = {3, 7, 40}
    SkipKinds = {"balancer", "curve", "malformed"}
    Rank <- MCRank
    MaxRecords = 21
    MaxSkips = 2
SYMMETRY CallSymmetry
INVARIANTS TypeOK RightFile AnswerExact NoDescriptorLeak
    ReportExact SummaryExact
 
