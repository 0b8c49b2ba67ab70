SPECIFICATION Spec
CONSTANTS
    Procs = {p1, p2, p3, p4}
    Shares = {s1, s2}
    Paths <- MCPaths
    Chains = {1, 33}
    CustomNonces = {1}
    Word = 64
    Missing = Missing
    Torn = Torn
    Nobody = Nobody
    Faults = {"kill"}
SYMMETRY ProcSymmetry
CHECK_DEADLOCK FALSE
INVARIANTS
    EthTypeOK
    CountsOnOwnChain
    SignedByAddress
    EachReportCounts
