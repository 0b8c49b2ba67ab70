SPECIFICATION Spec
CONSTANTS
    Procs = {p1, p2, p3, p4, p5}
    Shares = {s1, s2}
    MaxCoins = 3
    Missing = Missing
    Torn = Torn
    Uses <- AtOnceOrNot
    Faults = {"kill", "unanswered"}
SYMMETRY ProcSymmetry
CHECK_DEADLOCK FALSE
INVARIANTS
    WalletTypeOK
    CoinsWithinReach
    CompletedIsSaved
    RebuildGivesTheMap
    InputsAreKnown
    OrderlyHandsOutOnce
PROPERTIES
    ShowsEveryCoin
    OrderlyIsOwn
