SPECIFICATION Spec
CONSTANTS
    Procs = {p1, p2, p3}
    Shares = {s1}
    MaxCoins = 2
    Missing = Missing
    Torn = Torn
    Uses <- OneAfterTheOther
    Faults = {"kill"}
SYMMETRY ProcSymmetry
CHECK_DEADLOCK FALSE
INVARIANT HandedOutOnce
