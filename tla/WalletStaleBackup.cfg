SPECIFICATION Spec
CONSTANTS
    Procs = {p1, p2, p3, p4}
    Shares = {s1, s2}
    MaxCoins = 0
    Missing = Missing
    Torn = Torn
    Uses <- OneAfterTheOther
    Faults = {"kill"}
SYMMETRY ProcSymmetry
CHECK_DEADLOCK FALSE
PROPERTY VerifiedIsOwn
