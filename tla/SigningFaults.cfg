SPECIFICATION FairSpec
CONSTANTS
    a = a
    b = b
    c = c
    k1 = k1
    mk = mk
    None = None
    MasterKey = mk
    Tables <- SigningTables
    Sessions <- ThreeSessions
    Handlers <- ThreeSessions
    Strays = {}
    KeyOf <- Contended
    Values <- StoredForThree
    Ids <- OneKey
    Faults = {"put", "get", "crash", "timeout"}
CHECK_DEADLOCK FALSE
INVARIANTS
    TypeOK
PROPERTIES
    SigningRefinesSlots
    EveryCallReturns
