SPECIFICATION GothamSpec
CONSTANTS
    k1 = k1
    k2 = k2
    a = a
    b = b
    c = c
    mk = mk
    MasterKey = mk
    None = None
    Sessions <- TwoKeys
    Ids <- TwoKeys
    Signings <- ThreeSignings
    KeyOf <- PairAndStray
    Strays = {c}
    Tables <- AllTables
    Handlers <- AllHandlers
    Values <- AllValues
    Faults = {}
CHECK_DEADLOCK FALSE
INVARIANTS SomeoneSigns EphPairWhole
PROPERTIES GothamImplementsKeyLife
