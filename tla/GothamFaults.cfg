SPECIFICATION FairGothamSpec
CONSTANTS
    k1 = k1
    k2 = k2
    a = a
    b = b
    c = c
    mk = mk
    MasterKey = mk
    None = None
    Sessions <- OneKey
    Ids <- OneKey
    Signings <- ThreeSignings
    KeyOf <- AllWithFirst
    Strays = {c}
    Tables <- AllTables
    Handlers <- AllHandlers
    Values <- AllValues
    Faults = {"put", "get", "crash", "timeout"}
CHECK_DEADLOCK FALSE
INVARIANTS KeygenTypeOK LossIsNoticed MasterKeyIsEarned TablesApart
PROPERTIES EveryKeygenEnds GothamImplementsKeyLife GothamKeepsSlots EverySigningReturns
