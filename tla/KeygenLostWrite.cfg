SPECIFICATION Spec
CONSTANTS
    a = a
    b = b
    None = None
    Sessions <- Two
    Ids <- Two
    Handlers <- Two
    Values <- Two
    Tables <- KeygenTables
    Faults = {"put"}
CHECK_DEADLOCK FALSE
INVARIANT FinishedKeyIsStored
