SPECIFICATION Spec
CONSTANTS
    Wallets = {"v", "w"}
    Saved = {"w"}
    Threads = {"main", "worker"}
    Paths <- MCPaths
    TextLimit = 6
    None = None
CHECK_DEADLOCK FALSE
INVARIANTS BindingsTypeOK RecoveredSignsAlike NoSilentOrphan
