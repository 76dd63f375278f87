SPECIFICATION BridgeSpec
CONSTANTS
    Threads = {t1, t2}
    MaxEntries = 3
SYMMETRY ThreadSymmetry
INVARIANTS
    OwnError
    FreshError
CHECK_DEADLOCK FALSE
