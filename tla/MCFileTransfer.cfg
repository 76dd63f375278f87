SPECIFICATION Spec
CONSTANTS
    Users = {alice, bob, carol}
    Names = {cat, dog}
    CHUNK_SIZE = 2
    MaxSize = 5
    MaxFiles = 2
    MaxFaults = 2
SYMMETRY Symmetry
INVARIANTS
    SavedIsSent
    ArrivesWhole
CHECK_DEADLOCK FALSE
