SPECIFICATION Spec
CONSTANTS
    Users = {alice, bob, carol}
    MaxRooms = 2
    MaxSends = 1
    MaxFaults = 1
SYMMETRY Symmetry
INVARIANTS
    CacheMatches
    FanoutReaches
CHECK_DEADLOCK FALSE
