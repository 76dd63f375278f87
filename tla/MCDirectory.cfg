SPECIFICATION DirectorySpec
CONSTANTS
    alice = alice
    bob = bob
    a1 = a1
    a2 = a2
    b1 = b1
    Users = {alice, bob}
    Procs = {a1, a2, b1}
    Owner <- OwnerOf
    Day = 1
    MaxTime = 1
    MaxStarts = 3
    MaxStories = 2
    MaxFaults = 1
SYMMETRY ProcSymmetry
INVARIANTS
    ServedKeysAreOwn
    PresenceIsOwn
    StoriesExact
CHECK_DEADLOCK FALSE
