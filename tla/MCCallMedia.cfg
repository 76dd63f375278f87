SPECIFICATION Spec
CONSTANTS
    Users = {alice, bob}
    MaxCalls = 1
    MaxAccepts = 1
    MaxStreams = 1
    MaxChunks = 1
    MaxFaults = 0
INVARIANTS
    MediaSaved
CHECK_DEADLOCK FALSE
