SPECIFICATION Spec
CONSTANTS
    Users = {alice, bob, carol}
    MaxCalls = 2
    MaxAccepts = 2
    MaxStreams = 1
    MaxChunks = 1
    MaxFaults = 2
SYMMETRY Symmetry
INVARIANTS
    SecretsAgree
    EndedWhenQuiet
CHECK_DEADLOCK FALSE
