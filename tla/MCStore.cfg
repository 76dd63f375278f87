SPECIFICATION StoreSpec
CONSTANTS
    Users = {alice, bob, carol}
    MaxPolls = 2
    MaxOptions = 3
    MaxPosts = 1
    MaxComments = 2
    MaxMessages = 2
    MaxFaults = 1
SYMMETRY Symmetry
INVARIANTS
    VoteCounted
    ResultsSound
    ListedComplete
    VoteOffset
    StrangersUnseen
PROPERTIES
    ClosedFrozen
    DeletedWhole
CHECK_DEADLOCK FALSE
