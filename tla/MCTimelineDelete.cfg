SPECIFICATION TimelineSpec
CONSTANTS
    Users = {alice, bob, carol}
    MaxPosts = 1
    MaxComments = 1
    MaxMessages = 0
    MaxFaults = 0
SYMMETRY Symmetry
INVARIANTS
    CommentsDeletedByAuthor
CHECK_DEADLOCK FALSE
