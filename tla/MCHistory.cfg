SPECIFICATION Spec
CONSTANTS
    Peers = {bob}
    Rooms = {room}
    MaxPosts = 2
    MaxTime = 1
    MaxIncoming = 1
    MaxChanges = 1
    MaxFaults = 1
INVARIANTS
    RestartChangesNothing
    SentIsRemembered
    TicksAreOwn
    EditMarksAgree
CHECK_DEADLOCK FALSE
