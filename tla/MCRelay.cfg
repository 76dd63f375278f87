SPECIFICATION FairSpec
CONSTANTS
    alice = alice  bob = bob
    a1 = a1  a2 = a2  b1 = b1
    Users = {alice, bob}
    Conns = {a1, a2, b1}
    owner <- OwnerOf
    SentTypes = {"Normal"}
    MaxCmds = 3
    MaxFaults = 1
INVARIANTS
    TypeOK
    NothingVanishes
    AtMostOnce
    OldestFirst
    ReceiptSound
    ReceiptBeforeDelivery
PROPERTIES
    ImplementsMailbox
    CommandAnswered
CHECK_DEADLOCK FALSE
