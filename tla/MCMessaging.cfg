SPECIFICATION Spec
CONSTANTS
    Users = {alice, bob}
    NoSession = NoSession
    Nothing = Nothing
    NoKey = NoKey
    MaxSends = 2
    MaxEdits = 1
    MaxFaults = 1
SYMMETRY Symmetry
INVARIANTS
    UndisturbedDecrypts
    ReadMeansShown
    DeliveredMeansFetched
    ShownInOrder
PROPERTIES
    StatusNeverFallsBack
CHECK_DEADLOCK FALSE
