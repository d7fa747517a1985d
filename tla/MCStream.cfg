SPECIFICATION FairSpec
CONSTANTS
    Client = {c1, c2}
    Operator = {c1}
    Event <- MCEvent
    HELD = 2
    CARRIED = 2
    Undated = {}
    PLACES = 4
    RUNS = 2
INVARIANTS
    RecordIsWhole
PROPERTIES
    IsAFeed
    HeardInOrder
    OtherRunIsHandedNothing
    ToldIsEnded
