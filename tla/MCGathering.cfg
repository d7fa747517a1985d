SPECIFICATION FairSpec
CONSTANTS
    Client = {c1, c2}
    Value = {v1, v2}
    None = none
    UNREAD_AT_MOST = 2
INVARIANTS
    NobodyIsLeftOut
PROPERTIES
    ArrivalIsShown
    ChangeIsShown
    IdleWhenAlone
