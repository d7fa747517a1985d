SPECIFICATION FairActionsSpec
CONSTANTS
    Send = {s1, s2}
    Caller = {c1}
    Key = {k1}
    Asked = {a1, a2}
    Within = {1}
    AtMost = {2}
    FINISHED_AT_MOST = 3
    AT_ONCE = 2
    LEASE = 1
    CLOCK_MAX = 1
    Clock = {0, 1}
CHECK_DEADLOCK FALSE
INVARIANTS
    NeverBeside
    RememberedIsRedeemable
    JobsAreAWindowApart
PROPERTIES
    WaiterIsAnswered
