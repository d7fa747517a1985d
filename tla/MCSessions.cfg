SPECIFICATION SessionsSpec
CONSTANTS
    BEAT = 2
    ASKING = 1
    CLOCK_MAX = 6
    Token = {t1, t2}
    Own = t1
    LASTS = 5
    PASSWORDS = 2
CHECK_DEADLOCK FALSE
INVARIANTS
    EndsWithinTwoBeats
PROPERTIES
    NothingIsSaidAfter
    StaysAsPromised
    OnlyTheExpiredGo
