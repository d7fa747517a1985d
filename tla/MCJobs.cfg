SPECIFICATION FairSpec
CONSTANTS
    Name = {n1, n2, n3}
    FINISHED_AT_MOST = 1
    AT_ONCE = 2
INVARIANTS
    WorkIsRecorded
    RunningIsUnended
    RegisterIsBounded
PROPERTIES
    OutcomeIsFinal
    AbandonedIsEnded
    FinishedIsForgotten
    EndingIsWritten
