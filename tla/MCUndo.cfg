SPECIFICATION Spec
CONSTANTS
    Process = {p1, p2}
    Setting = {s1, s2}
    Value = {v1, v2}
    Absent = Absent
    RUNS_KEPT = 2
    CLOCK_MAX = 1
    JOURNAL_MAX = 3
    OVERLAP_MAX = 1
SYMMETRY Symmetry
CHECK_DEADLOCK FALSE
INVARIANTS
    RecordIsOneChangeAway
    GoesBackWhole
PROPERTIES
    UndoIsAnswerable
    KeptRunsAreWhole
    NothingIsLost
