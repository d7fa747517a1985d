SPECIFICATION Spec
CONSTANTS
    Process = {p1}
    Setting = {s1, s2}
    Value = {v1}
    Absent = Absent
    RUNS_KEPT = 2
    CLOCK_MAX = 1
    JOURNAL_MAX = 5
    OVERLAP_MAX = 0
SYMMETRY Symmetry
CHECK_DEADLOCK FALSE
PROPERTIES
    AskingAgainIsHarmless
