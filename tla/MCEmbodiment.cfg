\* Two processes, cohorts of one or two bodies, a day of three hours.
SPECIFICATION Spec
CONSTANTS
    None = None
    Process = {p1, p2}
    WorldSeed = {1}
    Version = {v1, v2}
    CohortSize = {1, 2}
    Day = 3
    Night = {1}
    Days = {0, 1, 2}
    MaxOffset = 6
    MaxLines = 7
INVARIANTS
    HistoryIsOne
    SnapshotIsBacked
SYMMETRY Symmetry
CHECK_DEADLOCK FALSE
