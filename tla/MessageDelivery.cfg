CONSTANTS
    Sessions = {s1}
    Sid = s1
    LocalIds = {a, b}
    Isolating = {}
    Contents <- MCContents
    Times <- MCTimes
    None = None
    Tabs = {t1}
    PageLimit = 2
    MaxRows = 3
    MaxConns = 2
    Events = {"output"}
SPECIFICATION Spec
SYMMETRY MCSymmetry
CHECK_DEADLOCK FALSE
INVARIANTS RanAtMostOnce RanInOrder WithdrawnNeverRuns
