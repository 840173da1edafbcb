CONSTANTS
    Sessions = {s1, s2}
    Sid = s1
    LocalIds = {a, b}
    Isolating = {a}
    Contents <- MCContents
    Times <- MCTimes
    None = None
    Tabs = {t1}
    PageLimit = 1
    MaxRows = 2
    MaxConns = 1
    Events = {"output", "expire", "end", "exit"}
SPECIFICATION Spec
CHECK_DEADLOCK FALSE
INVARIANTS AckedWasRun CancelledNotQueued
PROPERTY ImplementsStore
