CONSTANTS
    Updates = {u1, u2, u3}
    HubWrites = {w1, w2}
    MaxBreaks = 2
    MayDelete = TRUE
SPECIFICATION FairSpec
INVARIANTS CopyIsStored DoneIsStored AppliedOncePerConnection
PROPERTIES VersionGrows ImplementsAtomicUpdates EventuallyDone
CHECK_DEADLOCK FALSE
