CONSTANTS
    Threads = {x, y}
    NoThread = none
    MaxMessages = 2
    Started = {s1, s2}
    Spawned = {s3}
    NoSession = nowhere
    Resumers = {r1}
    MaxTime = 1
SPECIFICATION Spec
SYMMETRY MCSymmetry
INVARIANTS DuplicatesAreLive
PROPERTIES ImplementsConversations OnlyTheRightGo
CHECK_DEADLOCK FALSE
