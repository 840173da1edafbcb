SPECIFICATION Spec
CONSTANTS
    LocalIds = {l1}
    None = None
    Visible = 2
    PendingSize = 1
    PageSize = 1
    MaxRows = 3
    MaxClock = 5
    MaxUnderWay = 2
INVARIANTS
    Complete
PROPERTIES
    QueuedStays
