CONSTANTS
    Runs = {r1, r2, r3}
    None = None
    Modes = {plain, other}
    PlainMode = plain
    MaxMessages = 3
    MaxRefusals = 1
    LocalFailure = "exit"
SPECIFICATION FairSpec
CHECK_DEADLOCK FALSE
INVARIANTS LostForReason GivenInOrder
PROPERTIES GivenToTheLatest EverySettled RequestsEnd
