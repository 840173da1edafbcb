CONSTANTS
    Runs = {r1, r2, r3}
    None = None
    Modes = {plain, other}
    PlainMode = plain
    MaxMessages = 2
    MaxRefusals = 1
    LocalFailure = "exit"
SPECIFICATION Spec
CHECK_DEADLOCK FALSE
INVARIANT OneModePerAgent
