CONSTANTS
    Runners = {r1, r2, r3}
    None = None
    MaxAttempts = 2
SPECIFICATION RunnerSpec
PROPERTY Settles
CHECK_DEADLOCK FALSE
