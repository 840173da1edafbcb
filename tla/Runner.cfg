CONSTANTS
    Runners = {r1, r2}
    None = None
    MaxAttempts = 2
    Children = {c1}
    Terminal = Terminal
SPECIFICATION Spec
INVARIANTS NoGhosts StaysTracked WorktreeIsFree
PROPERTIES KilledForReason NoOrphans
CHECK_DEADLOCK FALSE
