CONSTANTS
    k1 = k1
    k2 = k2
    MaxCalls = 3
    Kinds = {k1, k2}
    Kind <- MCKind
    Verdicts = {"approve", "always", "free", "strict", "deny"}
    MaxRuns = 2
    MaxAnswers = 1
SPECIFICATION Spec
CHECK_DEADLOCK FALSE
INVARIANTS ApprovedOnly
PROPERTIES DenialEnds EveryAskAnswered
