CONSTANTS
    Sessions = {s1, s2}
    LocalIds = {a, b}
    Contents = {text}
    Times = {t1, t2}
    None = None
    MaxRows = 4
SPECIFICATION Spec
SYMMETRY MCSymmetry
INVARIANTS SeqIdentifiesRow LocalIdIdentifiesRow QueuedHasAckPath
PROPERTIES InvokedIsFinal OrderKept
