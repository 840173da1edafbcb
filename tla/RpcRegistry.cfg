CONSTANTS
    Methods = {abort, spawn}
    Calls = {k1}
    MaxConnections = 2
    MaxRegisters = 2
SPECIFICATION Spec
INVARIANTS MapsAgree Reachable MethodFound
PROPERTY ImplementsDirectory
CHECK_DEADLOCK FALSE
