SPECIFICATION Spec
CONSTANTS
    Requests = {r1}
    MaxHangs = 1
    Nobody = nobody
INVARIANT InputNeedsTerminal
CHECK_DEADLOCK FALSE
