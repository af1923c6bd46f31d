SPECIFICATION Spec
CONSTANTS
    Requests = {r1}
    MaxHangs = 1
    Nobody = nobody
INVARIANT PanicsAreRecovered
CHECK_DEADLOCK FALSE
