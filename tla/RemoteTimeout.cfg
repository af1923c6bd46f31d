SPECIFICATION Spec
CONSTANTS
    Requests = {r1}
    MaxHangs = 1
    Nobody = nobody
PROPERTY TimeoutMarksDead
CHECK_DEADLOCK FALSE
