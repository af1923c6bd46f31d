SPECIFICATION FairSpec
CONSTANTS
    Requests = {r1, r2}
    MaxHangs = 1
    Nobody = nobody
INVARIANTS TypeOK DoneOnce DeadHasCause
PROPERTY NothingHangs
CHECK_DEADLOCK FALSE
