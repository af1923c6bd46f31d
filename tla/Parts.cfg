SPECIFICATION PartsSpec
CONSTANTS
    Commands = {c1, c2}
    Foreign = {f1}
    MaxChunks = 2
    MaxOpens = 1
    NoCommand = NoCommand
    Requests = {r1, r2}
    Lines = {l1, l2, l3}
    Endless = {l3}
INVARIANTS PartsTypeOK OwnOutput IdleMeansDone FollowsTerminal CutAtLimit MarkersFound NothingLeftOut ServesAll
PROPERTIES DeletesItsPath PartsSettle
CHECK_DEADLOCK FALSE
