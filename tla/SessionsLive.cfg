SPECIFICATION FairSpec
CONSTANTS
    Sessions = {s1, s2}
    Disconnects = {}
    MaxChunks = 1
    NoSession = NoSession
PROPERTIES ExitAnnounced ClosedSessionsEnd SilentFallsBack
CHECK_DEADLOCK FALSE
