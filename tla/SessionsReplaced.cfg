SPECIFICATION Spec
CONSTANTS
    Sessions = {s1, s2}
    Disconnects = {}
    MaxChunks = 1
    NoSession = NoSession
PROPERTY ReplacedStaysSilent
CHECK_DEADLOCK FALSE
