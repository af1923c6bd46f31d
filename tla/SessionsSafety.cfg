SPECIFICATION Spec
CONSTANTS
    Sessions = {s1, s2}
    Disconnects = {d1}
    MaxChunks = 1
    NoSession = NoSession
SYMMETRY Symmetry
INVARIANTS TypeOK OneCloser NoPanicInShutdown ClosedMeansExited
CHECK_DEADLOCK FALSE
