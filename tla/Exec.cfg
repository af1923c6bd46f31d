SPECIFICATION FairSpec
CONSTANTS
    Commands = {c1, c2}
    Cancels = {r1}
    Dirs = {home, sub}
    Home = home
    Endless = {c1}
    Stubborn = {c2}
    NoCommand = NoCommand
    NoDir = NoDir
INVARIANTS TypeOK OneCommand HookOfHolder CancelledByRequest ExitOwnDirectory NoUnreportedProcess
PROPERTIES SlotRefinement SlotFreed InterruptedEnds
CHECK_DEADLOCK FALSE
