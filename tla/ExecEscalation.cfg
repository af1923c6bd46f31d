SPECIFICATION FairSpec
CONSTANTS
    Commands = {c1}
    Cancels = {r1}
    Dirs = {home}
    Home = home
    Endless = {c1}
    Stubborn = {c1}
    NoCommand = NoCommand
    NoDir = NoDir
PROPERTY CancelEscalates
CHECK_DEADLOCK FALSE
