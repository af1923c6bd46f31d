SPECIFICATION FairSpec
CONSTANTS
    Containers = {c1, c2}
    Running = {c1}
    Images = {i1}
    MaxEvents = 5
    NoId = NoId
INVARIANTS TypeOK ShownIsSubject BusyIsAsked OverviewIsFresh
PROPERTY ControlsComeBack
CHECK_DEADLOCK FALSE
