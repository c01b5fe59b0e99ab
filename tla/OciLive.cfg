SPECIFICATION FairSpec
CONSTANTS
    Ids = {i1}
    Calls = {c1}
    Pids = {p1, p2}
    Fifos = {f1, f2, f3}
    None = None
    Torn = Torn
    PidReuse = FALSE
    Faults = {}
PROPERTIES
    StartMeetsInit
    ForceDeleteEnds
CHECK_DEADLOCK FALSE
