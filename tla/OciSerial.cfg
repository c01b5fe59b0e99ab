SPECIFICATION Spec
CONSTANTS
    Ids = {i1}
    Calls = {c1, c2}
    Pids = {p1, p2}
    Fifos = {f1, f2, f3}
    None = None
    Torn = Torn
    PidReuse = TRUE
    Faults = {"timeout"}
SYMMETRY Symmetry
INVARIANTS
    UserPlaced
    Tracked
    RunningMeansReleased
    DeletedMeansGone
PROPERTIES
    ImplementsLifecycle
