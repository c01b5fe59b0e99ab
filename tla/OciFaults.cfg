SPECIFICATION Spec
CONSTANTS
    Ids = {i1}
    Calls = {c1, c2}
    Pids = {p1, p2}
    Fifos = {f1, f2, f3}
    None = None
    Torn = Torn
    PidReuse = TRUE
    Faults = {"io", "crash", "timeout"}
SYMMETRY Symmetry
INVARIANTS
    TypeOK
    RecordedPlaced
CHECK_DEADLOCK FALSE
