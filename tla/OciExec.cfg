SPECIFICATION Spec
CONSTANTS
    Execs = {e1, e2}
    Threads = {m0, m1}
    Main = m0
    MaxMissed = 1
    Order <- MCOrder
    Files <- MCFiles
    Faults = {"io", "setns", "disk", "migrate", "reuse"}
SYMMETRY Symmetry
INVARIANTS
    SessionInContainer
    FailedExecLeavesNothing
CHECK_DEADLOCK FALSE
