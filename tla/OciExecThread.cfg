SPECIFICATION Spec
CONSTANTS
    Execs = {e1}
    Threads = {m0, m1}
    Main = m0
    MaxMissed = 1
    Order <- MCOrder
    Files <- MCFiles
    Faults = {"migrate"}
INVARIANTS
    JoinsContainer
CHECK_DEADLOCK FALSE
