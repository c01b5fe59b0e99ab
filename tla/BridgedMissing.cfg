SPECIFICATION Spec
CONSTANTS
    None = None
    Topologies <- MCQuietTopologies
    Delays = {0, 4}
    ConnectTimes = {3}
    Refusals = {TRUE, FALSE}
    MaxAbsent = 1
INVARIANTS
    MissingPeerReported
CHECK_DEADLOCK FALSE
