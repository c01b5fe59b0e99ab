SPECIFICATION Spec
CONSTANTS
    None = None
    Topologies <- MCTopologies
    Delays = {0, 4}
    ConnectTimes = {127}
    Refusals = {TRUE, FALSE}
    MaxAbsent = 1
INVARIANTS PeerDatagramArrives SkewAbsorbed OnlyDialsHang
CHECK_DEADLOCK FALSE
