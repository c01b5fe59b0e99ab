SPECIFICATION FairSpec
CONSTANTS
    None = None
    Faults = {"setup", "die"}
INVARIANTS
    JoinedIsKept
    Supervised
    OffMeansStopped
PROPERTIES
    KeptAlive
    BootSettles
    PressPowersOff
CHECK_DEADLOCK FALSE
