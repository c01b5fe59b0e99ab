SPECIFICATION FairSpec
CONSTANTS
    Servers = {s1, s2}
    None = None
    Static = Static
    Alias = Alias
    LeaseTicks = 8
    HourTicks = 3
    RenewTicks = 0
    WaitTicks = 1
    OfferTicks = 1
    BackoffTicks = 1
    MaxXid = 5
    MaxInFlight = 2
INVARIANTS
    OneMissIsHarmless
    Eth0Accounted
PROPERTIES
    AdoptsFreshGrant
    BootGoesOn
CHECK_DEADLOCK FALSE
