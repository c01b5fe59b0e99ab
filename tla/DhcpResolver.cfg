SPECIFICATION Spec
CONSTANTS
    Servers = {s1, s2}
    None = None
    Static = Static
    Alias = Alias
    LeaseTicks = 9
    HourTicks = 4
    RenewTicks = 2
    WaitTicks = 1
    OfferTicks = 1
    BackoffTicks = 1
    MaxXid = 3
    MaxInFlight = 2
PROPERTIES
    ResolverPinned
CHECK_DEADLOCK FALSE
