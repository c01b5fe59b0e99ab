SPECIFICATION Spec
CONSTANTS
    Servers = {s1}
    None = None
    Static = Static
    Alias = Alias
    LeaseTicks = 41
    HourTicks = 8
    RenewTicks = 0
    WaitTicks = 1
    OfferTicks = 1
    BackoffTicks = 1
    MaxXid = 6
    MaxInFlight = 2
INVARIANTS
    OneMissIsHarmless
CHECK_DEADLOCK FALSE
