SPECIFICATION Spec
CONSTANTS
    Ordinary <- MCOrdinary
    Bridged <- MCBridged
    Bridge <- MCBridge
    HostName <- MCHostName
    MaxFaults = 1
    Renewals = 1
INVARIANTS LinksFit ReportedMeansDone NoFailureWithoutCause
PROPERTY CallsReturn
CHECK_DEADLOCK FALSE
