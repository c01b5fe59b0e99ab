CONSTANTS
    MaxFaults = 1
    OptWords = {"ro", "rw", "size=", "nofail", "noauto"}
    MaxWords = 2
    MaxLines = 2
SPECIFICATION Spec
INVARIANTS MountsAsAsked TimeoutHandled NodeReady VerdictSound RightKernelPasses
PROPERTY EarlyBootEnds
CHECK_DEADLOCK FALSE
