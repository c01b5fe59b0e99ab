SPECIFICATION Spec
CONSTANTS
    None = None
    Faults = {"die"}
PROPERTIES
    StaysUpMeansRunning
CHECK_DEADLOCK FALSE
