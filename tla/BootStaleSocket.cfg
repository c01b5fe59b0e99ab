SPECIFICATION Spec
CONSTANTS
    None = None
    Faults = {}
PROPERTIES
    JoinHasContainerd
CHECK_DEADLOCK FALSE
