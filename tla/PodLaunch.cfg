SPECIFICATION FairSpec
CONSTANTS
    o1 = o1
    tn1 = tn1
    tn2 = tn2
    Ordinary = {o1}
    Veth = {}
    Bridged = {tn1, tn2}
    Bridge <- MCBridge
    Tenant <- MCTenant
    Faults = {"io", "mac", "stuck"}
    MaxFailures = 1
INVARIANTS
    PlacedBeforeCode
    TenantsIsolated
    NothingLeft
    PipesInStep
PROPERTIES
    AgentCompletes
CHECK_DEADLOCK FALSE
