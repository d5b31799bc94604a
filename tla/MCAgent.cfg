\* Three configurations, two changes, two failures or signals.
CONSTANTS
    None = 0
    Iface = {1, 2, 3, 4}
    Veth = {4}
    LocalCandidates <- MCLocalCandidates
    EncapCandidates <- MCEncapCandidates
    OptionChoices <- MCOptions
    RouteChoices <- MCRoutes
    MaxChanges = 2
    MaxFaults = 2
SPECIFICATION FairAgentSpec
INVARIANTS
    AgentTypeOK
    OneDataPlane
    GracefulExitClean
PROPERTIES
    ServesAgain
CHECK_DEADLOCK FALSE
