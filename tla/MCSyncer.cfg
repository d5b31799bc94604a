\* All interleavings of two changes and one crash, both modes, fair.
SPECIFICATION FairSyncSpec
CONSTANTS
    Client = {}
    Frontend <- MCFrontend
    Backend = {b1, b2}
    Local = {}
    SnatIP = {s1, s2}
    SnatMin = 32768
    SnatMax = 32768
    MaxSlots = 2
    CtMax = 1
    FwdMax = 1
    RrMax = 1
    Absent = Absent
    ServiceID = {1, 2, 3}
    NodePort = {30080, 31000}
    PortOf <- MCPortOf
    NodeIP = {n1, n2}
    HostConfig <- MCHostConfig
    InitialCluster <- MCInitialCluster
    Modes = {"watch", "poll"}
    TriggerCap = 1
    MaxChanges = 2
    MaxCrashes = 1
INVARIANTS
    SyncTypeOK
    TableMatchesApplied
    OneGeneration
    NoLostWakeup
PROPERTIES
    UnchangedUndisturbed
    Converges
CHECK_DEADLOCK FALSE
