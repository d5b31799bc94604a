\* A script that measures the end of its fault.
CONSTANTS
    StatCount = 1
    Window = 2
    LogEvents = {}
    Target = "svc"
    MaxBackends = 1
    MaxTime = 6
    MaxPackets = 0
    MaxNotes = 0
    MaxEvents = 0
    MaxFaults = 0
    None = None
    Kinds = {"measured"}
    Duration = 2
    RecoveryTail = 2
SPECIFICATION ExpSpec
INVARIANT OverlapIsAnomaly
CHECK_DEADLOCK FALSE
