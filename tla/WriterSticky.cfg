\* A writer that failed once.
CONSTANTS
    StatCount = 2
    Window = 1
    LogEvents <- MCLogEvents
    Target = "svc"
    MaxBackends = 1
    MaxTime = 3
    MaxPackets = 0
    MaxNotes = 0
    MaxEvents = 0
    MaxFaults = 1
    None = None
SPECIFICATION TelSpec
INVARIANT FailureSkipsOneWindow
CHECK_DEADLOCK FALSE
