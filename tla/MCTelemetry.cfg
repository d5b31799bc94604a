\* Two counters, three windows, one failure or kill.
CONSTANTS
    StatCount = 2
    Window = 1
    LogEvents <- MCLogEvents
    Target = "svc"
    MaxBackends = 1
    MaxTime = 3
    MaxPackets = 1
    MaxNotes = 1
    MaxEvents = 1
    MaxFaults = 1
    None = None
SPECIFICATION TelSpec
INVARIANTS
    TelTypeOK
    DeltasTelescope
    NotesConserved
    WindowsDisjoint
    KnownEventLabelled
CHECK_DEADLOCK FALSE
