CONSTANTS
    cl1 = cl1
    cl2 = cl2
    fe1 = fe1
    be1 = be1
    be2 = be2
    ip1 = ip1
    r1 = r1
    Client = {cl1, cl2}
    Frontend = {fe1}
    Backend = {be1}
    Local = {be1}
    SnatIP = {ip1}
    SnatMin = 1
    SnatMax = 2
    MaxSlots = 1
    CtMax = 1
    FwdMax = 1
    RrMax = 1
    Absent = Absent
    CPU = {1}
    Steer <- MCSteer
    Table <- MCTableOne
    StartConfig <- MCConfig
    StartSnat = ip1
    MaxPackets = 3
    MaxWrites = 0
    MaxTime = 2
    Reaper = {r1}
    Timeout = 1
    MaxFaults = 1
SPECIFICATION FairConnSysSpec
INVARIANTS
    ConnTypeOK
    ReapOnlyIdle
    ReplyIsolation
    SerialPortsDistinct
PROPERTIES
    ExpiredEntryReaped
    OrphanForwardReaped
CHECK_DEADLOCK FALSE
