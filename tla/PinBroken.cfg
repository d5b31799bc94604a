\* One client, one CPU, no entry ever old enough to expire.
CONSTANTS
    cl1 = cl1
    cl2 = cl2
    fe1 = fe1
    be1 = be1
    be2 = be2
    ip1 = ip1
    r1 = r1
    Client = {cl1}
    Frontend = {fe1}
    Backend = {be1, be2}
    Local = {be1}
    SnatIP = {ip1}
    SnatMin = 1
    SnatMax = 3
    MaxSlots = 2
    CtMax = 3
    FwdMax = 3
    RrMax = 1
    Absent = Absent
    CPU = {1}
    Steer <- MCSteer
    Table <- MCTable
    StartConfig <- MCConfig
    StartSnat = ip1
    MaxPackets = 2
    MaxWrites = 0
    MaxTime = 1
    Reaper = {r1}
    Timeout = 1
    MaxFaults = 0
SPECIFICATION ConnSysSpec
INVARIANT OneBackendPerConnection
CHECK_DEADLOCK FALSE
