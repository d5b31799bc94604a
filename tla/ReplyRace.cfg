\* Two CPUs take a first packet each; the SNAT range is not used up.
CONSTANTS
    cl1 = cl1
    cl2 = cl2
    fe1 = fe1
    be1 = be1
    be2 = be2
    ip1 = ip1
    Client = {cl1, cl2}
    Frontend = {fe1}
    Backend = {be1, be2}
    Local = {be1}
    SnatIP = {ip1}
    SnatMin = 1
    SnatMax = 3
    MaxSlots = 2
    CtMax = 3
    FwdMax = 3
    RrMax = 1
    Absent = Absent
    CPU = {1, 2}
    Steer <- MCSteer
    Table <- MCTable
    StartConfig <- MCConfig
    StartSnat = ip1
    MaxPackets = 3
    MaxWrites = 0
    MaxTime = 0
SPECIFICATION Spec
INVARIANT ReplyRestored
CHECK_DEADLOCK FALSE
