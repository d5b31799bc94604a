CONSTANTS
    cl1 = cl1
    cl2 = cl2
    fe1 = fe1
    be1 = be1
    be2 = be2
    ip1 = ip1
    Client = {cl1, cl2}
    Frontend = {fe1}
    Backend = {be1, be2}
    Local = {be1}
    SnatIP = {ip1}
    SnatMin = 1
    SnatMax = 2
    MaxSlots = 2
    CtMax = 2
    FwdMax = 1
    RrMax = 1
    Absent = Absent
    CPU = {1, 2}
    Steer <- MCSteer
    Table <- MCTable
    StartConfig <- MCConfig
    StartSnat = ip1
    MaxPackets = 3
    MaxWrites = 1
    MaxTime = 1
SPECIFICATION Spec
INVARIANTS
    TypeOK
    StatsBalance
    ReplyIsolation
    ForwardHasReverse
PROPERTIES
    PinnedForGood
CHECK_DEADLOCK FALSE
