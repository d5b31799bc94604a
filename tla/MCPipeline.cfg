\* The batch scripts and the overhead matrix, with one script that is stopped.
SPECIFICATION Spec
CONSTANTS
    MaxKills = 1
    Column = {"c1", "c2", "c3"}
    Feature <- MCFeature
    Group <- MCGroup
    PinnedRun = 3
    Worker = {w1, w2}
    Warmup = 1
    Duration = 1
    LastTick = 3
    Scenario = {"off", "on"}
    Session <- MCSession
INVARIANTS
    SplitsDisjoint
    EveryPrimaryTrained
    ReportHolds
    ModelsPaired
    ExportsOfOneRun
    BestFamilyRow
    LateRows
    EveryRequestCounted
    OverheadPaired
PROPERTIES
    PublishesWhole
    BenchEnds
\* The operator's session comes to its end.
CHECK_DEADLOCK FALSE
