\* The best model of a training, which alone was tested, in the tables.
SPECIFICATION Spec
CONSTANTS
    MaxKills = 1
    Column = {"c1", "c2", "c3"}
    Feature <- MCFeature
    Group <- MCGroup
    PinnedRun = 3
    Worker = {w1, w2}
    Warmup = 1
    Duration = 1
    LastTick = 3
    Scenario = {"off", "on"}
    Session <- MCFirstExport
INVARIANT
    BestHasTestMetrics
CHECK_DEADLOCK FALSE
