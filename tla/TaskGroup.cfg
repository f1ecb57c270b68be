SPECIFICATION FairSpec
CONSTANTS
    MaxTasks = 4
    Endless <- FirstEndless
    MaxFailures = 2
INVARIANTS GroupOutlivesTasks
PROPERTIES WaitOkMeansDone DeinitFrees
CHECK_DEADLOCK FALSE
