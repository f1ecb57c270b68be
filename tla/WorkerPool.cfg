SPECIFICATION FairSpec
CONSTANTS
    MaxTasks = 2
    MaxFailures = 1
    Capacity = 1
    MaxSends = 3
INVARIANTS NobodyInside NothingAbandoned
PROPERTIES ShutdownEnds
CHECK_DEADLOCK FALSE
