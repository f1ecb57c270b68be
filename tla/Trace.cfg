SPECIFICATION MCSpec
CONSTANTS
    r1 = r1
    r2 = r2
    Recorders <- TwoRecorders
    BufferMode = "drop"
    Capacity = 7
    Header = 2
    NameSizes <- ShortNames
    MaxCalls = 3
    MaxIds = 2
SYMMETRY Symmetry
INVARIANTS Nested EventsAccounted
PROPERTIES EndNeverLost
CHECK_DEADLOCK FALSE
