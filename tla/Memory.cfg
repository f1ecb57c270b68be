SPECIFICATION MCSpec
CONSTANTS
    a1 = a1
    a2 = a2
    a3 = a3
    v1 = v1
    v2 = v2
    MaxScopes = 4
    MaxAllocs = 4
    Blocks <- ThreeAddresses
    Sizes = {1, 3, 11}
    Align = 2
    Header = 3
    Slack = 4
    Page = 4
    BlockSize = 6
    ReserveSize = 24
    CommitSize = 9
    DefaultCommit = 12
    MaxLive = 4
    MaxMarks = 2
    Null = Null
    Addresses <- ThreeAddresses
    Values <- TwoValues
    MaxBlock = 1
    MinCapacity = 1
    MaxElements = 3
    MaxGiven = 2
    MaxOthers = 2
SYMMETRY Symmetry
VIEW View
INVARIANTS AllocationsSound ChainKept ReportExact
PROPERTIES EndTakesItsOwn ImplementsVector NothingLeaked
CHECK_DEADLOCK FALSE
