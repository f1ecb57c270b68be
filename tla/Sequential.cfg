SPECIFICATION MCSpec
CONSTANTS
    None = None
    Null = Null
    Words = 8
    Chunk = 2
    SeedSize = 4
    MaxSize = 5
    Infinite = 4
    Millisecond = 2
    MaxJump = 2
    Recorders = {"r", "s"}
    MaxDepth = 4
    MaxCalls = 5
    MemorySizeMax = 15
    BlockSize = 8
    Sizes = {0, 1, 3, 4, 5}
    Strings <- ShortStrings
    MaxRegions = 2
    FileSizes <- SmallSizes
    NoData = "none"
    StringCharacters = {"a", "b"}
    NUL = "NUL"
    Junk = "junk"
    Places = {"p", "q"}
    MinCapacity = 1
    SizeMax = 6
    Header = 1
    MaxGiven = 2
    Characters <- TextCharacters
    Space = " "
    MaxText = 4
    MaxDelimiter = 2
    Buffers = {1, 2}
    Heap = {3, 4, 6}
    Texts <- KeyTexts
    LongestText = 2
    Bits = 3
    Basis = 5
    Prime = 3
    MaxKeys = 2
    Absent = Absent
    OptionSpecs <- CliOptions
    PositionalSpecs <- CliPositionals
    Tokens <- CliTokens
    MaxOptions = 2
    MaxPositionals = 2
    MaxArgs = 3
    MaxCount = 2
    Span <- IntegerSpans
    Arguments <- PrintArguments
    MaxValues = 3
    Options <- HelpOptions
    Positionals <- HelpPositionals
    Cap = 14
    HelpSize = 10
    MaxLines = 2
INVARIANTS ParseExact HelpExact RandomSound SleepsLongEnough ZonesMatchCalls PrintsInOrder FileSettled FileReads KeysSound HelperExact
PROPERTIES PartsExact StringExact
CHECK_DEADLOCK FALSE
