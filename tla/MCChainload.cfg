CONSTANTS
    AddrMax = 39
    MaxImages = 4
    DtbSlack = 1
    ParamsReserve = 1
    CacheLimit = 35
    BlockSize = 4
    LengthSize = 2
    LongestMessage = 6
    Boards <- MCBoards
    Fits <- MCFits
SPECIFICATION FairSpec
INVARIANTS
    TypeOK
    HandoffIntact
    FailClosed
    StageIntact
    CoherentHandoff
    LoadablesRecorded
    HashesBlocks
PROPERTIES
    Terminates
    ImplementsVerifiedBoot
