CONSTANTS
    Units = {"rock3a", "yy3568"}
    Boards = {"yy3568"}
    Capacity <- DifferentSizes
    WriteLba = 1
    Image <- Images
    Tables <- PartitionTables
    Contents <- AllContents
    Factory <- FactoryContents
    Junk <- JunkBlock
    Dirs = {"d1", "d2"}
    MaxRuns = 3
    MaxPlugs = 2
    MaxFaults = 1
    MaxBuilds = 1
SPECIFICATION Spec
INVARIANTS
    TypeOK
    Recoverable
    BackupsRestorable
PROPERTIES
    ImplementsBackupFirst
    InstallKeepsClear
    ReportsVerified
    RestoresInPlace
CHECK_DEADLOCK FALSE
