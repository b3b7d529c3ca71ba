CONSTANTS
    Units = {"rock3a", "yy3568"}
    Boards = {"rock3a", "yy3568"}
    Capacity <- SameSizes
    WriteLba = 1
    Image <- Images
    Tables <- BlankTables
    Contents <- AllContents
    Factory <- FactoryContents
    Junk <- JunkBlock
    Dirs = {"d1", "d2"}
    MaxRuns = 2
    MaxPlugs = 3
    MaxFaults = 0
    MaxBuilds = 0
SPECIFICATION Spec
PROPERTY RestoresOwnBoard
CHECK_DEADLOCK FALSE
