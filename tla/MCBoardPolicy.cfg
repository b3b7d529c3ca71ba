CONSTANTS
    AddrMax = 39
    MaxImages = 4
    DtbSlack = 1
    ParamsReserve = 1
    CacheLimit = 35
    StageLimit = 3
    ParamsLimit = 16
    Manifests <- MCManifests
    Boards <- MCBoards
    Fits <- MCFits
SPECIFICATION Spec
INVARIANT HandoffIntact
