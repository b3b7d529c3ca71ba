SPECIFICATION Spec
CONSTANTS
    Sector = 2
    SectorLimit = 12
    Chunk = 3
    Devices = {"board", "other"}
    DdrSizes = {3}
    OsSizes = {2, 14}
    Turns = 2
    None = None
INVARIANTS
    RunsWhatWasBuilt
    ExitMeansDelivered
    DisplayReady
PROPERTIES
    
    HostEnds
CHECK_DEADLOCK FALSE
