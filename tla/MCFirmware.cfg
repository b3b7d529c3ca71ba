CONSTANTS
    Cell = 32768
    Page = 2
    LowEnd = 4
    Payload = 6
    StackBottom = 12
    StackTop = 14
    DmaStart = 14
    DmaEnd = 18
    Dtb = 15
    Shared = 16
    FbStart = 20
    FbEnd = 24
    MmioStart = 120
    Phys4G = 128
    MaxBanks = 3
    MaxMapItems = 18
    AddrTop = 300
    AddrMod = 1024
    ImageEnd = 2
    MemTop = 32
    HeaderSize = 1
    Block = 2
    Inputs <- FirmwareInputs
    MaxCalls = 2
    MaxWrites = 1
SPECIFICATION Spec
INVARIANTS
    MapFaithful
    CapacityHonoured
    PayloadIntact
    FirmwareKept
    AnswersIntact
    MappedAsReported
CHECK_DEADLOCK FALSE
