CONSTANTS
    INPUT_QUEUE_SIZE = 2
    Controllers = {1}
    Keyboards = {"keyboard"}
    Others = {"mouse"}
    MaxPlugs = 3
    MaxFaults = 2
    MaxStrokes = 2
    Reports <- OneKeyRollover
SPECIFICATION FairUsbSpec
INVARIANTS
    UsbTypeOK
    TransferOwnership
    DrivesOwnKeyboard
PROPERTIES
    KeysTypeOnce
    KeyboardServed
