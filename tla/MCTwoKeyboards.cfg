CONSTANTS
    INPUT_QUEUE_SIZE = 2
    Controllers = {1, 2}
    Keyboards = {"left", "right"}
    Others = {}
    MaxPlugs = 2
    MaxFaults = 0
    MaxStrokes = 3
    Reports <- TwoKeys
SPECIFICATION UsbSpec
PROPERTY HeldKeysSilent
