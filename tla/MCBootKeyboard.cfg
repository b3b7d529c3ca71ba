CONSTANTS
    INPUT_QUEUE_SIZE = 3
    Controllers = {1}
    Reports <- MCReports
SPECIFICATION Spec
PROPERTIES
    KeysTypeOnce
    ImplementsCharQueue
