CONSTANTS
    INPUT_QUEUE_SIZE = 2
    Controllers = {1}
    Reports <- MCReports
SPECIFICATION Spec
PROPERTY UsAnsiLegends
