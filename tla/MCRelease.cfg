CONSTANTS
    Boards = {"rock3a", "yy3568"}
    VariantBoards = {"yy3568"}
    Media = {"sd"}
    None = None
    Partial = Partial
    Development = Development
    MaxPins = 2
    MaxCommands = 3
    MaxFaults = 2
    MaxBreaks = 1
    MaxAttempts = 3
SPECIFICATION Spec
INVARIANTS
    CorrespondingSource
    ReportTruthful
    PublishedWhole
    OutcomeTruthful
PROPERTIES
    PublishedFinal
    EventuallyPublished
CHECK_DEADLOCK FALSE
