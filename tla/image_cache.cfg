SPECIFICATION FairSpec
CONSTANTS
    Cmds = {x}
    WorkDirs = {"a", "b"}
    Streams = {"next", "stable"}
    Published <- PublishedTwo
    Uses <- TwoProjects
    Overlap = FALSE
    Cut = FALSE
INVARIANTS
    TypeOK
PROPERTIES
    ReturnedIsWhole
    ReturnedIsOfStream
    RefreshIsCurrent
    UndisturbedCommandsSucceed
