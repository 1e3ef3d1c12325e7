SPECIFICATION Spec
CONSTANTS
    Cmds = {x, y}
    WorkDirs = {"a", "b"}
    Streams = {"next"}
    Published <- PublishedOne
    Uses <- OneProject
    Overlap = TRUE
    Cut = FALSE
PROPERTIES
    ReturnedIsWhole
