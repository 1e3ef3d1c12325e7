SPECIFICATION FairSpec
CONSTANTS
    Cmds = {x, y}
    Gossfiles = {g, h}
    Replies = {"goss", "page"}
    MaxReboots = 1
INVARIANTS
    TypeOK
    PassedRanOwnGossfile
PROPERTIES
    GoodBinaryStays
    ValidationsEnd
