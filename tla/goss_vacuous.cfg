SPECIFICATION Spec
CONSTANTS
    Cmds = {x}
    Gossfiles = {g}
    Replies = {"goss", "empty"}
    MaxReboots = 0
INVARIANTS
    PassedRanOwnGossfile
