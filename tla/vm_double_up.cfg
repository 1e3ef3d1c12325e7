SPECIFICATION Spec
CONSTANTS
    Pids = {p1, p2}
    Ports = {portA}
    DefaultPort = portA
    Kinds = {"up", "down"}
    Cmds = {x}
    Overlap = FALSE
    Rerun = TRUE
INVARIANTS
    ReportedVmStarted
