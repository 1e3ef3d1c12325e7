SPECIFICATION Spec
CONSTANTS
    Pids = {p1, p2}
    Ports = {portA}
    DefaultPort = portA
    Kinds = {"up", "down", "boot"}
    Cmds = {x, y}
    Overlap = TRUE
    Rerun = TRUE
SYMMETRY Alike
PROPERTIES
    DownStopsNamed
