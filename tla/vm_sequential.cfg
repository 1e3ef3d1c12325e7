SPECIFICATION FairSpec
CONSTANTS
    Pids = {p1, p2}
    Ports = {portA, portB}
    DefaultPort = portA
    Kinds = {"up", "down", "boot", "start", "stop", "ssh"}
    Cmds = {x}
    Overlap = FALSE
    Rerun = FALSE
INVARIANTS
    TypeOK
    NoVmLeaks
    StateHasPid
PROPERTIES
    SshReachesUpsVm
    CommandsEnd
    DownStopsVm
