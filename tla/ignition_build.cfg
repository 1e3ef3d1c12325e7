SPECIFICATION FairSpec
CONSTANTS
    Cmds = {x, y}
    Jobs <- MCJobs
    base = base
    source = source
    Files = {base, source}
INVARIANTS
    TypeOK
PROPERTIES
    OwnOutput
    RejectedKeepsOutput
    BuildsEnd
