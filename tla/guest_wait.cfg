SPECIFICATION FairSpec
CONSTANTS
    Dirs = {a, b}
    Short = {a}
    Ips = {i1, i2}
    LeaseTimeout = 1
    SshTimeout = 2
    Interval = 1
    MaxAttempt = 1
    MaxRecords = 2
INVARIANTS
    TypeOK
    LookupMatchesRecords
    WaitsForOwnGuest
PROPERTIES
    GuestInTimeIsFound
    LaunchesEnd
