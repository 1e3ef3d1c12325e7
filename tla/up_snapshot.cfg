SPECIFICATION FairSpec
CONSTANTS
    Configs = {c1, c2, c3}
    Names <- TwoNames
    Variants <- Both
    QcowVariants <- Qemu
    Listed <- ExactlyListed
    MidRunEdits = FALSE
    RemovalsFail = FALSE
    MixVariants = FALSE
INVARIANTS
    TypeOK
    SnapshotFresh
    AcceptedIsWhole
    HitCanBeRestored
    ServedConfig
    FreshnessInv
    RebuildBootsFresh
PROPERTIES
    ImplementsContract
    VouchedStays
    RunsEnd
    UndisturbedRunsSucceed
