SPECIFICATION Spec
CONSTANTS
    Configs = {c1, c2}
    Names <- OneName
    Variants <- Both
    QcowVariants <- Qemu
    Listed <- OneListed
    MidRunEdits = FALSE
    RemovalsFail = FALSE
    MixVariants = TRUE
INVARIANTS
    SnapshotFresh
