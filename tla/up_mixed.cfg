SPECIFICATION Spec
CONSTANTS
    Configs = {c1, c2}
    Names <- OneName
    Variants <- Both
    QcowVariants <- Qemu
    Listed <- OneListed
    MidRunEdits = TRUE
    RemovalsFail = TRUE
    MixVariants = TRUE
PROPERTIES
    RecordOnlyRestorable
