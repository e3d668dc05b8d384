SPECIFICATION Spec
CONSTANTS
    k1 = k1
    k2 = k2
    k3 = k3
    NoKey = NoKey
    OperatorKey = OperatorKey
    ForgottenKey = ForgottenKey
    BootstrapKey = BootstrapKey
    GeneratedKeys = {k1, k2, k3}
    OtherVerifiers <- Others
    Development = Development
    Ceremony1 = Ceremony1
    Ceremonies = {Ceremony1}
    Unindexed = {"encryptedERC"}
    Dust = 2
    MaxScripts = 3
    MaxCrashes = 2
    MaxStrangers = 1
INVARIANTS
    RecordsTrue
    AuditorKeyKept
    RerunsReuse
CHECK_DEADLOCK FALSE
