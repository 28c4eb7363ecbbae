SPECIFICATION Spec
CONSTANTS
    U64_MAX = 40
    I64_MAX = 3
    Nonces = {n1, n2}
    Keys = {k1, k2}
    DaoAuthorities = {k1, k2}
    Stakers = {s1}
    Stakes = {2}
    OptionCounts = {2, 3}
    Deadlines = {0, 2}
    TwapWindows = {1}
    Configs <- SentConfigs
    GenesisConfig <- Genesis
    InitialSupply = 21
    FEE_EMA_HALFLIFE_SECS = 2
    FEE_EMA_SCALE = 4
    FEE_EMA_INCREMENT = 5
    FEE_PER_EMA_UNIT = 2
    SWEEP_GRACE = 0
    MaxTime = 2
    MaxCreations = 2
SYMMETRY Symmetry
INVARIANTS
    SnapshotsUsable
    DecayIsMonotone
    AccountsBelong
    VaultsAreSound
PROPERTIES
    OnlyTheAuthorityGoverns
    EmissionWithinCap
CHECK_DEADLOCK FALSE
