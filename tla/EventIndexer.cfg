SPECIFICATION Spec
CONSTANTS
    Slots <- MCSlots
    Metas <- MCMetas
    Hosted <- MCHosted
    Oracles = {"o1", "o2"}
    Posts = {"p"}
    Batch = 1
    MaxConcurrent = 2
    MaxCrashes = 2
    MaxFaults = 1
INVARIANTS
    NothingMissed
PROPERTIES
    CursorAdvances
    IndexerCatchesUp
    MetadataServed
CHECK_DEADLOCK FALSE
