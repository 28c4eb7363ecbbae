CONSTANTS
    Facts = {1, 2}
    Keepers = {k1}
    Verifiers = {v1}
    Options = 2
    Labels = 2
    ConfigFacts = {1}
    ConfigOptions = 3
    MaxPolls = 2
    MaxSends = 2
    MaxFaults = 1
SPECIFICATION Spec
INVARIANTS
    OneConfirmedClaim
    InputsAreReproducible
PROPERTIES
    RunsSucceed
CHECK_DEADLOCK FALSE
