CONSTANTS
    Forms = {"activate", "create", "deposit", "compose"}
    Oracles = {o1, o2}
    Options = 2
    Group = 2
    Ready = {1}
    CAPACITY = 2
    Overlap = 2
    MaxDeposits = 2
    MaxInFlight = 2
    MaxFaults = 1
SPECIFICATION Spec
CONSTRAINT Unedited
INVARIANTS
    ReportsAreTrue
PROPERTIES
    SequencesComplete
CHECK_DEADLOCK FALSE
