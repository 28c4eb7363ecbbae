SPECIFICATION ScanSpec
CONSTANTS
    OptionsCount = 3
    MaxVotes = 5
INVARIANTS
    ReturnsStrictPlurality
CHECK_DEADLOCK FALSE
