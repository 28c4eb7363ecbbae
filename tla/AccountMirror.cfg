SPECIFICATION MirrorSpec
CONSTANTS
    Keys = {k1, k2}
    MaxSlot = 3
    MaxRestarts = 1
    MaxErrors = 1
PROPERTIES
    RowsAdvance
    LiveRowsAreKept
    PassesRefresh
    Converges
CHECK_DEADLOCK FALSE
