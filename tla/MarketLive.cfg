SPECIFICATION AppMarketSpec
CONSTANTS
    U64_MAX = 37
    U16_MAX = 2
    OptionsCount = 2
    OutcomeIndex = 1
    Contributors = {c1, c2}
    Contributions = {8, 13}
    LpMints = {0, 10}
    PoolValues = {0, 400}
    MinLiquidities = {9}
    Fees = {0, 1000}
    MaxDonation = 1
INVARIANTS
    PageIsHonest
PROPERTIES
    MarketsClose
CHECK_DEADLOCK FALSE
