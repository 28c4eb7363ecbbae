SPECIFICATION MarketSpec
CONSTANTS
    U64_MAX = 37
    U16_MAX = 3
    OptionsCount = 2
    OutcomeIndex = 1
    Contributors = {c1, c2, c3}
    Contributions = {8, 13}
    LpMints = {0, 10, 23}
    PoolValues = {0, 400}
    MinLiquidities = {9}
    Fees = {0, 200, 1000}
    MaxDonation = 1
SYMMETRY Symmetry
INVARIANTS
    TypeOK
    ContributionsCounted
    FeeComesFirst
    VaultsCoverClaims
    SharesAreProportional
    PayoutFollowsVerdict
CHECK_DEADLOCK FALSE
