SPECIFICATION SettlementSpec
CONSTANTS
    U64_MAX = 120
    OptionsCount = 2
    Proposers = {p1, p2, p3}
    Facts = {f1}
    Voters = {v1, v2}
    Questions = {q1}
    Bonds = {31}
    Stakes = {0, 8}
    Prices = {1}
    Twaps = {1, 2}
    Deadline = 0
    ProposalWindow = 1
    PhaseWindow = 1
    TwapWindow = 1
    MinStake = 0
    RewardEmission = 17
    MAX_PROPOSERS = 3
    KASS_PRICE_SCALE = 1
    MaxLag = 0
    SWEEP_GRACE = 1
    MaxDonations = 1
    MAX_LEGACY_TAIL = 2
    PACKET_TAIL = 2
    ProposerWeight = 2
    FactWeight = 1
    p1 = p1
    p2 = p2
    p3 = p3
    q1 = q1
    q2 = q2
    QuestionsFor <- AnyQuestion
    Threshold <- Third
    MarketThreshold <- Half
    FlipSlash <- Half
    FactVoteSlash <- Third
    ChallengeFailUsdcFee <- Third
    ChallengeSuccessKassFee <- Third
CONSTRAINT SmallElectorate
SYMMETRY Symmetry
INVARIANTS
    ClaimsArePaid
PROPERTIES
    ImplementsVerdict
    PageServesEverybody
CHECK_DEADLOCK FALSE
