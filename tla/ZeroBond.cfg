SPECIFICATION FairSpec
CONSTANTS
    U64_MAX = 200
    OptionsCount = 2
    Proposers = {p1, p2}
    Facts = {f1}
    Voters = {v1}
    Questions = {q1, q2}
    Bonds = {0}
    Stakes = {0}
    Prices = {1}
    Twaps = {0, 1, 2}
    Deadline = 1
    ProposalWindow = 1
    PhaseWindow = 1
    TwapWindow = 1
    MinStake = 0
    RewardEmission = 1
    MAX_PROPOSERS = 3
    KASS_PRICE_SCALE = 1
    MaxLag = 0
    p1 = p1
    p2 = p2
    p3 = p3
    q1 = q1
    q2 = q2
    QuestionsFor <- AnyQuestion
    Threshold <- Third
    MarketThreshold <- Half
    FlipSlash <- Half
    FactVoteSlash <- Half
    ChallengeFailUsdcFee <- Third
    ChallengeSuccessKassFee <- Half
PROPERTIES
    DisputesEnd
CHECK_DEADLOCK FALSE
