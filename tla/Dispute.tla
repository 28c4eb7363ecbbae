------------------------------- MODULE Dispute -------------------------------
(* One oracle of the Kassandra program, from its creation to its verdict.     *)
(*                                                                            *)
(* Every action is one instruction: Solana runs it whole or not at all, and   *)
(* runs instructions that write the oracle account one after another, so the  *)
(* interleavings are those of whole instructions, sent by anybody.  A check   *)
(* that fails is a guard; what the accounts passed in must satisfy is a       *)
(* guard or the range of a quantifier.                                        *)
(*                                                                            *)
(* An account exists from the instruction that creates it: proposer, fact,    *)
(* fact_vote, ai_claim and market are functions whose domain is the set of    *)
(* accounts that exist.                                                       *)
EXTENDS Amounts, Plurality, FiniteSets, Functions

CONSTANTS
    Proposers,          \* authorities that may propose
    Facts,              \* content hashes that may be submitted
    Voters,             \* authorities that may vote on facts
    Questions,          \* MetaDAO questions that name this oracle as resolver
    QuestionsFor,       \* those that challengers of each proposer build on
    Bonds, Stakes,      \* amounts a proposer may bond, a fact or vote may stake
    Prices, Twaps       \* readings of the KASS/USDC and the pass/fail pools

\* The oracle's snapshot of the protocol's parameters, and its deadline.
CONSTANTS
    Deadline, ProposalWindow, PhaseWindow, TwapWindow,
    MinStake, RewardEmission, MAX_PROPOSERS, KASS_PRICE_SCALE,
    Threshold, MarketThreshold, FlipSlash, FactVoteSlash,
    ChallengeFailUsdcFee, ChallengeSuccessKassFee

CONSTANT MaxLag     \* bound: how long past a deadline the clock is followed

ASSUME DisputeAssumption ==
    /\ IsFiniteSet(Proposers) /\ IsFiniteSet(Facts)
    /\ IsFiniteSet(Voters) /\ IsFiniteSet(Questions)
    /\ QuestionsFor \in [Proposers -> SUBSET Questions]
    /\ Bonds \subseteq U64 /\ Stakes \subseteq U64
    /\ Prices \subseteq Nat /\ Twaps \subseteq Nat /\ Twaps # {}
    /\ Deadline \in Nat /\ MaxLag \in Nat
    /\ {ProposalWindow, PhaseWindow, TwapWindow} \subseteq Nat \ {0}
    /\ {MinStake, RewardEmission} \subseteq U64
    /\ MAX_PROPOSERS \in Nat /\ KASS_PRICE_SCALE \in Nat \ {0}
    /\ {Threshold, MarketThreshold, FlipSlash, FactVoteSlash,
        ChallengeFailUsdcFee, ChallengeSuccessKassFee} \subseteq ProperRatio

VARIABLES
    now,            \* the clock sysvar
    oracle,         \* the Oracle account
    proposer,       \* the Proposer accounts, by authority
    fact,           \* the Fact accounts, by content hash
    fact_vote,      \* the FactVote accounts, by <<fact, voter>>
    ai_claim,       \* the AiClaim accounts, by the proposer they belong to
    market,         \* the Market accounts, by the proposer they challenge
    resolved_question,  \* the questions that are resolved (external)
    kass,           \* where the oracle's KASS is
    usdc            \* where the challengers' USDC is

vars == <<now, oracle, proposer, fact, fact_vote, ai_claim, market,
          resolved_question, kass, usdc>>

-----------------------------------------------------------------------------
\* Types

Phases == {"Proposal", "FactProposal", "FactVoting", "AiClaim", "Challenge",
           "Resolved", "InvalidDeadend"}
TerminalPhases == {"Resolved", "InvalidDeadend"}
Terminal == oracle.phase \in TerminalPhases

OracleAccount ==
    [phase : Phases,
     phase_ends_at : Nat,
     proposer_count : Nat,
     surviving_count : Nat,
     fact_count : Nat,
     settled_count : Nat,
     ai_finalized_count : Nat,
     open_challenge_count : Nat,
     total_oracle_stake : U64,
     bond_pool : U64,
     dispute_bond_total : U64,
     total_correct_proposer_stake : U64,
     total_approved_fact_stake : U64,
     reward_pool : U64,
     resolved_option : Options \cup {CLAIM_OPTION_NONE}]

ProposerAccount ==
    [bond : U64,
     original_option : Options,
     claim_option : Options \cup {CLAIM_OPTION_NONE},
     disqualified : BOOLEAN,
     slashed : BOOLEAN,
     flipped : BOOLEAN,
     ai_finalized : BOOLEAN,
     slashed_amount : U64]

FactAccount ==
    [stake : U64, approve_stake : U64, duplicate_stake : U64,
     agreed : BOOLEAN, duplicate : BOOLEAN, settled : BOOLEAN]

FactVoteAccount == [kind : {"approve", "duplicate"}, stake : U64]

AiClaimAccount == [option : Options, challenged : BOOLEAN]

MarketAccount ==
    [question : Questions, challenger_usdc : U64, twap_end : Nat,
     settled : BOOLEAN]

\* The KASS in stake_vault and in each question's conditional vault, what was
\* burned, and what left to challengers.
KassLedger ==
    [stake_vault : U64, conditional : [Questions -> Nat], burned : Nat,
     challengers : Nat]

\* The USDC in each challenge's escrow vault, and what left to either side.
UsdcLedger ==
    [escrow : [Proposers -> Nat], proposers : Nat, challengers : Nat]

AccountsOf(f, keys, type) ==
    /\ DOMAIN f \subseteq keys
    /\ f \in [DOMAIN f -> type]

TypeOK ==
    /\ now \in Nat
    /\ oracle \in OracleAccount
    /\ AccountsOf(proposer, Proposers, ProposerAccount)
    /\ AccountsOf(fact, Facts, FactAccount)
    /\ AccountsOf(fact_vote, Facts \X Voters, FactVoteAccount)
    /\ AccountsOf(ai_claim, Proposers, AiClaimAccount)
    /\ AccountsOf(market, Proposers, MarketAccount)
    /\ resolved_question \subseteq Questions
    /\ kass \in KassLedger
    /\ usdc \in UsdcLedger

-----------------------------------------------------------------------------
\* Clock and accounts

BeforeEnd == now < oracle.phase_ends_at         \* require_before_end
AfterEnd == now >= oracle.phase_ends_at         \* require_after_end

Create(accounts, key, account) ==
    [k \in DOMAIN accounts \cup {key} |->
        IF k = key THEN account ELSE accounts[k]]

Proposed == DOMAIN proposer
Survivors == { p \in Proposed : ~proposer[p].disqualified }
OpenMarkets == { p \in DOMAIN market : ~market[p].settled }

\* Mutant: neither addition is checked.
Deposit_Unchecked(amount) ==
    kass' = [kass EXCEPT !.stake_vault = @ + amount]

\* The transfer of a stake into stake_vault, and its checked_add to the total.
Deposit(amount) ==
    /\ oracle.total_oracle_stake + amount \in U64
    /\ kass.stake_vault + amount \in U64
    /\ kass' = [kass EXCEPT !.stake_vault = @ + amount]

\* The burn that ends a dispute without a verdict.
CanBurn(amount) == amount \in U64 /\ amount <= kass.stake_vault

Burn(amount) ==
    /\ CanBurn(amount)
    /\ kass' = [kass EXCEPT !.stake_vault = @ - amount, !.burned = @ + amount]

-----------------------------------------------------------------------------
\* create_oracle leaves the oracle in the Proposal phase, with the emission
\* minted into its vault.
Init ==
    /\ now = 0
    /\ oracle = [phase |-> "Proposal",
                 phase_ends_at |-> Deadline + ProposalWindow,
                 proposer_count |-> 0,
                 surviving_count |-> 0,
                 fact_count |-> 0,
                 settled_count |-> 0,
                 ai_finalized_count |-> 0,
                 open_challenge_count |-> 0,
                 total_oracle_stake |-> 0,
                 bond_pool |-> 0,
                 dispute_bond_total |-> 0,
                 total_correct_proposer_stake |-> 0,
                 total_approved_fact_stake |-> 0,
                 reward_pool |-> 0,
                 resolved_option |-> 0]
    /\ proposer = << >>
    /\ fact = << >>
    /\ fact_vote = << >>
    /\ ai_claim = << >>
    /\ market = << >>
    /\ resolved_question = {}
    /\ kass = [stake_vault |-> RewardEmission,
               conditional |-> [q \in Questions |-> 0],
               burned |-> 0, challengers |-> 0]
    /\ usdc = [escrow |-> [p \in Proposers |-> 0],
               proposers |-> 0, challengers |-> 0]

-----------------------------------------------------------------------------
\* The Proposal phase

\* The proposal window restarts for the first proposer when nobody proposed
\* in the window that create_oracle set.
ProposalWindowEnd ==
    IF BeforeEnd THEN oracle.phase_ends_at ELSE now + ProposalWindow

Propose(p, bond, option) ==
    /\ bond >= MinStake
    /\ oracle.phase = "Proposal"
    /\ now >= Deadline
    /\ BeforeEnd \/ oracle.proposer_count = 0
    /\ oracle.proposer_count < MAX_PROPOSERS
    /\ p \notin Proposed
    /\ Deposit(bond)
    /\ proposer' = Create(proposer, p,
                          [bond |-> bond,
                           original_option |-> option,
                           claim_option |-> CLAIM_OPTION_NONE,
                           disqualified |-> FALSE,
                           slashed |-> FALSE,
                           flipped |-> FALSE,
                           ai_finalized |-> FALSE,
                           slashed_amount |-> 0])
    /\ oracle' = [oracle EXCEPT !.phase_ends_at = ProposalWindowEnd,
                                !.proposer_count = @ + 1,
                                !.surviving_count = @ + 1,
                                !.total_oracle_stake = @ + bond]
    /\ UNCHANGED <<now, fact, fact_vote, ai_claim, market,
                   resolved_question, usdc>>

\* finalize_proposals takes the full proposer set in one call.
ProposalsClosed ==
    /\ oracle.phase = "Proposal"
    /\ AfterEnd
    /\ oracle.proposer_count > 0
    /\ oracle.proposer_count = Cardinality(Proposed)

Agreed(option) == \A p \in Proposed : proposer[p].original_option = option

CanFinalizeAgreed(option) ==
    ProposalsClosed /\ Agreed(option) /\ oracle.bond_pool + RewardEmission \in U64

FinalizeAgreedProposals(option) ==
    /\ CanFinalizeAgreed(option)
    /\ oracle' = [oracle EXCEPT
                    !.phase = "Resolved",
                    !.resolved_option = option,
                    !.reward_pool = oracle.bond_pool + RewardEmission,
                    !.total_correct_proposer_stake = oracle.total_oracle_stake]
    /\ UNCHANGED <<now, proposer, fact, fact_vote, ai_claim, market,
                   resolved_question, kass, usdc>>

CanFinalizeDisputed == ProposalsClosed /\ ~\E option \in Options : Agreed(option)

FinalizeDisputedProposals ==
    /\ CanFinalizeDisputed
    /\ oracle' = [oracle EXCEPT
                    !.phase = "FactProposal",
                    !.phase_ends_at = now + PhaseWindow,
                    !.dispute_bond_total = oracle.total_oracle_stake]
    /\ UNCHANGED <<now, proposer, fact, fact_vote, ai_claim, market,
                   resolved_question, kass, usdc>>

-----------------------------------------------------------------------------
\* The fact phases

SubmitFact(f, stake) ==
    /\ stake >= MinStake
    /\ oracle.phase = "FactProposal"
    /\ BeforeEnd
    /\ f \notin DOMAIN fact
    /\ Deposit(stake)
    /\ fact' = Create(fact, f,
                      [stake |-> stake, approve_stake |-> 0,
                       duplicate_stake |-> 0, agreed |-> FALSE,
                       duplicate |-> FALSE, settled |-> FALSE])
    /\ oracle' = [oracle EXCEPT !.fact_count = @ + 1,
                                !.total_oracle_stake = @ + stake]
    /\ UNCHANGED <<now, proposer, fact_vote, ai_claim, market,
                   resolved_question, usdc>>

CanAdvancePhase == oracle.phase = "FactProposal" /\ AfterEnd

AdvancePhase ==
    /\ CanAdvancePhase
    /\ oracle' = [oracle EXCEPT !.phase = "FactVoting",
                                !.phase_ends_at = now + PhaseWindow]
    /\ UNCHANGED <<now, proposer, fact, fact_vote, ai_claim, market,
                   resolved_question, kass, usdc>>

Tallied(account, kind, stake) ==
    IF kind = "approve"
    THEN [account EXCEPT !.approve_stake = @ + stake]
    ELSE [account EXCEPT !.duplicate_stake = @ + stake]

VoteFact(f, v, kind, stake) ==
    /\ stake >= MinStake
    /\ oracle.phase = "FactVoting"
    /\ BeforeEnd
    /\ f \in DOMAIN fact
    /\ <<f, v>> \notin DOMAIN fact_vote
    /\ Tallied(fact[f], kind, stake) \in FactAccount
    /\ Deposit(stake)
    /\ fact_vote' = Create(fact_vote, <<f, v>>, [kind |-> kind, stake |-> stake])
    /\ fact' = [fact EXCEPT ![f] = Tallied(@, kind, stake)]
    /\ oracle' = [oracle EXCEPT !.total_oracle_stake = @ + stake]
    /\ UNCHANGED <<now, proposer, ai_claim, market, resolved_question, usdc>>

\* finalize_facts on an oracle without facts: every proposer is slashed, a
\* batch at a time, and the dispute dead-ends when the last one is.
FactVotingClosed ==
    /\ oracle.phase = "FactVoting"
    /\ AfterEnd
    /\ oracle.dispute_bond_total # 0

\* The records of the accounts in S that are finalized together.
UpdateAll(accounts, S, Updated(_)) ==
    [k \in DOMAIN accounts |->
        IF k \in S THEN Updated(accounts[k]) ELSE accounts[k]]

NotDisqualified(S) == { p \in S : ~proposer[p].disqualified }

NoFactsSlash(account) ==
    IF account.disqualified
    THEN [account EXCEPT !.slashed = TRUE]
    ELSE [account EXCEPT !.disqualified = TRUE,
                         !.slashed = TRUE,
                         !.slashed_amount = account.bond]

BondsOf(S) == SumFunction([p \in S |-> proposer[p].bond])

PoolWithout(S) == oracle.bond_pool + BondsOf(NotDisqualified(S))
SurvivingWithout(S) == oracle.surviving_count - Cardinality(NotDisqualified(S))

CanSlashForNoFacts(S) ==
    /\ FactVotingClosed
    /\ oracle.fact_count = 0
    /\ \A p \in S : ~proposer[p].slashed
    /\ PoolWithout(S) \in U64
    /\ SurvivingWithout(S) \in Nat
    /\ SurvivingWithout(S) = 0 => CanBurn(PoolWithout(S) + RewardEmission)

SlashForNoFacts(S) ==
    LET pool == PoolWithout(S)
        surviving == SurvivingWithout(S)
    IN  /\ CanSlashForNoFacts(S)
        /\ proposer' = UpdateAll(proposer, S, NoFactsSlash)
        /\ oracle' = [oracle EXCEPT
                        !.phase = IF surviving = 0 THEN "InvalidDeadend" ELSE @,
                        !.bond_pool = pool,
                        !.surviving_count = surviving]
        /\ IF surviving = 0 THEN Burn(pool + RewardEmission)
                            ELSE UNCHANGED kass
        /\ UNCHANGED <<now, fact, fact_vote, ai_claim, market,
                       resolved_question, usdc>>

\* What the voters say of a fact.
DuplicateDominant(account) == account.duplicate_stake > account.approve_stake

IsAgreed(account) ==
    /\ account.approve_stake > account.duplicate_stake
    /\ account.approve_stake * Threshold.den
          >= oracle.dispute_bond_total * Threshold.num

\* Mutant: the duplicate branch returns before it marks the fact settled.
SettledFact_DuplicateOpen(account) ==
    IF DuplicateDominant(account)
    THEN [account EXCEPT !.duplicate = TRUE]
    ELSE [account EXCEPT !.settled = TRUE, !.agreed = IsAgreed(account)]

SettledFact(account) ==
    IF DuplicateDominant(account)
    THEN [account EXCEPT !.settled = TRUE, !.duplicate = TRUE]
    ELSE [account EXCEPT !.settled = TRUE, !.agreed = IsAgreed(account)]

\* The stake that earns rewards, if the fact is agreed.
ApprovedStake(account) ==
    IF IsAgreed(account) THEN account.stake + account.approve_stake ELSE 0

\* Mutant: the forfeit forgets that duplicates are returned.
ForfeitedStake_Duplicates(account) ==
    IF IsAgreed(account) THEN 0
    ELSE account.stake + FloorFrac(account.approve_stake, FactVoteSlash)

\* What a rejected fact's submitter and approvers forfeit.
ForfeitedStake(account) ==
    IF DuplicateDominant(account) \/ IsAgreed(account) THEN 0
    ELSE account.stake + FloorFrac(account.approve_stake, FactVoteSlash)

ForfeitedIn(F) == SumFunction([f \in F |-> ForfeitedStake(fact[f])])
ApprovedIn(F) == SumFunction([f \in F |-> ApprovedStake(fact[f])])

CanSettleFacts(F) ==
    /\ FactVotingClosed
    /\ oracle.fact_count # 0
    /\ \A f \in F : ~fact[f].settled
    /\ oracle.bond_pool + ForfeitedIn(F) \in U64
    /\ oracle.total_approved_fact_stake + ApprovedIn(F) \in U64

SettleFacts(F) ==
    LET pool == oracle.bond_pool + ForfeitedIn(F)
        approved == oracle.total_approved_fact_stake + ApprovedIn(F)
        settled == oracle.settled_count + Cardinality(F)
        complete == settled = oracle.fact_count
    IN  /\ CanSettleFacts(F)
        /\ fact' = UpdateAll(fact, F, SettledFact)
        /\ oracle' = [oracle EXCEPT
                        !.phase = IF complete THEN "AiClaim" ELSE @,
                        !.phase_ends_at =
                            IF complete THEN now + PhaseWindow ELSE @,
                        !.bond_pool = pool,
                        !.total_approved_fact_stake = approved,
                        !.settled_count = settled]
        /\ UNCHANGED <<now, proposer, fact_vote, ai_claim, market,
                       resolved_question, kass, usdc>>

-----------------------------------------------------------------------------
\* The AI-claim phase

\* Mutant: the vote counted is the original option.
Claimed_Original(account, option) ==
    [account EXCEPT !.claim_option = account.original_option,
                    !.flipped = @ \/ option # account.original_option]

Claimed(account, option) ==
    [account EXCEPT !.claim_option = option,
                    !.flipped = @ \/ option # account.original_option]

SubmitAiClaim(p, option) ==
    /\ oracle.phase = "AiClaim"
    /\ BeforeEnd
    /\ ~proposer[p].disqualified
    /\ p \notin DOMAIN ai_claim
    /\ ai_claim' = Create(ai_claim, p, [option |-> option, challenged |-> FALSE])
    /\ proposer' = [proposer EXCEPT ![p] = Claimed(@, option)]
    /\ UNCHANGED <<now, oracle, fact, fact_vote, market, resolved_question,
                   kass, usdc>>

\* A survivor who claimed nothing loses the bond and its standing; one who
\* left its original option loses a fraction and stays.
NoShow(account) == account.claim_option = CLAIM_OPTION_NONE
Penalised(account) ==
    ~account.disqualified /\ (NoShow(account) \/ account.flipped)

AiSlash(account) ==
    IF ~Penalised(account) THEN 0
    ELSE IF NoShow(account) THEN account.bond
    ELSE FloorFrac(account.bond, FlipSlash)

\* Mutant: a no-show is slashed but keeps its standing.
AiFinalized_NoShowStays(account) ==
    IF Penalised(account)
    THEN [account EXCEPT !.ai_finalized = TRUE,
                         !.slashed = TRUE,
                         !.slashed_amount = AiSlash(account)]
    ELSE [account EXCEPT !.ai_finalized = TRUE]

AiFinalized(account) ==
    IF Penalised(account)
    THEN [account EXCEPT !.ai_finalized = TRUE,
                         !.slashed = TRUE,
                         !.disqualified = NoShow(account),
                         !.slashed_amount = AiSlash(account)]
    ELSE [account EXCEPT !.ai_finalized = TRUE]

AiSlashesOf(S) == SumFunction([p \in S |-> AiSlash(proposer[p])])

NoShowsIn(S) == { p \in NotDisqualified(S) : NoShow(proposer[p]) }

CanFinalizeAiClaims(S) ==
    /\ oracle.phase = "AiClaim"
    /\ AfterEnd
    /\ \A p \in S : ~proposer[p].ai_finalized
    /\ oracle.bond_pool + AiSlashesOf(S) \in U64
    /\ oracle.surviving_count >= Cardinality(NoShowsIn(S))

FinalizeAiClaims(S) ==
    LET pool == oracle.bond_pool + AiSlashesOf(S)
        no_shows == NoShowsIn(S)
        finalized == oracle.ai_finalized_count + Cardinality(S)
        complete == finalized = oracle.proposer_count
    IN  /\ CanFinalizeAiClaims(S)
        /\ proposer' = UpdateAll(proposer, S, AiFinalized)
        /\ oracle' = [oracle EXCEPT
                        !.phase = IF complete THEN "Challenge" ELSE @,
                        !.phase_ends_at =
                            IF complete THEN now + PhaseWindow ELSE @,
                        !.bond_pool = pool,
                        !.surviving_count = @ - Cardinality(no_shows),
                        !.ai_finalized_count = finalized]
        /\ UNCHANGED <<now, fact, fact_vote, ai_claim, market,
                       resolved_question, kass, usdc>>

-----------------------------------------------------------------------------
\* The Challenge phase

\* open_challenge moves the bond into the question's conditional vault, where
\* it backs an equal amount of pass- and fail-KASS, and prices the USDC that
\* the challenger puts up.  Any two-outcome question of this oracle will do:
\* the instruction does not tie it to the claim.
RequiredUsdc(bond, price) == (bond * price) \div KASS_PRICE_SCALE

OpenChallenge(p, question, price) ==
    LET bond == proposer[p].bond
        required_usdc == RequiredUsdc(bond, price)
    IN  /\ oracle.phase = "Challenge"
        /\ BeforeEnd
        /\ ~ai_claim[p].challenged
        /\ ~proposer[p].disqualified
        /\ p \notin DOMAIN market
        /\ required_usdc \in U64 \ {0}
        /\ bond <= kass.stake_vault
        /\ kass' = [kass EXCEPT !.stake_vault = @ - bond,
                                !.conditional[question] = @ + bond]
        /\ usdc' = [usdc EXCEPT !.escrow[p] = required_usdc]
        /\ market' = Create(market, p,
                            [question |-> question,
                             challenger_usdc |-> required_usdc,
                             twap_end |-> now + TwapWindow,
                             settled |-> FALSE])
        /\ ai_claim' = [ai_claim EXCEPT ![p] = [@ EXCEPT !.challenged = TRUE]]
        /\ oracle' = [oracle EXCEPT !.open_challenge_count = @ + 1]
        /\ UNCHANGED <<now, proposer, fact, fact_vote, resolved_question>>

\* The pass pool must have a price, and the fail pool beat it by the margin.
Disqualifies(pass_twap, fail_twap) ==
    /\ pass_twap # 0
    /\ fail_twap * MarketThreshold.den
          > pass_twap * (MarketThreshold.den + MarketThreshold.num)

\* The challenger's share of a disqualified proposer's bond.
KassFee(account) ==
    AtMost(FloorFrac(account.bond, ChallengeSuccessKassFee),
           SaturatingSub(account.bond, account.slashed_amount))

\* Mutant: the slash ignores the fee that leaves the vault.
Disqualified_FullSlash(account) ==
    [account EXCEPT !.disqualified = TRUE,
                    !.slashed = TRUE,
                    !.slashed_amount = account.bond]

\* Mutant: the slash is taken of what an earlier slash left.
Disqualified_OfRemainder(account) ==
    [account EXCEPT !.disqualified = TRUE,
                    !.slashed = TRUE,
                    !.slashed_amount =
                        SaturatingSub(account.bond - KassFee(account), @)]

Disqualified(account) ==
    [account EXCEPT !.disqualified = TRUE,
                    !.slashed = TRUE,
                    !.slashed_amount = account.bond - KassFee(account)]

\* Mutant: the redeemed pass- and fail-KASS is not burned.
RedeemedAt_NotBurned(question) ==
    [kass EXCEPT !.stake_vault = @ + kass.conditional[question]]

\* Redeeming burns everything the oracle holds of the question's pass- and
\* fail-KASS, and pays the vault for the winning side.
RedeemedAt(question) ==
    [kass EXCEPT !.stake_vault = @ + kass.conditional[question],
                 !.conditional[question] = 0]

\* Mutant: settling needs the challenge window to be open still.
SettleableMarket_InWindow(p) ==
    /\ oracle.phase = "Challenge"
    /\ BeforeEnd
    /\ p \in OpenMarkets
    /\ oracle.open_challenge_count > 0
    /\ now >= market[p].twap_end
    /\ market[p].question \notin resolved_question
    /\ RedeemedAt(market[p].question).stake_vault \in U64

\* resolve_question fails on a question that is resolved already, and with it
\* the whole settlement; so does a redemption that overflows the vault.
SettleableMarket(p) ==
    /\ oracle.phase = "Challenge"
    /\ p \in OpenMarkets
    /\ oracle.open_challenge_count > 0
    /\ now >= market[p].twap_end
    /\ market[p].question \notin resolved_question
    /\ RedeemedAt(market[p].question).stake_vault \in U64

CloseMarket(p) ==
    /\ market' = [market EXCEPT ![p] = [@ EXCEPT !.settled = TRUE]]
    /\ resolved_question' = resolved_question \cup {market[p].question}

\* Mutant: an earlier slash goes to the pool a second time.
ToppedUp_Twice(account) == oracle.bond_pool + (account.bond - KassFee(account))

\* The pool with what settling adds of the bond: an earlier slash is in it.
ToppedUp(account) ==
    oracle.bond_pool
      + SaturatingSub(account.bond - KassFee(account), account.slashed_amount)

CanSettleSuccessful(p) ==
    /\ SettleableMarket(p)
    /\ KassFee(proposer[p]) <= RedeemedAt(market[p].question).stake_vault
    /\ ~proposer[p].disqualified =>
          ToppedUp(proposer[p]) \in U64 /\ oracle.surviving_count > 0

SettleSuccessful(p) ==
    LET account == proposer[p]
        kass_fee == KassFee(account)
        escrowed == market[p].challenger_usdc
        redeemed == RedeemedAt(market[p].question)
        pool == ToppedUp(account)
    IN  /\ CanSettleSuccessful(p)
        /\ IF account.disqualified
           THEN /\ oracle' = [oracle EXCEPT !.open_challenge_count = @ - 1]
                /\ UNCHANGED proposer
           ELSE /\ oracle' = [oracle EXCEPT !.open_challenge_count = @ - 1,
                                            !.bond_pool = pool,
                                            !.surviving_count = @ - 1]
                /\ proposer' = [proposer EXCEPT ![p] = Disqualified(@)]
        /\ CloseMarket(p)
        /\ kass' = [redeemed EXCEPT !.stake_vault = @ - kass_fee,
                                    !.challengers = @ + kass_fee]
        /\ usdc' = [usdc EXCEPT !.escrow[p] = @ - escrowed,
                                !.challengers = @ + escrowed]
        /\ UNCHANGED <<now, fact, fact_vote, ai_claim>>

\* Mutant: the challenger's share stays in the escrow.
SettleFailed_FeeOnly(p) ==
    LET escrowed == market[p].challenger_usdc
        usdc_fee == FloorFrac(escrowed, ChallengeFailUsdcFee)
    IN  /\ SettleableMarket(p)
        /\ oracle' = [oracle EXCEPT !.open_challenge_count = @ - 1]
        /\ CloseMarket(p)
        /\ kass' = RedeemedAt(market[p].question)
        /\ usdc' = [usdc EXCEPT !.escrow[p] = @ - usdc_fee,
                                !.proposers = @ + usdc_fee]
        /\ UNCHANGED <<now, proposer, fact, fact_vote, ai_claim>>

SettleFailed(p) ==
    LET escrowed == market[p].challenger_usdc
        usdc_fee == FloorFrac(escrowed, ChallengeFailUsdcFee)
    IN  /\ SettleableMarket(p)
        /\ oracle' = [oracle EXCEPT !.open_challenge_count = @ - 1]
        /\ CloseMarket(p)
        /\ kass' = RedeemedAt(market[p].question)
        /\ usdc' = [usdc EXCEPT !.escrow[p] = @ - escrowed,
                                !.proposers = @ + usdc_fee,
                                !.challengers = @ + (escrowed - usdc_fee)]
        /\ UNCHANGED <<now, proposer, fact, fact_vote, ai_claim>>

SettleChallenge(p, pass_twap, fail_twap) ==
    IF Disqualifies(pass_twap, fail_twap)
    THEN SettleSuccessful(p)
    ELSE SettleFailed(p)

-----------------------------------------------------------------------------
\* The verdict

\* Mutant: the count of open challenges is not looked at.
ChallengesClosed_Unsettled ==
    /\ oracle.phase = "Challenge"
    /\ AfterEnd
    /\ oracle.proposer_count = Cardinality(Proposed)
    /\ oracle.proposer_count <= MAX_PROPOSERS
    /\ oracle.surviving_count = Cardinality(Survivors)
    /\ \A p \in Survivors : ~NoShow(proposer[p])

\* finalize_oracle takes the full proposer set in one call.
ChallengesClosed ==
    /\ oracle.phase = "Challenge"
    /\ AfterEnd
    /\ oracle.open_challenge_count = 0
    /\ oracle.proposer_count = Cardinality(Proposed)
    /\ oracle.proposer_count <= MAX_PROPOSERS
    /\ oracle.surviving_count = Cardinality(Survivors)
    /\ \A p \in Survivors : ~NoShow(proposer[p])

Claims == [p \in Survivors |-> proposer[p].claim_option]

BondsFor(option) == BondsOf({ p \in Survivors : Claims[p] = option })

CanResolve ==
    /\ ChallengesClosed
    /\ Plurality(Claims) # CLAIM_OPTION_NONE
    /\ BondsFor(Plurality(Claims)) \in U64
    /\ oracle.bond_pool + RewardEmission \in U64

Resolve ==
    LET option == Plurality(Claims)
        correct == BondsFor(option)
    IN  /\ CanResolve
        /\ oracle' = [oracle EXCEPT
                        !.phase = "Resolved",
                        !.resolved_option = option,
                        !.reward_pool = oracle.bond_pool + RewardEmission,
                        !.total_correct_proposer_stake = correct]
        /\ UNCHANGED <<now, proposer, fact, fact_vote, ai_claim, market,
                       resolved_question, kass, usdc>>

CanDeadEnd ==
    /\ ChallengesClosed
    /\ Plurality(Claims) = CLAIM_OPTION_NONE
    /\ CanBurn(oracle.bond_pool + RewardEmission)

DeadEnd ==
    /\ CanDeadEnd
    /\ Burn(oracle.bond_pool + RewardEmission)
    /\ oracle' = [oracle EXCEPT !.phase = "InvalidDeadend",
                                !.resolved_option = CLAIM_OPTION_NONE]
    /\ UNCHANGED <<now, proposer, fact, fact_vote, ai_claim, market,
                   resolved_question, usdc>>

FinalizeOracle == Resolve \/ DeadEnd

\* Mutant: the DAO may decide any finished oracle.
ResolveDeadend_AnyTerminal(option) ==
    /\ Terminal
    /\ oracle' = [oracle EXCEPT !.phase = "Resolved",
                                !.resolved_option = option]
    /\ UNCHANGED <<now, proposer, fact, fact_vote, ai_claim, market,
                   resolved_question, kass, usdc>>

\* The DAO may decide a dead end.
ResolveDeadend(option) ==
    /\ oracle.phase = "InvalidDeadend"
    /\ oracle' = [oracle EXCEPT !.phase = "Resolved",
                                !.resolved_option = option]
    /\ UNCHANGED <<now, proposer, fact, fact_vote, ai_claim, market,
                   resolved_question, kass, usdc>>

-----------------------------------------------------------------------------
\* The clock, followed only while some deadline lies ahead of it or at most
\* MaxLag behind: instructions arrive late, and later still is the same.

Tick ==
    /\ ~Terminal
    /\ \/ now < oracle.phase_ends_at + MaxLag
       \/ \E p \in OpenMarkets : now < market[p].twap_end
    /\ now' = now + 1
    /\ UNCHANGED <<oracle, proposer, fact, fact_vote, ai_claim, market,
                   resolved_question, kass, usdc>>

\* The instructions that anybody may send, and that move a dispute along.
FinalizeProposals ==
    \/ \E option \in Options : FinalizeAgreedProposals(option)
    \/ FinalizeDisputedProposals

FinalizeFacts ==
    \/ \E S \in (SUBSET Proposed) \ {{}} : SlashForNoFacts(S)
    \/ \E F \in (SUBSET DOMAIN fact) \ {{}} : SettleFacts(F)

FinalizeClaims == \E S \in (SUBSET Proposed) \ {{}} : FinalizeAiClaims(S)

SettleMarket(p) ==
    \E pass_twap, fail_twap \in Twaps : SettleChallenge(p, pass_twap, fail_twap)

\* The instructions of the parties.
PartyStep ==
    \/ \E p \in Proposers, bond \in Bonds, option \in Options :
            Propose(p, bond, option)
    \/ \E f \in Facts, stake \in Stakes : SubmitFact(f, stake)
    \/ \E f \in Facts, v \in Voters, kind \in {"approve", "duplicate"},
           stake \in Stakes : VoteFact(f, v, kind, stake)
    \/ \E p \in Proposed, option \in Options : SubmitAiClaim(p, option)
    \/ \E p \in DOMAIN ai_claim, price \in Prices :
            \E question \in QuestionsFor[p] : OpenChallenge(p, question, price)
    \/ \E option \in Options : ResolveDeadend(option)

CrankStep ==
    \/ FinalizeProposals
    \/ AdvancePhase
    \/ FinalizeFacts
    \/ FinalizeClaims
    \/ \E p \in DOMAIN market : SettleMarket(p)
    \/ FinalizeOracle

\* When the program accepts one of them, whatever the pools show.
CanFinalizeProposals ==
    CanFinalizeDisputed \/ \E option \in Options : CanFinalizeAgreed(option)

CanSettleMarket(p) ==
    /\ SettleableMarket(p)
    /\ \A pass_twap, fail_twap \in Twaps :
          Disqualifies(pass_twap, fail_twap) => CanSettleSuccessful(p)

CanFinalizeOracle == CanResolve \/ CanDeadEnd

CanCrank ==
    \/ CanFinalizeProposals
    \/ CanAdvancePhase
    \/ \E S \in (SUBSET Proposed) \ {{}} : CanSlashForNoFacts(S)
    \/ \E F \in (SUBSET DOMAIN fact) \ {{}} : CanSettleFacts(F)
    \/ \E S \in (SUBSET Proposed) \ {{}} : CanFinalizeAiClaims(S)
    \/ \E p \in DOMAIN market : CanSettleMarket(p)
    \/ CanFinalizeOracle

Next == PartyStep \/ CrankStep \/ Tick

Spec == Init /\ [][Next]_vars

\* Time passes, and somebody sends each finalizer that would succeed.  Nobody
\* has to propose, vote, claim or challenge, and the DAO need not act.
Fairness ==
    /\ WF_vars(Tick)
    /\ WF_vars(FinalizeProposals)
    /\ WF_vars(AdvancePhase)
    /\ WF_vars(FinalizeFacts)
    /\ WF_vars(FinalizeClaims)
    /\ \A p \in Proposers : WF_vars(p \in DOMAIN market /\ SettleMarket(p))
    /\ WF_vars(FinalizeOracle)

FairSpec == Spec /\ Fairness

-----------------------------------------------------------------------------
\* Safety

Settled == { f \in DOMAIN fact : fact[f].settled }
Finalized == { p \in Proposed : proposer[p].ai_finalized }

\* Every counter of the Oracle account counts the accounts it stands for.  The
\* one-shot finalizers refuse a set whose size differs from the counter, and
\* the batched ones complete when the counter says so, so a counter that ran
\* ahead or behind would end a phase early or block it for good.
CountersAccurate ==
    /\ oracle.proposer_count = Cardinality(Proposed)
    /\ oracle.surviving_count = Cardinality(Survivors)
    /\ oracle.fact_count = Cardinality(DOMAIN fact)
    /\ oracle.settled_count = Cardinality(Settled)
    /\ oracle.ai_finalized_count = Cardinality(Finalized)
    /\ oracle.open_challenge_count = Cardinality(OpenMarkets)

\* A settled fact that the voters neither approved nor called a duplicate.
Rejected == { f \in Settled : ~fact[f].agreed /\ ~fact[f].duplicate }

SlashedAmounts(S) == SumFunction([p \in S |-> proposer[p].slashed_amount])

ForfeitedStakes ==
    SumFunction([f \in Rejected |->
                    fact[f].stake + FloorFrac(fact[f].approve_stake, FactVoteSlash)])

\* bond_pool is exactly what was taken from somebody: each proposer's
\* slashed_amount, whichever of the four slash paths set it, and what rejected
\* facts forfeit (finalize_facts.rs, "a proposer's bond_pool contribution ==
\* its slashed_amount").
BondPoolIsTheSlashes ==
    oracle.bond_pool = SlashedAmounts(Proposed) + ForfeitedStakes

\* No KASS appears or disappears: what was staked or minted is in stake_vault,
\* behind an open challenge, burned, or with a challenger.
KassConserved ==
    kass.stake_vault
      + SumFunction(kass.conditional)
      + kass.burned + kass.challengers
    = oracle.total_oracle_stake + RewardEmission

\* A disqualified proposer's bond is in the pool, but for the part that went
\* to the challenger that disqualified it: nothing of it is left to return,
\* and no challenger was paid out of anybody else's stake.
ChallengersPaidFromBonds ==
    LET out == Proposed \ Survivors
    IN  kass.challengers = BondsOf(out) - SlashedAmounts(out)

\* Where all KASS is, and from whose bonds challengers were paid.
KassAccounted == KassConserved /\ ChallengersPaidFromBonds

\* An open challenge's escrow vault holds what the challenger put up, and a
\* settled one's is empty, as close_market wants it: its USDC went to the two
\* sides in full (settle_challenge, "fee + return == escrow").
EscrowBacksOpenMarkets ==
    \A p \in Proposers :
        usdc.escrow[p] = IF p \in OpenMarkets THEN market[p].challenger_usdc
                         ELSE 0

\* What is somebody's is where the program looks for it, in either token: the
\* vault's KASS is what stakes, emission and slashes leave in it, and the
\* challengers' USDC is what settlements will split.
TokensAccounted == KassAccounted /\ EscrowBacksOpenMarkets

\* No verdict while a challenge is open, and so none with a bond still split
\* into pass- and fail-KASS outside the vault that the claims are paid from.
NoVerdictDuringChallenge ==
    Terminal => /\ OpenMarkets = {}
                /\ \A q \in Questions : kass.conditional[q] = 0

\* Once challenges may open, a survivor has a claim, and the vote counted for
\* it is the option its AI claim published.
SurvivorsHaveClaimed ==
    oracle.phase = "Challenge" =>
        \A p \in Survivors :
            /\ p \in DOMAIN ai_claim
            /\ proposer[p].claim_option = ai_claim[p].option

\* A verdict counts published votes, and only after the last challenge.
VerdictIsEarned == NoVerdictDuringChallenge /\ SurvivorsHaveClaimed

-----------------------------------------------------------------------------
\* Action properties

\* A slash is never reduced nor a disqualification undone, even by the
\* settlement that recomputes the slash of a proposer who flipped first.
SlashesStand ==
    [][\A p \in Proposed :
        /\ proposer'[p].slashed_amount >= proposer[p].slashed_amount
        /\ proposer'[p].slashed_amount <= proposer[p].bond
        /\ proposer[p].disqualified => proposer'[p].disqualified]_vars

-----------------------------------------------------------------------------
\* Liveness

\* An open challenge whose question is resolved already: settle_challenge
\* resolves it first, which the conditional vault does once, so this market
\* can never be settled, and open_challenge_count never returns to zero.
\* open_challenge does not stop a challenger from building on the question of
\* another challenge.
Stranded(p) == p \in OpenMarkets /\ market[p].question \in resolved_question

\* Nothing is left to wait for: the phase is over, and the pools of every open
\* challenge have been watched for their time.
Overdue ==
    /\ ~Terminal
    /\ oracle.proposer_count > 0
    /\ AfterEnd
    /\ \A p \in OpenMarkets : now >= market[p].twap_end

\* A dispute of empty bonds alone, which finalize_facts refuses.
Weightless == \A p \in Proposed : proposer[p].bond = 0

\* However batches, slashes, challenges and roundings came together, an overdue
\* dispute always has an instruction that anybody may send and the program
\* accepts: no counter, total or balance ever blocks all of the finalizers.
NeverStuck ==
    Overdue =>
        \/ CanCrank
        \/ \E p \in OpenMarkets : Stranded(p)
        \/ oracle.phase = "FactVoting" /\ Weightless

\* An oracle that got a proposal reaches a verdict or a dead end, whatever the
\* parties do or omit, unless a challenge on a used question blocks it for good.
DisputesEnd ==
    oracle.proposer_count > 0 ~> Terminal \/ \E p \in Proposers : Stranded(p)

\* Every challenge that opens is settled, with that exception.
ChallengesSettle ==
    \A p \in Proposers : p \in OpenMarkets ~> p \notin OpenMarkets \/ Stranded(p)
=============================================================================
