----------------------------- MODULE Settlement ------------------------------
(* After the verdict: the claims that pay stakers out of stake_vault, the     *)
(* instructions that close the accounts of a finished oracle, and the sweep   *)
(* that takes what is left to the DAO's treasury.                             *)
(*                                                                            *)
(* The module continues Dispute: its specification is the whole life of an    *)
(* oracle.  Closing an account takes it out of the domain of its variable.    *)
EXTENDS Dispute, Reward

CONSTANTS
    SWEEP_GRACE,
    MaxDonations    \* bound: escrows that strangers send USDC to

ASSUME GraceAssumption == SWEEP_GRACE \in Nat /\ MaxDonations \in Nat

VARIABLES
    oracle_open,    \* the Oracle account and its vault exist
    governance_set, \* the protocol has a DAO, and so a treasury
    payouts,        \* the KASS that claims and the sweep took from the vault
    donated         \* the challenges whose escrow holds USDC that a stranger sent

settlementVars == <<oracle_open, governance_set, payouts, donated>>
allVars == <<now, oracle, proposer, fact, fact_vote, ai_claim, market,
             resolved_question, kass, usdc, settlementVars>>

SettlementTypeOK ==
    /\ TypeOK
    /\ oracle_open \in BOOLEAN
    /\ governance_set \in BOOLEAN
    /\ payouts \in [stakers : Nat, treasury : Nat]
    /\ donated \subseteq Proposers

-----------------------------------------------------------------------------
\* Entitlements

Resolved == oracle.phase = "Resolved"

BackedResolved(account) ==
    \/ account.claim_option = oracle.resolved_option
    \/ NoShow(account) /\ account.original_option = oracle.resolved_option

ProposerReward(account) ==
    IF Resolved /\ ~account.disqualified /\ BackedResolved(account)
    THEN ShareOf(account.bond,
                 ProposerBucket(oracle.reward_pool,
                                oracle.total_correct_proposer_stake,
                                oracle.total_approved_fact_stake),
                 oracle.total_correct_proposer_stake)
    ELSE 0

\* Mutant: a disqualified proposer takes what its slash left, although the
\* challenger has that.
ProposerEntitlement_Unforfeited(account) ==
    SaturatingSub(account.bond, account.slashed_amount) + ProposerReward(account)

ProposerEntitlement(account) ==
    IF account.disqualified THEN 0
    ELSE SaturatingSub(account.bond, account.slashed_amount)
           + ProposerReward(account)

FactReward(stake) ==
    IF Resolved
    THEN ShareOf(stake,
                 FactBucket(oracle.reward_pool,
                            oracle.total_correct_proposer_stake,
                            oracle.total_approved_fact_stake),
                 oracle.total_approved_fact_stake)
    ELSE 0

SubmitterEntitlement(account) ==
    IF account.agreed THEN account.stake + FactReward(account.stake)
    ELSE IF account.duplicate THEN account.stake
    ELSE 0

\* Mutant: an approver's loss is rounded down.
VoterEntitlement_Floor(account, about) ==
    IF account.kind = "duplicate" THEN account.stake
    ELSE IF about.agreed THEN account.stake + FactReward(account.stake)
    ELSE IF about.duplicate THEN account.stake
    ELSE SaturatingSub(account.stake, FloorFrac(account.stake, FactVoteSlash))

\* An approver of a rejected fact loses its fraction rounded up, so that all
\* of them together lose no less than finalize_facts put into the pool.
VoterEntitlement(account, about) ==
    IF account.kind = "duplicate" THEN account.stake
    ELSE IF about.agreed THEN account.stake + FactReward(account.stake)
    ELSE IF about.duplicate THEN account.stake
    ELSE SaturatingSub(account.stake, CeilFrac(account.stake, FactVoteSlash))

-----------------------------------------------------------------------------
\* Claims and closures

SettlementInit ==
    /\ Init
    /\ oracle_open = TRUE
    /\ governance_set \in BOOLEAN
    /\ payouts = [stakers |-> 0, treasury |-> 0]
    /\ donated = {}

Close(accounts, key) ==
    [k \in DOMAIN accounts \ {key} |-> accounts[k]]

\* A claim needs a finished oracle, and its transfer a vault that can pay.
CanPay(amount) ==
    oracle_open /\ Terminal /\ amount \in U64 /\ amount <= kass.stake_vault

Pay(amount) ==
    /\ CanPay(amount)
    /\ kass' = [kass EXCEPT !.stake_vault = @ - amount]
    /\ payouts' = [payouts EXCEPT !.stakers = @ + amount]

ClaimProposer(p) ==
    /\ Pay(ProposerEntitlement(proposer[p]))
    /\ proposer' = Close(proposer, p)
    /\ UNCHANGED <<now, oracle, fact, fact_vote, ai_claim, market,
                   resolved_question, usdc, oracle_open, governance_set, donated>>

\* Mutant: the submitter may claim before the voters.
ClaimFact_AnyTime(f) ==
    /\ Pay(SubmitterEntitlement(fact[f]))
    /\ fact' = Close(fact, f)
    /\ UNCHANGED <<now, oracle, proposer, fact_vote, ai_claim, market,
                   resolved_question, usdc, oracle_open, governance_set, donated>>

\* The submitter comes last: voters are paid by what the fact turned out to be.
VotersPaid(f) == fact[f].approve_stake = 0 /\ fact[f].duplicate_stake = 0

ClaimFact(f) ==
    /\ VotersPaid(f)
    /\ Pay(SubmitterEntitlement(fact[f]))
    /\ fact' = Close(fact, f)
    /\ UNCHANGED <<now, oracle, proposer, fact_vote, ai_claim, market,
                   resolved_question, usdc, oracle_open, governance_set, donated>>

WithoutVote(account, vote) ==
    IF vote.kind = "duplicate"
    THEN [account EXCEPT !.duplicate_stake = SaturatingSub(@, vote.stake)]
    ELSE [account EXCEPT !.approve_stake = SaturatingSub(@, vote.stake)]

ClaimFactVote(f, v) ==
    /\ f \in DOMAIN fact
    /\ Pay(VoterEntitlement(fact_vote[<<f, v>>], fact[f]))
    /\ fact_vote' = Close(fact_vote, <<f, v>>)
    /\ fact' = [fact EXCEPT ![f] = WithoutVote(@, fact_vote[<<f, v>>])]
    /\ UNCHANGED <<now, oracle, proposer, ai_claim, market,
                   resolved_question, usdc, oracle_open, governance_set, donated>>

CloseAiClaim(p) ==
    /\ oracle_open
    /\ Terminal
    /\ ai_claim' = Close(ai_claim, p)
    /\ UNCHANGED <<now, oracle, proposer, fact, fact_vote, market,
                   resolved_question, kass, usdc, settlementVars>>

\* Anybody may send USDC to a challenge's escrow at any time.  Opening and settling
\* move fixed amounts, so it stays there and is first noticed when close_market
\* looks at the balance; it is followed from the verdict on.
DonateUsdc(p) ==
    /\ Terminal
    /\ p \notin donated /\ Cardinality(donated) < MaxDonations
    /\ donated' = donated \cup {p}
    /\ UNCHANGED <<vars, oracle_open, governance_set, payouts>>

EscrowEmpty(p) == usdc.escrow[p] = 0 /\ p \notin donated

CanCloseChallenge(p) ==
    oracle_open /\ Terminal /\ market[p].settled /\ EscrowEmpty(p)

CloseChallengeMarket(p) ==
    /\ CanCloseChallenge(p)
    /\ market' = Close(market, p)
    /\ UNCHANGED <<now, oracle, proposer, fact, fact_vote, ai_claim,
                   resolved_question, kass, usdc, settlementVars>>

SweepDue == now >= oracle.phase_ends_at + SWEEP_GRACE

CanSweep == oracle_open /\ Terminal /\ SweepDue /\ governance_set

SweepOracle ==
    /\ CanSweep
    /\ oracle_open' = FALSE
    /\ kass' = [kass EXCEPT !.stake_vault = 0]
    /\ payouts' = [payouts EXCEPT !.treasury = @ + kass.stake_vault]
    /\ UNCHANGED <<now, oracle, proposer, fact, fact_vote, ai_claim, market,
                   resolved_question, usdc, governance_set, donated>>

\* set_governance, once.
SetGovernance ==
    /\ ~governance_set
    /\ governance_set' = TRUE
    /\ UNCHANGED <<vars, oracle_open, payouts, donated>>

GraceTick ==
    /\ Terminal
    /\ ~SweepDue
    /\ now' = now + 1
    /\ UNCHANGED <<oracle, proposer, fact, fact_vote, ai_claim, market,
                   resolved_question, kass, usdc, settlementVars>>

Claim ==
    \/ \E p \in Proposed : ClaimProposer(p)
    \/ \E f \in DOMAIN fact : ClaimFact(f)
    \/ \E f \in Facts, v \in Voters :
            <<f, v>> \in DOMAIN fact_vote /\ ClaimFactVote(f, v)

\* open_challenge reads the price in the DAO's pool, resolve_deadend wants the
\* DAO's signature.
NeedsGovernance ==
    \/ DOMAIN market' # DOMAIN market
    \/ oracle.phase = "InvalidDeadend" /\ oracle'.phase = "Resolved"

DisputeStep ==
    /\ oracle_open
    /\ Next
    /\ NeedsGovernance => governance_set
    /\ UNCHANGED settlementVars

SettlementNext ==
    \/ DisputeStep
    \/ Claim
    \/ \E p \in DOMAIN ai_claim : CloseAiClaim(p)
    \/ \E p \in DOMAIN market : CloseChallengeMarket(p) \/ DonateUsdc(p)
    \/ SweepOracle
    \/ SetGovernance
    \/ GraceTick

SettlementSpec == SettlementInit /\ [][SettlementNext]_allVars

-----------------------------------------------------------------------------
\* Properties

\* What the accounts that are still open may claim.
Entitled ==
    SumFunction([p \in Proposed |-> ProposerEntitlement(proposer[p])])
    + SumFunction([f \in DOMAIN fact |-> SubmitterEntitlement(fact[f])])
    + SumFunction([fv \in { fv \in DOMAIN fact_vote : fv[1] \in DOMAIN fact } |->
                       VoterEntitlement(fact_vote[fv], fact[fv[1]])])

\* The conservation contract of claims/mod.rs: whoever claims first, the vault
\* pays everybody else in full, through all the rounding of slashes and
\* rewards and through a dead end's burn and its later resolution by the DAO.
VaultCoversClaims ==
    Terminal /\ oracle_open => Entitled <= kass.stake_vault

\* What the claims cannot reach is rounding dust: less than a unit for every
\* account that ever shared a pool, and one for its split in two.
DustBound ==
    1 + Cardinality(Proposers) + Cardinality(Facts) * (1 + Cardinality(Voters))

NoPoolStranded ==
    Terminal /\ oracle_open => kass.stake_vault - Entitled <= DustBound

\* No claim strands a voter by closing the fact that its entitlement depends
\* on (claims/mod.rs).  claim_fact waits by the stake totals of the fact, so a
\* vote of no stake, legal where min_stake is 0, does not hold it open.
VotersKeepTheirFact ==
    \A fv \in DOMAIN fact_vote :
        fact_vote[fv].stake > 0 => fv[1] \in DOMAIN fact

\* Whoever is owed something gets it, in any order of claims, and nothing is
\* left over.
ClaimsArePaid == VaultCoversClaims /\ NoPoolStranded /\ VotersKeepTheirFact

-----------------------------------------------------------------------------
\* What an oracle promises

VerdictStatus ==
    IF ~oracle_open THEN "Swept"
    ELSE IF Terminal THEN oracle.phase
    ELSE "Pending"

\* A reader may look at resolved_option in phase Resolved only.
VerdictOption ==
    IF VerdictStatus = "Resolved" THEN oracle.resolved_option
    ELSE CLAIM_OPTION_NONE

Promise == INSTANCE Verdict
    WITH verdict <- [status |-> VerdictStatus, option |-> VerdictOption]

\* The whole life of an oracle, through every dispute, batch and settlement,
\* shows its readers one verdict at most: no instruction, sent early, late or
\* twice, takes a verdict back or changes it.
ImplementsVerdict == Promise!Spec
=============================================================================
