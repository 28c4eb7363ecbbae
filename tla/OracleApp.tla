------------------------------ MODULE OracleApp -------------------------------
(* The oracle page of the web app over Settlement: what it reads, which       *)
(* control it offers in which phase, and what the transaction behind the      *)
(* control needs besides the program's consent.                               *)
(*                                                                            *)
(* As in MarketApp the page keeps no state that outlives a click.  It sends   *)
(* whole sets where the program takes batches, in transactions of limited     *)
(* size, and it needs the oracle's nonce, which the chain does not store.     *)
(* Left out: trading in the pools of a challenge, wallet balances, and the    *)
(* composition of a challenge's market, which is in ActionSequence.           *)
EXTENDS Settlement

CONSTANTS
    MAX_LEGACY_TAIL,    \* accounts beyond which the page hides a full-set crank
    PACKET_TAIL         \* accounts that fit a transaction

ASSUME TailAssumption ==
    /\ MAX_LEGACY_TAIL \in Nat /\ PACKET_TAIL \in Nat
    /\ MAX_LEGACY_TAIL <= PACKET_TAIL

-----------------------------------------------------------------------------
\* What the page reads

\* Of the challenge markets the first that the node happens to return.
fetchOracleDetail ==
    IF DOMAIN market = {} THEN {{}} ELSE { {p} : p \in DOMAIN market }

\* A nonce is remembered by the browser that created the oracle, or found by
\* search if it is small.
oracleNonce == BOOLEAN

Pages == [market : fetchOracleDetail, nonce : oracleNonce]

tradeOpen == oracle.phase = "Challenge"

\* Mutant: a dead end pays nobody out.
settleOpen_ResolvedOnly == oracle.phase = "Resolved"

settleOpen == oracle.phase \in TerminalPhases

-----------------------------------------------------------------------------
\* The cranks.  A control, here and below, is the condition under which the page
\* offers it and the program accepts what it sends.

requireTail(tail) == tail # {} /\ Cardinality(tail) <= PACKET_TAIL

proposersNearCap == Cardinality(Proposed) > MAX_LEGACY_TAIL

buildFinalizeProposals == requireTail(Proposed) /\ CanFinalizeProposals

\* Mutant: the tail is that of the facts, also where there are none.
buildFinalizeFacts_FactsOnly(page) ==
    page.nonce /\ requireTail(DOMAIN fact) /\ CanSettleFacts(DOMAIN fact)

\* All the facts, or all the proposers of a dispute without facts.
buildFinalizeFacts(page) ==
    /\ page.nonce
    /\ \/ requireTail(DOMAIN fact) /\ CanSettleFacts(DOMAIN fact)
       \/ DOMAIN fact = {} /\ requireTail(Proposed) /\ CanSlashForNoFacts(Proposed)

buildFinalizeAiClaims == requireTail(Proposed) /\ CanFinalizeAiClaims(Proposed)

buildFinalizeOracle(page) == page.nonce /\ requireTail(Proposed) /\ CanFinalizeOracle

\* The settlement opens with the market's window, for the market on the page.
buildSettleFromMarket(p) == ~market[p].settled /\ CanSettleMarket(p)

SettleButton(page) ==
    \E p \in page.market :
        /\ tradeOpen
        /\ now >= market[p].twap_end
        /\ p \in Proposed
        /\ page.nonce
        /\ buildSettleFromMarket(p)

\* The control of the phase; beyond the cap a note stands in its place.
FinalizeControl(page) ==
    \/ oracle.phase = "Proposal" /\ ~proposersNearCap /\ buildFinalizeProposals
    \/ oracle.phase = "FactProposal" /\ CanAdvancePhase
    \/ oracle.phase = "FactVoting" /\ buildFinalizeFacts(page)
    \/ oracle.phase = "AiClaim" /\ buildFinalizeAiClaims
    \/ oracle.phase = "Challenge" /\ ~proposersNearCap /\ buildFinalizeOracle(page)

AppCrank(page) == FinalizeControl(page) \/ SettleButton(page)

-----------------------------------------------------------------------------
\* The parties' forms: an amount must be positive, an option one of the
\* oracle's.

\* Mutant: the form closes with the window, also to the first proposer.
ProposeForm_InWindow(p, bond, option) ==
    oracle.phase = "Proposal" /\ BeforeEnd /\ bond > 0 /\ Propose(p, bond, option)

ProposeForm(p, bond, option) ==
    oracle.phase = "Proposal" /\ bond > 0 /\ Propose(p, bond, option)

SubmitFactForm(f, stake) ==
    oracle.phase = "FactProposal" /\ stake > 0 /\ SubmitFact(f, stake)

\* One on every fact's card.
VoteControl(f, v, kind, stake) ==
    oracle.phase = "FactVoting" /\ stake > 0 /\ VoteFact(f, v, kind, stake)

SubmitAiClaimForm(p, option) == oracle.phase = "AiClaim" /\ SubmitAiClaim(p, option)

\* A challenge is composed on the page as long as it shows no market.
ChallengeControl(page, p, question, price) ==
    tradeOpen /\ page.market = {} /\ page.nonce /\ OpenChallenge(p, question, price)

AppParty(page) ==
    \/ \E p \in Proposers, bond \in Bonds, option \in Options :
            ProposeForm(p, bond, option)
    \/ \E f \in Facts, stake \in Stakes : SubmitFactForm(f, stake)
    \/ \E f \in DOMAIN fact, v \in Voters, kind \in {"approve", "duplicate"},
           stake \in Stakes : VoteControl(f, v, kind, stake)
    \/ \E p \in Proposed, option \in Options : SubmitAiClaimForm(p, option)
    \/ \E p \in DOMAIN ai_claim, price \in Prices :
            \E question \in QuestionsFor[p] : ChallengeControl(page, p, question, price)

-----------------------------------------------------------------------------
\* The cards of a finished oracle, each to its owner, and the sweep to anybody

ProposerCard(page, p) == settleOpen /\ page.nonce /\ CanPay(ProposerEntitlement(proposer[p]))

FactCard(page, f) ==
    /\ settleOpen
    /\ page.nonce
    /\ VotersPaid(f)
    /\ CanPay(SubmitterEntitlement(fact[f]))

\* Every wallet finds it on the card of the fact it voted on.
FactVoteClaim(page, f, v) ==
    /\ settleOpen
    /\ page.nonce
    /\ <<f, v>> \in DOMAIN fact_vote
    /\ f \in DOMAIN fact
    /\ CanPay(VoterEntitlement(fact_vote[<<f, v>>], fact[f]))

AiClaimCard(p) == settleOpen /\ oracle_open /\ Terminal

MarketCard(page, p) ==
    /\ p \in page.market
    /\ settleOpen
    /\ market[p].settled
    /\ page.nonce
    /\ CanCloseChallenge(p)

\* The control counts the grace from phase_ends_at as the program does, and
\* reads the DAO from the protocol.
SweepControl(page) ==
    /\ settleOpen
    /\ SweepDue
    /\ page.nonce
    /\ governance_set
    /\ CanSweep

-----------------------------------------------------------------------------
\* The lifecycle strip and the banner above it

\* Mutant: a dead end is no stage.
STAGES_NoDeadend ==
    <<{"Proposal"}, {"FactProposal"}, {"FactVoting"}, {"AiClaim"}, {"Challenge"},
      {"Resolved"}>>

STAGES ==
    <<{"Proposal"}, {"FactProposal"}, {"FactVoting"}, {"AiClaim"}, {"Challenge"},
      {"Resolved", "InvalidDeadend"}>>

\* The stages that the strip shows as reached.
phaseTimelineModel ==
    { i \in DOMAIN STAGES :
        \E j \in DOMAIN STAGES : i <= j /\ oracle.phase \in STAGES[j] }

verdictFor ==
    CASE oracle.phase = "Resolved" -> <<"resolved", oracle.resolved_option>>
      [] oracle.phase = "InvalidDeadend" -> <<"deadend">>
      [] OTHER -> <<"in-flight", oracle.phase>>

-----------------------------------------------------------------------------
\* Properties

\* Somebody began a batch: the page sends every account again, and the program
\* refuses those that are done.
BatchBegun ==
    \/ oracle.phase = "FactVoting"
         /\ (oracle.settled_count > 0 \/ \E p \in Proposed : proposer[p].slashed)
    \/ oracle.phase = "AiClaim" /\ oracle.ai_finalized_count > 0

\* The set that the phase's crank takes is too large for the page.
SetTooLarge ==
    \/ oracle.phase \in {"Proposal", "Challenge"} /\ proposersNearCap
    \/ Cardinality(Proposed) > PACKET_TAIL \/ Cardinality(DOMAIN fact) > PACKET_TAIL

NonceMissing(page) == oracle.phase \in {"FactVoting", "Challenge"} /\ ~page.nonce

\* A second challenge is open behind the one that the page shows.
MarketHidden(page) == ~(OpenMarkets \subseteq page.market)

\* A dispute never waits for an instruction that the page cannot send, but for
\* four things: the nonce of somebody else's oracle, more proposers than a
\* transaction holds, a batch that another tool began (finalize.ts says large
\* sets are chunked, which the page never does), and a second challenge.
AppKeepsUp ==
    oracle_open /\ ~Terminal =>
        \A page \in Pages :
            \/ NonceMissing(page) \/ SetTooLarge \/ BatchBegun \/ MarketHidden(page)
            \/ CanCrank => AppCrank(page)

NothingStaked == oracle'.total_oracle_stake = oracle.total_oracle_stake

\* Whatever move the program accepts from a party of a dispute, the first
\* proposal after the window included, the page offers it, but for a stake of
\* zero and a second challenge.
PartiesAreServed ==
    [][oracle_open /\ ~Terminal /\ PartyStep =>
        \/ oracle.phase \in {"Proposal", "FactProposal", "FactVoting"} /\ NothingStaked
        \/ tradeOpen /\ DOMAIN market # {}
        \/ \A page \in Pages : page.nonce => AppParty(page)]_allVars

\* On a finished oracle, dead ends included, every account that is still open
\* can be paid out or closed from the page at once, but for a fact that waits
\* for its voters, a vote whose fact is gone and a challenge to whose escrow a
\* stranger sent USDC (close_market.rs:107); so can the sweep once due.
PayoutsServed ==
    oracle_open /\ Terminal =>
        \A page \in Pages : page.nonce =>
            /\ \A p \in Proposed : ProposerCard(page, p)
            /\ \A f \in DOMAIN fact :
                fact[f].approve_stake + fact[f].duplicate_stake > 0
                    \/ FactCard(page, f)
            /\ \A fv \in DOMAIN fact_vote :
                fv[1] \in DOMAIN fact => FactVoteClaim(page, fv[1], fv[2])
            /\ \A p \in DOMAIN ai_claim : AiClaimCard(p)
            /\ \A p \in page.market : p \in donated \/ MarketCard(page, p)
            /\ SweepDue /\ governance_set => SweepControl(page)

\* A reader's page never takes back a stage it showed as reached, nor a verdict
\* it announced, unless the DAO decides a dead end; and what it announces is
\* what the oracle promises (Verdict).
PageStandsByItsWord ==
    [][/\ phaseTimelineModel \subseteq phaseTimelineModel'
       /\ verdictFor[1] = "resolved" => verdictFor' = verdictFor
       /\ verdictFor[1] = "deadend" => verdictFor'[1] \in {"deadend", "resolved"}]_allVars

\* The page keeps a dispute moving, serves its parties and its claimants, and
\* stands by what it showed: the four parts above, for every state and step.
PageServesEverybody ==
    [](AppKeepsUp /\ PayoutsServed) /\ PartiesAreServed /\ PageStandsByItsWord
=============================================================================
