--------------------------- MODULE SettlementProofs ---------------------------
(* Proofs about an oracle's whole life: that it keeps the promise of Verdict, *)
(* that claims, closures and the sweep leave all accounts well-formed, that   *)
(* the vault pays every claim, that an overdue dispute always has a step that *)
(* the program accepts, and that the app's oracle page keeps disputes moving, *)
(* serves parties and claimants, and stands by what it showed.                *)
EXTENDS OracleApp, DisputeProofs

-----------------------------------------------------------------------------
\* The verdict

\* The fields of the Oracle account that its readers look at.
Readable == {"phase", "resolved_option"} \subseteq DOMAIN oracle

\* What an instruction of the dispute does to them.
VerdictEffect ==
    \/ ~Terminal /\ ~Terminal'
    \/ ~Terminal /\ oracle'.phase = "InvalidDeadend"
    \/ /\ oracle.phase \in Phases \ {"Resolved"}
       /\ oracle'.phase = "Resolved"
       /\ oracle'.resolved_option \in Options

LEMMA PluralityIsAnOption ==
    ASSUME NEW claims, Plurality(claims) # CLAIM_OPTION_NONE
    PROVE  Plurality(claims) \in Options
BY DEF Plurality

LEMMA PartyEffect ==
    ASSUME Readable, PartyStep
    PROVE  Readable' /\ VerdictEffect
<1>1. ASSUME NEW p \in Proposers, NEW bond \in Bonds, NEW option \in Options,
             Propose(p, bond, option)
      PROVE  Readable' /\ VerdictEffect
    BY <1>1 DEF Propose, Readable, VerdictEffect, Terminal, TerminalPhases
<1>2. ASSUME NEW f \in Facts, NEW stake \in Stakes, SubmitFact(f, stake)
      PROVE  Readable' /\ VerdictEffect
    BY <1>2 DEF SubmitFact, Readable, VerdictEffect, Terminal, TerminalPhases
<1>3. ASSUME NEW f \in Facts, NEW v \in Voters, NEW kind \in {"approve", "duplicate"},
             NEW stake \in Stakes, VoteFact(f, v, kind, stake)
      PROVE  Readable' /\ VerdictEffect
    BY <1>3 DEF VoteFact, Readable, VerdictEffect, Terminal, TerminalPhases
<1>4. ASSUME NEW p \in Proposed, NEW option \in Options, SubmitAiClaim(p, option)
      PROVE  Readable' /\ VerdictEffect
    BY <1>4 DEF SubmitAiClaim, Readable, VerdictEffect, Terminal, TerminalPhases
<1>5. ASSUME NEW p \in DOMAIN ai_claim, NEW price \in Prices,
             NEW question \in QuestionsFor[p], OpenChallenge(p, question, price)
      PROVE  Readable' /\ VerdictEffect
    BY <1>5 DEF OpenChallenge, Readable, VerdictEffect, Terminal, TerminalPhases
<1>6. ASSUME NEW option \in Options, ResolveDeadend(option)
      PROVE  Readable' /\ VerdictEffect
    BY <1>6 DEF ResolveDeadend, Readable, VerdictEffect, Phases
<1> QED
    BY <1>1, <1>2, <1>3, <1>4, <1>5, <1>6 DEF PartyStep

LEMMA CrankEffect ==
    ASSUME Readable, CrankStep
    PROVE  Readable' /\ VerdictEffect
<1>1. ASSUME NEW option \in Options, FinalizeAgreedProposals(option)
      PROVE  Readable' /\ VerdictEffect
    BY <1>1 DEF FinalizeAgreedProposals, CanFinalizeAgreed, ProposalsClosed, Readable,
        VerdictEffect, Phases
<1>2. CASE FinalizeDisputedProposals
    BY <1>2
    DEF FinalizeDisputedProposals, CanFinalizeDisputed, ProposalsClosed, Readable,
        VerdictEffect,
        Terminal, TerminalPhases
<1>3. CASE AdvancePhase
    BY <1>3 DEF AdvancePhase, CanAdvancePhase, Readable, VerdictEffect, Terminal,
        TerminalPhases
<1>4. ASSUME NEW S \in SUBSET Proposed, SlashForNoFacts(S)
      PROVE  Readable' /\ VerdictEffect
    BY <1>4
    DEF SlashForNoFacts, CanSlashForNoFacts, PoolWithout, SurvivingWithout,
        FactVotingClosed, Readable, VerdictEffect, Terminal,
        TerminalPhases
<1>5. ASSUME NEW F \in SUBSET DOMAIN fact, SettleFacts(F)
      PROVE  Readable' /\ VerdictEffect
    BY <1>5
    DEF SettleFacts, CanSettleFacts, FactVotingClosed, Readable, VerdictEffect,
        Terminal, TerminalPhases
<1>6. ASSUME NEW S \in SUBSET Proposed, FinalizeAiClaims(S)
      PROVE  Readable' /\ VerdictEffect
    BY <1>6 DEF FinalizeAiClaims, CanFinalizeAiClaims, NoShowsIn, Readable,
        VerdictEffect, Terminal, TerminalPhases
<1>7. ASSUME NEW p \in DOMAIN market, SettleSuccessful(p) \/ SettleFailed(p)
      PROVE  Readable' /\ VerdictEffect
    BY <1>7
    DEF SettleSuccessful, CanSettleSuccessful, ToppedUp, SettleFailed,
        SettleableMarket, CloseMarket, Readable,
        VerdictEffect, Terminal, TerminalPhases
<1>8. CASE Resolve
    <2>1. Plurality(Claims) \in Options
        BY <1>8, PluralityIsAnOption DEF Resolve, CanResolve, BondsFor
    <2> QED
        BY <1>8, <2>1 DEF Resolve, CanResolve, BondsFor, ChallengesClosed, Readable,
            VerdictEffect, Phases
<1>9. CASE DeadEnd
    BY <1>9
    DEF DeadEnd, CanDeadEnd, ChallengesClosed, Readable, VerdictEffect, Terminal,
        TerminalPhases
<1> QED
    BY <1>1, <1>2, <1>3, <1>4, <1>5, <1>6, <1>7, <1>8, <1>9
    DEF CrankStep, FinalizeProposals, FinalizeFacts, FinalizeClaims, SettleMarket,
        SettleChallenge, FinalizeOracle

LEMMA DisputeEffect ==
    ASSUME Readable, Next
    PROVE  Readable' /\ VerdictEffect
<1>1. CASE Tick
    BY <1>1 DEF Tick, Readable, VerdictEffect, Terminal, TerminalPhases
<1> QED
    BY <1>1, PartyEffect, CrankEffect DEF Next

VerdictSeen == [status |-> VerdictStatus, option |-> VerdictOption]

\* The step of Verdict that each effect is.
LEMMA EffectKeepsPromise ==
    ASSUME VerdictEffect, oracle_open, oracle_open'
    PROVE  [Promise!Next]_VerdictSeen
<1>1. CASE ~Terminal /\ ~Terminal'
    BY <1>1 DEF VerdictSeen, VerdictStatus, VerdictOption
<1>2. CASE ~Terminal /\ oracle'.phase = "InvalidDeadend"
    <2>1. VerdictStatus = "Pending"
        BY <1>2 DEF VerdictStatus
    <2>2. VerdictStatus' = "InvalidDeadend" /\ VerdictOption' = CLAIM_OPTION_NONE
        BY <1>2 DEF VerdictStatus, VerdictOption, Terminal, TerminalPhases
    <2>3. Promise!DeadEnd
        BY <2>1, <2>2
        DEF Promise!DeadEnd, Promise!WithoutOption, Promise!CLAIM_OPTION_NONE,
            CLAIM_OPTION_NONE
    <2> QED
        BY <2>3 DEF Promise!Next, Promise!Finish
<1>3. CASE /\ oracle.phase \in Phases \ {"Resolved"}
           /\ oracle'.phase = "Resolved"
           /\ oracle'.resolved_option \in Options
    <2>1. /\ VerdictStatus' = "Resolved"
          /\ VerdictOption' = oracle'.resolved_option
          /\ VerdictOption' \in Options
        BY <1>3 DEF VerdictStatus, VerdictOption, Terminal, TerminalPhases
    <2>2. CASE oracle.phase = "InvalidDeadend"
        <3>1. VerdictStatus = "InvalidDeadend"
            BY <2>2 DEF VerdictStatus, Terminal, TerminalPhases
        <3>2. Promise!ResolveDeadend(VerdictOption')
            BY <2>1, <3>1 DEF Promise!ResolveDeadend
        <3> QED
            BY <2>1, <3>2 DEF Promise!Next, Promise!Options, Options
    <2>3. CASE oracle.phase # "InvalidDeadend"
        <3>1. VerdictStatus = "Pending"
            BY <1>3, <2>3 DEF VerdictStatus, Terminal, TerminalPhases, Phases
        <3>2. Promise!Decide(VerdictOption')
            BY <2>1, <3>1 DEF Promise!Decide
        <3> QED
            BY <2>1, <3>2 DEF Promise!Next, Promise!Finish, Promise!Options, Options
    <2> QED
        BY <2>2, <2>3
<1> QED
    BY <1>1, <1>2, <1>3 DEF VerdictEffect

LEMMA PromiseInit == SettlementInit => Readable /\ Promise!Init
<1> SUFFICES ASSUME SettlementInit PROVE Readable /\ Promise!Init
    OBVIOUS
<1>1. Readable /\ oracle.phase = "Proposal" /\ oracle_open
    BY DEF SettlementInit, Init, Readable
<1>2. VerdictStatus = "Pending" /\ VerdictOption = CLAIM_OPTION_NONE
    BY <1>1 DEF VerdictStatus, VerdictOption, Terminal, TerminalPhases
<1> QED
    BY <1>1, <1>2
    DEF Promise!Init, Promise!WithoutOption, Promise!CLAIM_OPTION_NONE,
        CLAIM_OPTION_NONE

\* Everything but the dispute and the sweep leaves the verdict alone.
LEMMA PromiseStep ==
    ASSUME Readable, [SettlementNext]_allVars
    PROVE  Readable' /\ [Promise!Next]_VerdictSeen
<1>1. UNCHANGED <<oracle, oracle_open>> => Readable' /\ [Promise!Next]_VerdictSeen
    BY DEF Readable, VerdictSeen, VerdictStatus, VerdictOption, Terminal
<1>2. CASE DisputeStep
    <2>1. Next /\ oracle_open /\ oracle_open'
        BY <1>2 DEF DisputeStep, settlementVars
    <2> QED
        BY <2>1, DisputeEffect, EffectKeepsPromise
<1>3. CASE SweepOracle
    <2>1. Readable' /\ VerdictStatus \in {"Resolved", "InvalidDeadend"}
        BY <1>3 DEF SweepOracle, CanSweep, Readable, VerdictStatus, Terminal,
            TerminalPhases
    <2>2. VerdictStatus' = "Swept" /\ VerdictOption' = CLAIM_OPTION_NONE
        BY <1>3 DEF SweepOracle, CanSweep, VerdictStatus, VerdictOption
    <2>3. Promise!Sweep
        BY <2>1, <2>2
        DEF Promise!Sweep, Promise!WithoutOption, Promise!CLAIM_OPTION_NONE,
            CLAIM_OPTION_NONE
    <2> QED
        BY <2>1, <2>3 DEF Promise!Next
<1>4. CASE \/ Claim \/ SetGovernance \/ GraceTick
           \/ \E p \in DOMAIN ai_claim : CloseAiClaim(p)
           \/ \E p \in DOMAIN market : CloseChallengeMarket(p) \/ DonateUsdc(p)
           \/ UNCHANGED allVars
    <2>1. UNCHANGED <<oracle, oracle_open>>
        BY <1>4
        DEF Claim, ClaimProposer, ClaimFact, VotersPaid, ClaimFactVote, SetGovernance,
            GraceTick,
            CloseAiClaim, CloseChallengeMarket, CanCloseChallenge, DonateUsdc, allVars,
            vars, settlementVars
    <2> QED
        BY <1>1, <2>1
<1> QED
    BY <1>2, <1>3, <1>4 DEF SettlementNext

\* Readers of an oracle see what Verdict allows: at most one verdict, which
\* stands until the account goes, for any number of parties and whatever order
\* instructions come in.
THEOREM PromiseKept == SettlementSpec => ImplementsVerdict
<1>1. SettlementInit => Readable /\ Promise!Init
    BY PromiseInit
<1>2. Readable /\ [SettlementNext]_allVars => Readable' /\ [Promise!Next]_VerdictSeen
    BY PromiseStep
<1> QED
    BY <1>1, <1>2, PTL DEF SettlementSpec, ImplementsVerdict, Promise!Spec, VerdictSeen

-----------------------------------------------------------------------------
\* Types

\* Claims and closures only run in a terminal phase, where no instruction needs
\* the links between accounts that they break.
SettleInv == SettlementTypeOK /\ (Terminal \/ TypeInv)

LEMMA CloseTypes ==
    ASSUME NEW f, NEW keys, NEW type, NEW k, AccountsOf(f, keys, type)
    PROVE  AccountsOf(Close(f, k), keys, type)
BY DEF AccountsOf, Close

LEMMA PayTypes ==
    ASSUME SettlementTypeOK, NEW amount, Pay(amount)
    PROVE  kass' \in KassLedger /\ payouts' \in [stakers : Nat, treasury : Nat]
<1>1. kass \in KassLedger /\ payouts \in [stakers : Nat, treasury : Nat]
    BY DEF SettlementTypeOK, TypeOK
<1>2. amount \in Nat /\ amount <= kass.stake_vault
    BY U64MaxAssumption DEF Pay, CanPay, U64
<1>3. kass' \in KassLedger
    <2>1. /\ kass.stake_vault \in U64 /\ kass.conditional \in [Questions -> Nat]
          /\ kass.burned \in Nat /\ kass.challengers \in Nat
        BY <1>1, KassTypes
    <2>2. /\ kass'.stake_vault = kass.stake_vault - amount
          /\ kass'.conditional = kass.conditional
          /\ kass'.burned = kass.burned
          /\ kass'.challengers = kass.challengers
          /\ kass' = KassFields(kass')
        BY <1>1 DEF Pay, CanPay, KassLedger, KassFields
    <2>3. kass'.stake_vault \in U64
        BY <1>2, <2>1, <2>2, U64MaxAssumption DEF U64
    <2> QED
        BY <2>1, <2>2, <2>3, KassRecord
<1>4. payouts' \in [stakers : Nat, treasury : Nat]
    BY <1>1, <1>2 DEF Pay, CanPay
<1> QED
    BY <1>3, <1>4

LEMMA WithoutVoteTypes ==
    ASSUME NEW account \in FactAccount, NEW vote \in FactVoteAccount
    PROVE  WithoutVote(account, vote) \in FactAccount
<1> DEFINE b == WithoutVote(account, vote)
<1>1. b = FactFields(b)
    BY DEF WithoutVote, FactFields, FactAccount
<1>2. FactFieldsTyped(account) /\ vote.stake \in U64
    BY FactTypes DEF FactVoteAccount
<1>3. /\ SaturatingSub(account.approve_stake, vote.stake) \in U64
      /\ SaturatingSub(account.duplicate_stake, vote.stake) \in U64
    BY <1>2, U64MaxAssumption DEF FactFieldsTyped, SaturatingSub, U64
<1>4. FactFieldsTyped(b)
    BY <1>2, <1>3 DEF WithoutVote, FactFieldsTyped, FactAccount
<1> HIDE DEF b
<1> QED
    BY <1>1, <1>4, FactRecord DEF b

LEMMA ClaimProposerStep ==
    ASSUME SettlementTypeOK, NEW p \in Proposed, ClaimProposer(p)
    PROVE  SettlementTypeOK'
<1>1. kass' \in KassLedger /\ payouts' \in [stakers : Nat, treasury : Nat]
    BY PayTypes DEF ClaimProposer
<1>2. AccountsOf(proposer', Proposers, ProposerAccount)
    BY CloseTypes DEF ClaimProposer, SettlementTypeOK, TypeOK
<1> QED
    BY <1>1, <1>2 DEF ClaimProposer, SettlementTypeOK, TypeOK

LEMMA ClaimFactStep ==
    ASSUME SettlementTypeOK, NEW f \in DOMAIN fact, ClaimFact(f)
    PROVE  SettlementTypeOK'
<1>1. kass' \in KassLedger /\ payouts' \in [stakers : Nat, treasury : Nat]
    BY PayTypes DEF ClaimFact, VotersPaid
<1>2. AccountsOf(fact', Facts, FactAccount)
    BY CloseTypes DEF ClaimFact, VotersPaid, SettlementTypeOK, TypeOK
<1> QED
    BY <1>1, <1>2 DEF ClaimFact, VotersPaid, SettlementTypeOK, TypeOK

LEMMA ClaimFactVoteStep ==
    ASSUME SettlementTypeOK, NEW f, NEW v, <<f, v>> \in DOMAIN fact_vote,
           ClaimFactVote(f, v)
    PROVE  SettlementTypeOK'
<1>1. kass' \in KassLedger /\ payouts' \in [stakers : Nat, treasury : Nat]
    BY PayTypes DEF ClaimFactVote
<1>2. AccountsOf(fact_vote', Facts \X Voters, FactVoteAccount)
    BY CloseTypes DEF ClaimFactVote, SettlementTypeOK, TypeOK
<1>3. AccountsOf(fact', Facts, FactAccount)
    <2>1. f \in DOMAIN fact /\ AccountsOf(fact, Facts, FactAccount)
        BY DEF ClaimFactVote, SettlementTypeOK, TypeOK
    <2>2. fact[f] \in FactAccount /\ fact_vote[<<f, v>>] \in FactVoteAccount
        BY <2>1 DEF SettlementTypeOK, TypeOK, AccountsOf
    <2> DEFINE b == WithoutVote(fact[f], fact_vote[<<f, v>>])
    <2>3. b \in FactAccount
        BY <2>2, WithoutVoteTypes
    <2>4. fact' = [fact EXCEPT ![f] = b]
        BY DEF ClaimFactVote
    <2> HIDE DEF b
    <2> QED
        BY <2>1, <2>3, <2>4 DEF AccountsOf
<1> QED
    BY <1>1, <1>2, <1>3 DEF ClaimFactVote, SettlementTypeOK, TypeOK

LEMMA ClosureStep ==
    ASSUME SettlementTypeOK,
           \/ \E p \in DOMAIN ai_claim : CloseAiClaim(p)
           \/ \E p \in DOMAIN market : CloseChallengeMarket(p) \/ DonateUsdc(p)
    PROVE  SettlementTypeOK'
<1>1. ASSUME NEW p \in DOMAIN ai_claim, CloseAiClaim(p) PROVE SettlementTypeOK'
    <2>1. AccountsOf(ai_claim', Proposers, AiClaimAccount)
        BY <1>1, CloseTypes DEF CloseAiClaim, SettlementTypeOK, TypeOK
    <2> QED
        BY <1>1, <2>1 DEF CloseAiClaim, settlementVars, SettlementTypeOK, TypeOK
<1>2. ASSUME NEW p \in DOMAIN market, CloseChallengeMarket(p) PROVE SettlementTypeOK'
    <2>1. AccountsOf(market', Proposers, MarketAccount)
        BY <1>2, CloseTypes DEF CloseChallengeMarket, CanCloseChallenge,
            SettlementTypeOK, TypeOK
    <2> QED
        BY <1>2, <2>1 DEF CloseChallengeMarket, CanCloseChallenge, settlementVars,
            SettlementTypeOK, TypeOK
<1>3. ASSUME NEW p \in DOMAIN market, DonateUsdc(p) PROVE SettlementTypeOK'
    <2>1. p \in Proposers
        BY DEF SettlementTypeOK, TypeOK, AccountsOf
    <2>2. donated' \subseteq Proposers
        BY <1>3, <2>1 DEF DonateUsdc, SettlementTypeOK
    <2> QED
        BY <1>3, <2>2 DEF DonateUsdc, vars, SettlementTypeOK, TypeOK
<1> QED
    BY <1>1, <1>2, <1>3

LEMMA SweepStep ==
    ASSUME SettlementTypeOK, SweepOracle
    PROVE  SettlementTypeOK'
<1>1. kass \in KassLedger /\ payouts \in [stakers : Nat, treasury : Nat]
    BY DEF SettlementTypeOK, TypeOK
<1>2. kass.stake_vault \in Nat
    BY <1>1, KassTypes, U64MaxAssumption DEF U64
<1>3. kass' \in KassLedger
    BY <1>1, U64MaxAssumption DEF SweepOracle, CanSweep, KassLedger, U64
<1>4. payouts' \in [stakers : Nat, treasury : Nat]
    BY <1>1, <1>2 DEF SweepOracle, CanSweep
<1> QED
    BY <1>3, <1>4 DEF SweepOracle, CanSweep, SettlementTypeOK, TypeOK

\* In a terminal phase the only step of the dispute is the DAO's.
LEMMA TerminalStep ==
    ASSUME Terminal, Next
    PROVE  \E option \in Options : ResolveDeadend(option)
<1>1. ~ (FinalizeProposals \/ AdvancePhase \/ FinalizeFacts \/ FinalizeClaims)
    BY DEF Terminal, TerminalPhases, FinalizeProposals, FinalizeAgreedProposals,
        CanFinalizeAgreed,
           FinalizeDisputedProposals, CanFinalizeDisputed, ProposalsClosed,
           AdvancePhase, CanAdvancePhase, FinalizeFacts,
           SlashForNoFacts, CanSlashForNoFacts, PoolWithout, SurvivingWithout,
           SettleFacts, CanSettleFacts, FactVotingClosed, FinalizeClaims,
           FinalizeAiClaims, CanFinalizeAiClaims, NoShowsIn
<1>2. ~ FinalizeOracle /\ ~ Tick
    BY DEF Terminal, TerminalPhases, FinalizeOracle, Resolve, CanResolve, BondsFor,
        DeadEnd, CanDeadEnd, ChallengesClosed,
           Tick
<1>3. ASSUME NEW p \in DOMAIN market, SettleMarket(p)
      PROVE  FALSE
    BY <1>3 DEF Terminal, TerminalPhases, SettleMarket, SettleChallenge,
                SettleSuccessful, CanSettleSuccessful, ToppedUp, SettleFailed,
                SettleableMarket
<1>4. PartyStep
    BY <1>1, <1>2, <1>3 DEF Next, CrankStep
<1>5. oracle.phase \in {"Resolved", "InvalidDeadend"}
    BY DEF Terminal, TerminalPhases
<1>6. ASSUME NEW p \in Proposers, NEW bond \in Bonds, NEW option \in Options,
             Propose(p, bond, option)
      PROVE  FALSE
    BY <1>5, <1>6 DEF Propose
<1>7. ASSUME NEW f \in Facts, NEW stake \in Stakes,
             \/ SubmitFact(f, stake)
             \/ \E v \in Voters, kind \in {"approve", "duplicate"} :
                    VoteFact(f, v, kind, stake)
      PROVE  FALSE
    BY <1>5, <1>7 DEF SubmitFact, VoteFact
<1>8. ASSUME NEW p, \/ \E option \in Options : SubmitAiClaim(p, option)
                    \/ \E price \in Prices, question \in QuestionsFor[p] :
                          OpenChallenge(p, question, price)
      PROVE  FALSE
    BY <1>5, <1>8 DEF SubmitAiClaim, OpenChallenge
<1> QED
    BY <1>4, <1>6, <1>7, <1>8 DEF PartyStep

LEMMA DisputeStepTypes ==
    ASSUME SettleInv, DisputeStep
    PROVE  SettleInv'
<1>1. Next /\ UNCHANGED settlementVars /\ SettlementTypeOK /\ TypeOK
    BY DEF DisputeStep, SettleInv, SettlementTypeOK
<1>2. TypeOK' => SettlementTypeOK'
    BY <1>1 DEF SettlementTypeOK, settlementVars
<1>3. CASE Terminal
    <2>1. PICK option \in Options : ResolveDeadend(option)
        BY <1>1, <1>3, TerminalStep
    <2>2. TypeOK'
        BY <1>1, <2>1, ResolveDeadendTypes
    <2>3. Terminal'
        BY <1>1, <2>1 DEF ResolveDeadend, Terminal, TerminalPhases, TypeOK,
            OracleAccount
    <2> QED
        BY <1>2, <2>2, <2>3 DEF SettleInv
<1>4. CASE TypeInv
    <2>1. TypeInv'
        BY <1>1, <1>4, TypeInvStep
    <2>2. TypeOK'
        BY <2>1 DEF TypeInv
    <2> QED
        BY <1>2, <2>1, <2>2 DEF SettleInv
<1> QED
    BY <1>3, <1>4 DEF SettleInv

LEMMA SettleInvInit == SettlementInit => SettleInv
<1> SUFFICES ASSUME SettlementInit PROVE SettleInv
    OBVIOUS
<1>1. TypeInv /\ TypeOK
    BY TypeInvInit DEF SettlementInit, TypeInv
<1> QED
    BY <1>1 DEF SettlementInit, SettleInv, SettlementTypeOK

LEMMA SettleInvStep == SettleInv /\ [SettlementNext]_allVars => SettleInv'
<1> SUFFICES ASSUME SettleInv, [SettlementNext]_allVars PROVE SettleInv'
    OBVIOUS
<1>1. SettlementTypeOK /\ TypeOK
    BY DEF SettleInv, SettlementTypeOK
<1>2. CASE DisputeStep
    BY <1>2, DisputeStepTypes
<1>3. CASE Claim
    <2>1. SettlementTypeOK'
        BY <1>1, <1>3, ClaimProposerStep, ClaimFactStep, ClaimFactVoteStep DEF Claim
    <2>2. Terminal'
        BY <1>3 DEF Claim, ClaimProposer, ClaimFact, VotersPaid, ClaimFactVote, Pay,
            CanPay, Terminal
    <2> QED
        BY <2>1, <2>2 DEF SettleInv
<1>4. CASE \/ \E p \in DOMAIN ai_claim : CloseAiClaim(p)
           \/ \E p \in DOMAIN market : CloseChallengeMarket(p) \/ DonateUsdc(p)
    <2>1. Terminal'
        BY <1>4 DEF CloseAiClaim, CloseChallengeMarket, CanCloseChallenge, DonateUsdc,
            vars, Terminal
    <2> QED
        BY <1>1, <1>4, <2>1, ClosureStep DEF SettleInv
<1>5. CASE SweepOracle
    <2>1. Terminal'
        BY <1>5 DEF SweepOracle, CanSweep, Terminal
    <2> QED
        BY <1>1, <1>5, <2>1, SweepStep DEF SettleInv
<1>6. CASE SetGovernance \/ UNCHANGED allVars
    <2>1. UNCHANGED <<vars, oracle_open, payouts, donated>> /\ governance_set' \in BOOLEAN
        BY <1>1, <1>6 DEF SetGovernance, allVars, settlementVars, vars, SettlementTypeOK
    <2>2. SettlementTypeOK'
        BY <1>1, <2>1 DEF vars, SettlementTypeOK, TypeOK
    <2>3. Terminal' = Terminal
        BY <2>1 DEF vars, Terminal
    <2>4. CASE Terminal
        BY <2>2, <2>3, <2>4 DEF SettleInv
    <2>5. CASE TypeInv
        <3>1. TypeInv'
            BY <2>1, <2>5, TypeInvStep
        <3> QED
            BY <2>2, <3>1 DEF SettleInv
    <2> QED
        BY <2>4, <2>5 DEF SettleInv
<1>7. CASE GraceTick
    <2>1. SettlementTypeOK'
        BY <1>1, <1>7 DEF GraceTick, settlementVars, SettlementTypeOK, TypeOK
    <2>2. Terminal'
        BY <1>7 DEF GraceTick, Terminal
    <2> QED
        BY <2>1, <2>2 DEF SettleInv
<1> QED
    BY <1>2, <1>3, <1>4, <1>5, <1>6, <1>7 DEF SettlementNext

\* Through claims, closures, the sweep and the hand-over no account loses its
\* shape and no balance leaves u64 or falls below zero.
THEOREM SettlementTypeCorrect == SettlementSpec => []SettlementTypeOK
<1>1. SettleInv => SettlementTypeOK
    BY DEF SettleInv
<1> QED
    BY <1>1, SettleInvInit, SettleInvStep, PTL DEF SettlementSpec

-----------------------------------------------------------------------------
\* The stakes behind a verdict

\* The stake of the votes of one kind, as the fact counts it and as the votes
\* themselves add up.
Tally(account, kind) ==
    IF kind = "approve" THEN account.approve_stake ELSE account.duplicate_stake

Kinds == {"approve", "duplicate"}
VotesOn(f, kind) ==
    { fv \in DOMAIN fact_vote : fv[1] = f /\ fact_vote[fv].kind = kind }

StakeBy == [fv \in DOMAIN fact_vote |-> fact_vote[fv].stake]
BondBy == [p \in Proposed |-> proposer[p].bond]
HeldBy == [f \in DOMAIN fact |->
              fact[f].stake + fact[f].approve_stake + fact[f].duplicate_stake]
ApprovedBy == [f \in DOMAIN fact |->
                  IF fact[f].agreed THEN fact[f].stake + fact[f].approve_stake ELSE 0]

VotesTallied ==
    \A f \in DOMAIN fact, kind \in Kinds :
        Tally(fact[f], kind) = SumFunctionOnSet(StakeBy, VotesOn(f, kind))

VotesOnFacts == \A fv \in DOMAIN fact_vote : fv[1] \in DOMAIN fact

\* The totals of the Oracle account are those of the accounts.
TotalsMatch ==
    /\ oracle.total_oracle_stake = SumFunction(BondBy) + SumFunction(HeldBy)
    /\ oracle.total_approved_fact_stake = SumFunction(ApprovedBy)

\* A verdict comes before any fact, or after all of them are settled.
FactsByPhase ==
    /\ oracle.phase = "Proposal" =>
          /\ DOMAIN fact = {}
          /\ \A p \in Proposed : NoShow(proposer[p]) /\ ~proposer[p].disqualified
    /\ oracle.phase \notin {"Proposal", "FactProposal", "FactVoting"} =>
          Settled = DOMAIN fact

\* Who shares the proposers' part of the reward.
Correct == { p \in Survivors : BackedResolved(proposer[p]) }

\* Slashes and emission are the reward of a verdict, or burned.
PoolsByPhase ==
    /\ ~Terminal => oracle.reward_pool = 0 /\ kass.burned = 0
    /\ Terminal => oracle.reward_pool + kass.burned = oracle.bond_pool + RewardEmission
    /\ oracle.phase = "InvalidDeadend" => oracle.reward_pool = 0
    /\ oracle.reward_pool # 0 =>
          /\ oracle.total_correct_proposer_stake = BondsOf(Correct)
          /\ Correct # {}

\* No bond that may be proposed is empty.
BondsPositive == \A bond \in Bonds : bond >= MinStake => bond > 0
BondsStand == BondsPositive => \A p \in Proposed : proposer[p].bond > 0

StakesInv ==
    /\ VotesTallied
    /\ VotesOnFacts
    /\ TotalsMatch
    /\ FactsByPhase
    /\ PoolsByPhase
    /\ BondsStand

\* What every claim keeps.
ClaimsInv ==
    /\ VotesTallied
    /\ VotersKeepTheirFact
    /\ oracle.phase = "InvalidDeadend" => oracle.reward_pool = 0
    /\ oracle_open => /\ Entitled <= kass.stake_vault
                      /\ BondsPositive => kass.stake_vault - Entitled <= DustBound

LifeInv ==
    /\ SettleInv
    /\ ~Terminal => BooksInv /\ StakesInv /\ oracle_open
    /\ Terminal => ClaimsInv

-----------------------------------------------------------------------------
\* Sums over the accounts

FactStakeBy == [f \in DOMAIN fact |-> fact[f].stake]
TallyBy(kind) == [f \in DOMAIN fact |-> Tally(fact[f], kind)]

ApproversOf(D) ==
    { fv \in DOMAIN fact_vote : fact_vote[fv].kind = "approve" /\ fv[1] \in D }
AgreedFacts == { f \in DOMAIN fact : fact[f].agreed }

LEMMA FiniteVotes ==
    ASSUME TypeOK
    PROVE  /\ IsFiniteSet(DOMAIN fact_vote)
           /\ Cardinality(DOMAIN fact_vote) \in Nat
           /\ Cardinality(Facts) \in Nat /\ Cardinality(Voters) \in Nat
           /\ Cardinality(DOMAIN fact_vote) <= Cardinality(Facts) * Cardinality(Voters)
           /\ Cardinality(DOMAIN fact) \in Nat
           /\ Cardinality(DOMAIN fact) <= Cardinality(Facts)
           /\ Cardinality(Proposed) \in Nat /\ Cardinality(Proposers) \in Nat
           /\ Cardinality(Proposed) <= Cardinality(Proposers)
<1>1. /\ IsFiniteSet(Facts) /\ IsFiniteSet(Voters) /\ IsFiniteSet(Proposers)
      /\ DOMAIN fact_vote \subseteq Facts \X Voters
      /\ DOMAIN fact \subseteq Facts /\ Proposed \subseteq Proposers
    BY DisputeAssumption DEF TypeOK, AccountsOf, Proposed
<1>2. /\ IsFiniteSet(Facts \X Voters)
      /\ Cardinality(Facts \X Voters) = Cardinality(Facts) * Cardinality(Voters)
    BY <1>1, FS_Product
<1>3. /\ IsFiniteSet(DOMAIN fact_vote)
      /\ Cardinality(DOMAIN fact_vote) <= Cardinality(Facts \X Voters)
      /\ Cardinality(DOMAIN fact) <= Cardinality(Facts)
      /\ Cardinality(Proposed) <= Cardinality(Proposers)
    BY <1>1, <1>2, FS_Subset
<1> QED
    BY <1>1, <1>2, <1>3, FiniteAccounts, FS_CardinalityType

LEMMA AccountNats ==
    ASSUME TypeOK
    PROVE  /\ \A p \in Proposed : /\ proposer[p].bond \in Nat
                                  /\ proposer[p].slashed_amount \in Nat
           /\ \A f \in DOMAIN fact : /\ fact[f].stake \in Nat
                                     /\ fact[f].approve_stake \in Nat
                                     /\ fact[f].duplicate_stake \in Nat
           /\ \A fv \in DOMAIN fact_vote : /\ fact_vote[fv].stake \in Nat
                                           /\ fact_vote[fv].kind \in Kinds
BY U64MaxAssumption
DEF TypeOK, AccountsOf, Proposed, ProposerAccount, FactAccount, FactVoteAccount, U64,
    Kinds

LEMMA StakeSums ==
    ASSUME TypeOK
    PROVE  /\ NatOn(StakeBy, DOMAIN fact_vote) /\ IntOn(StakeBy, DOMAIN fact_vote)
           /\ NatOn(BondBy, Proposed) /\ IntOn(BondBy, Proposed)
           /\ NatOn(HeldBy, DOMAIN fact) /\ IntOn(HeldBy, DOMAIN fact)
           /\ NatOn(ApprovedBy, DOMAIN fact) /\ IntOn(ApprovedBy, DOMAIN fact)
           /\ NatOn(FactStakeBy, DOMAIN fact) /\ IntOn(FactStakeBy, DOMAIN fact)
           /\ \A kind : /\ NatOn(TallyBy(kind), DOMAIN fact)
                        /\ IntOn(TallyBy(kind), DOMAIN fact)
BY AccountNats
DEF NatOn, IntOn, StakeBy, BondBy, HeldBy, ApprovedBy, FactStakeBy, TallyBy, Tally

\* What the facts of D count of one kind is the stake of the votes on them.
LEMMA TalliesAdd ==
    ASSUME TypeOK, VotesTallied, NEW D \in SUBSET DOMAIN fact, NEW kind \in Kinds
    PROVE  SumFunctionOnSet(TallyBy(kind), D)
             = SumFunctionOnSet(StakeBy, { fv \in DOMAIN fact_vote :
                                             fact_vote[fv].kind = kind /\ fv[1] \in D })
<1> DEFINE V == { fv \in DOMAIN fact_vote : fact_vote[fv].kind = kind /\ fv[1] \in D }
           key == [fv \in V |-> fv[1]]
<1>1. IsFiniteSet(D) /\ IsFiniteSet(V)
    BY FiniteVotes, FiniteAccounts, FS_Subset
<1>2. IntOn(StakeBy, V) /\ \A fv \in V : key[fv] \in D
    BY StakeSums DEF IntOn
<1>3. \A f \in D : TallyBy(kind)[f] = SumFunctionOnSet(StakeBy, { fv \in V : key[fv] = f })
  <2> SUFFICES ASSUME NEW f \in D
               PROVE  Tally(fact[f], kind)
                        = SumFunctionOnSet(StakeBy, { fv \in V : key[fv] = f })
      BY DEF TallyBy
  <2>1. { fv \in V : key[fv] = f } = VotesOn(f, kind)
      BY DEF VotesOn
  <2> QED
      BY <2>1, Zenon DEF VotesTallied
<1> HIDE DEF V, key
<1>4. SumFunctionOnSet(TallyBy(kind), D) = SumFunctionOnSet(StakeBy, V)
    BY <1>1, <1>2, <1>3, SumGroups
<1> QED
    BY <1>4 DEF V

\* All that facts hold is their own stake and that of the votes.
LEMMA HeldSums ==
    ASSUME TypeOK, VotesTallied, VotesOnFacts
    PROVE  SumFunction(HeldBy) = SumFunctionOnSet(FactStakeBy, DOMAIN fact)
                                   + SumFunctionOnSet(StakeBy, DOMAIN fact_vote)
<1> DEFINE F == DOMAIN fact
           V == DOMAIN fact_vote
           up == { fv \in V : fact_vote[fv].kind = "approve" /\ fv[1] \in F }
           dup == { fv \in V : fact_vote[fv].kind = "duplicate" /\ fv[1] \in F }
           votes == [f \in F |-> TallyBy("approve")[f] + TallyBy("duplicate")[f]]
<1>1. IsFiniteSet(F) /\ IsFiniteSet(V) /\ F \in SUBSET F /\ "approve" \in Kinds
      /\ "duplicate" \in Kinds
    BY FiniteVotes, FiniteAccounts DEF Kinds
<1>2. up \in SUBSET V /\ dup = V \ up
    BY AccountNats DEF VotesOnFacts, Kinds
<1>3. /\ SumFunctionOnSet(TallyBy("approve"), F) = SumFunctionOnSet(StakeBy, up)
      /\ SumFunctionOnSet(TallyBy("duplicate"), F) = SumFunctionOnSet(StakeBy, dup)
    BY <1>1, TalliesAdd
<1>4. /\ \A f \in F : HeldBy[f] = FactStakeBy[f] + votes[f]
      /\ \A f \in F : votes[f] = TallyBy("approve")[f] + TallyBy("duplicate")[f]
      /\ IntOn(votes, F)
  <2>1. \A f \in F : TallyBy("approve")[f] \in Int /\ TallyBy("duplicate")[f] \in Int
      BY StakeSums DEF IntOn
  <2>2. \A f \in F : HeldBy[f] = FactStakeBy[f] + votes[f]
      BY AccountNats DEF HeldBy, FactStakeBy, TallyBy, Tally
  <2> QED
      BY <2>1, <2>2 DEF IntOn
<1>5. SumFunction(HeldBy) = SumFunctionOnSet(HeldBy, F)
    BY SumOver DEF HeldBy
<1> HIDE DEF F, V, up, dup, votes
<1>6. /\ IntOn(StakeBy, V) /\ IntOn(FactStakeBy, F)
      /\ IntOn(TallyBy("approve"), F) /\ IntOn(TallyBy("duplicate"), F)
    BY StakeSums DEF F, V
<1>7. SumFunctionOnSet(StakeBy, V) = SumFunctionOnSet(StakeBy, up) + SumFunctionOnSet(StakeBy, dup)
    BY <1>1, <1>2, <1>6, SumSplit
<1>8. SumFunctionOnSet(votes, F)
        = SumFunctionOnSet(TallyBy("approve"), F) + SumFunctionOnSet(TallyBy("duplicate"), F)
    BY <1>1, <1>4, <1>6, SumPlus
<1>9. SumFunctionOnSet(HeldBy, F) = SumFunctionOnSet(FactStakeBy, F) + SumFunctionOnSet(votes, F)
    BY <1>1, <1>4, <1>6, SumPlus
<1> QED
    BY <1>3, <1>5, <1>7, <1>8, <1>9 DEF F, V

-----------------------------------------------------------------------------
\* The claims, as what was staked less what was lost plus the reward

ProposerRewardBy == [p \in Proposed |-> ProposerReward(proposer[p])]
ProposerClaimBy == [p \in Proposed |-> ProposerEntitlement(proposer[p])]

LostStakeBy == [f \in DOMAIN fact |-> IF f \in Rejected THEN fact[f].stake ELSE 0]
LostFloorBy == [f \in DOMAIN fact |->
                   IF f \in Rejected THEN FloorFrac(fact[f].approve_stake, FactVoteSlash)
                   ELSE 0]
SubmitterRewardBy == [f \in DOMAIN fact |->
                         IF fact[f].agreed THEN FactReward(fact[f].stake) ELSE 0]
SubmitterClaimBy == [f \in DOMAIN fact |-> SubmitterEntitlement(fact[f])]

LostVoteBy == [fv \in DOMAIN fact_vote |->
                  IF fv \in ApproversOf(Rejected)
                  THEN CeilFrac(fact_vote[fv].stake, FactVoteSlash) ELSE 0]
VoterRewardBy == [fv \in DOMAIN fact_vote |->
                     IF fv \in ApproversOf(AgreedFacts)
                     THEN FactReward(fact_vote[fv].stake) ELSE 0]
VoterClaimBy == [fv \in DOMAIN fact_vote |->
                    VoterEntitlement(fact_vote[fv], fact[fv[1]])]

\* A share is no less than nothing.
LEMMA ShareIsNat ==
    ASSUME NEW stake \in Nat, NEW bucket \in Nat, NEW total \in Nat
    PROVE  ShareOf(stake, bucket, total) \in Nat
<1>1. CASE total = 0
    BY <1>1 DEF ShareOf
<1>2. CASE total # 0
  <2> DEFINE x == stake * bucket
  <2>1. x \in Nat /\ total > 0
      BY <1>2
  <2> HIDE DEF x
  <2>2. x \div total \in Nat
      BY <2>1, FloorBounds
  <2> QED
      BY <1>2, <2>2 DEF ShareOf, x
<1> QED
    BY <1>1, <1>2

\* The two parts of a pool are all of it but a unit, unless nobody shares it.
LEMMA BucketsFit ==
    ASSUME NEW pool \in Nat, NEW correct \in Nat, NEW approved \in Nat
    PROVE  LET P == ProposerBucket(pool, correct, approved)
               F == FactBucket(pool, correct, approved)
           IN  /\ P \in Nat /\ F \in Nat
               /\ P + F <= pool
               /\ correct > 0 => pool <= P + F + 1
               /\ approved = 0 => F = 0
               /\ pool = 0 => P = 0 /\ F = 0
<1> DEFINE W == ProposerWeight + FactWeight
<1>1. ProposerWeight \in Nat /\ FactWeight \in Nat /\ W \in Nat /\ W > 0
    BY WeightAssumption, U64MaxAssumption DEF U64
<1> DEFINE x == pool * ProposerWeight
           y == pool * FactWeight
           a == x \div W
           b == y \div W
<1>2. x \in Nat /\ y \in Nat /\ x + y = W * pool
    BY <1>1
<1>3. pool = 0 => x = 0 /\ y = 0
    BY <1>1
<1> HIDE DEF x, y
<1>4. CASE approved = 0 \/ correct = 0
    BY <1>4 DEF ProposerBucket, FactBucket
<1>5. CASE approved # 0 /\ correct # 0
  <2>1. /\ ProposerBucket(pool, correct, approved) = a
        /\ FactBucket(pool, correct, approved) = b
      BY <1>5 DEF ProposerBucket, FactBucket, x, y
  <2> HIDE DEF W
  <2>2. /\ a \in Nat /\ W * a <= x /\ x < W * (a + 1)
        /\ b \in Nat /\ W * b <= y /\ y < W * (b + 1)
      BY <1>1, <1>2, FloorBounds
  <2>3. pool = 0 => a = 0 /\ b = 0
      BY <1>1, <1>3
  <2> HIDE DEF a, b
  <2>4. W * (a + b) = W * a + W * b /\ W * (a + 1) = W * a + W /\ W * (b + 1) = W * b + W
        /\ W * a \in Nat /\ W * b \in Nat /\ W * pool \in Nat
        /\ W * (a + b + 2) = W * a + W * b + 2 * W
      BY <1>1, <2>2
  <2>5. W * (a + b) <= W * pool
      BY <1>1, <1>2, <2>2, <2>4
  <2>6. a + b <= pool
      BY <1>1, <2>2, <2>5, CancelFactor
  <2>7. ASSUME pool >= a + b + 2 PROVE FALSE
    <3>1. W * (a + b + 2) <= W * pool
      <4>1. pool - (a + b + 2) \in Nat /\ W * (pool - (a + b + 2)) >= 0
          BY <1>1, <2>2, <2>7
      <4>2. W * (pool - (a + b + 2)) = W * pool - W * (a + b + 2)
          BY <1>1, <2>2
      <4> QED
          BY <1>1, <2>2, <2>4, <4>1, <4>2
    <3> QED
        BY <1>1, <1>2, <2>2, <2>4, <3>1
  <2>8. pool <= a + b + 1
      BY <2>2, <2>7
  <2> QED
      BY <1>5, <2>1, <2>2, <2>3, <2>6, <2>8
<1> QED
    BY <1>4, <1>5

Bucket == ProposerBucket(oracle.reward_pool, oracle.total_correct_proposer_stake,
                         oracle.total_approved_fact_stake)
BucketOfFacts == FactBucket(oracle.reward_pool, oracle.total_correct_proposer_stake,
                            oracle.total_approved_fact_stake)

LEMMA ShareOfNothing ==
    ASSUME NEW stake \in Nat, NEW bucket \in Nat, NEW total \in Nat, stake = 0 \/ bucket = 0
    PROVE  ShareOf(stake, bucket, total) = 0
<1>1. stake * bucket = 0
    OBVIOUS
<1> QED
    BY <1>1 DEF ShareOf

LEMMA PoolNats ==
    ASSUME TypeOK
    PROVE  /\ oracle.reward_pool \in Nat
           /\ oracle.total_correct_proposer_stake \in Nat
           /\ oracle.total_approved_fact_stake \in Nat
           /\ Bucket \in Nat /\ BucketOfFacts \in Nat
           /\ Bucket + BucketOfFacts <= oracle.reward_pool
           /\ oracle.total_correct_proposer_stake > 0 =>
                  oracle.reward_pool <= Bucket + BucketOfFacts + 1
           /\ oracle.total_approved_fact_stake = 0 => BucketOfFacts = 0
           /\ oracle.reward_pool = 0 => Bucket = 0 /\ BucketOfFacts = 0
<1>1. /\ oracle.reward_pool \in Nat
      /\ oracle.total_correct_proposer_stake \in Nat
      /\ oracle.total_approved_fact_stake \in Nat
    BY U64MaxAssumption DEF TypeOK, OracleAccount, U64
<1> QED
    BY <1>1, BucketsFit DEF Bucket, BucketOfFacts

LEMMA RewardNats ==
    ASSUME TypeOK
    PROVE  /\ \A stake \in Nat : FactReward(stake) \in Nat
           /\ \A p \in Proposed : ProposerReward(proposer[p]) \in Nat
           /\ oracle.reward_pool = 0 =>
                 /\ \A stake \in Nat : FactReward(stake) = 0
                 /\ \A p \in Proposed : ProposerReward(proposer[p]) = 0
           /\ ~Resolved => /\ \A stake \in Nat : FactReward(stake) = 0
                           /\ \A p \in Proposed : ProposerReward(proposer[p]) = 0
           /\ FactReward(0) = 0
<1>1. ASSUME NEW stake \in Nat
      PROVE  /\ FactReward(stake) \in Nat
             /\ oracle.reward_pool = 0 \/ ~Resolved \/ stake = 0 => FactReward(stake) = 0
  <2>1. ShareOf(stake, BucketOfFacts, oracle.total_approved_fact_stake) \in Nat
      BY PoolNats, ShareIsNat
  <2>2. FactReward(stake) = IF Resolved
                            THEN ShareOf(stake, BucketOfFacts,
                                         oracle.total_approved_fact_stake)
                            ELSE 0
      BY DEF FactReward, BucketOfFacts
  <2>3. BucketOfFacts = 0 \/ stake = 0 =>
            ShareOf(stake, BucketOfFacts, oracle.total_approved_fact_stake) = 0
      BY PoolNats, ShareOfNothing
  <2>4. oracle.reward_pool = 0 => BucketOfFacts = 0
      BY PoolNats
  <2>5. CASE Resolved
      BY <2>1, <2>2, <2>3, <2>4, <2>5
  <2>6. CASE ~Resolved
      BY <2>2, <2>6
  <2> QED
      BY <2>5, <2>6
<1>2. ASSUME NEW p \in Proposed
      PROVE  /\ ProposerReward(proposer[p]) \in Nat
             /\ oracle.reward_pool = 0 \/ ~Resolved => ProposerReward(proposer[p]) = 0
  <2>1. proposer[p].bond \in Nat
      BY AccountNats
  <2>2. ShareOf(proposer[p].bond, Bucket, oracle.total_correct_proposer_stake) \in Nat
      BY <2>1, PoolNats, ShareIsNat
  <2>3. Bucket = 0 =>
            ShareOf(proposer[p].bond, Bucket, oracle.total_correct_proposer_stake) = 0
      BY <2>1, PoolNats, ShareOfNothing
  <2>4. \/ ProposerReward(proposer[p])
             = ShareOf(proposer[p].bond, Bucket, oracle.total_correct_proposer_stake)
           /\ Resolved
        \/ ProposerReward(proposer[p]) = 0
      BY DEF ProposerReward, Bucket
  <2> QED
      BY <2>2, <2>3, <2>4, PoolNats
<1> QED
    BY <1>1, <1>2

\* What proposers may claim.
LEMMA ProposerClaimSum ==
    ASSUME TypeOK, SlashesOrdered
    PROVE  /\ NatOn(ProposerRewardBy, Proposed) /\ IntOn(ProposerClaimBy, Proposed)
           /\ SumFunction(ProposerClaimBy)
                = SumFunction(BondBy) - SumFunction(SlashedBy) - SumFunction(PaidOutBy)
                    + SumFunctionOnSet(ProposerRewardBy, Proposed)
<1> DEFINE P == Proposed
           lost == [p \in P |-> SlashedBy[p] + PaidOutBy[p]]
           due == [p \in P |-> ProposerClaimBy[p] + lost[p]]
<1>1. ASSUME NEW p \in P
      PROVE  /\ ProposerRewardBy[p] \in Nat /\ ProposerClaimBy[p] \in Int
             /\ ProposerClaimBy[p] + lost[p] = BondBy[p] + ProposerRewardBy[p]
  <2>1. /\ proposer[p].bond \in Nat /\ proposer[p].slashed_amount \in Nat
        /\ proposer[p].slashed_amount <= proposer[p].bond
        /\ ProposerReward(proposer[p]) \in Nat
      BY AccountNats, RewardNats DEF SlashesOrdered
  <2>2. proposer[p].disqualified => ProposerReward(proposer[p]) = 0
      BY DEF ProposerReward
  <2> QED
      BY <2>1, <2>2
      DEF ProposerRewardBy, ProposerClaimBy, ProposerEntitlement, BondBy, SlashedBy,
          PaidOutBy, PaidOut, SaturatingSub
<1>2. /\ NatOn(ProposerRewardBy, P) /\ IntOn(ProposerRewardBy, P)
      /\ IntOn(ProposerClaimBy, P)
    BY <1>1 DEF NatOn, IntOn
<1>3. /\ IsFiniteSet(P) /\ IntOn(BondBy, P) /\ IntOn(SlashedBy, P) /\ IntOn(PaidOutBy, P)
    BY FiniteAccounts, StakeSums, BookSums
<1>4. /\ IntOn(lost, P) /\ \A p \in P : lost[p] = SlashedBy[p] + PaidOutBy[p]
    BY <1>3 DEF IntOn
<1>5. /\ \A p \in P : due[p] = ProposerClaimBy[p] + lost[p]
      /\ \A p \in P : due[p] = BondBy[p] + ProposerRewardBy[p]
    BY <1>1
<1>6. /\ SumFunction(ProposerClaimBy) = SumFunctionOnSet(ProposerClaimBy, P)
      /\ SumFunction(BondBy) = SumFunctionOnSet(BondBy, P)
      /\ SumFunction(SlashedBy) = SumFunctionOnSet(SlashedBy, P)
      /\ SumFunction(PaidOutBy) = SumFunctionOnSet(PaidOutBy, P)
    BY SumOver DEF ProposerClaimBy, BondBy, SlashedBy, PaidOutBy
<1> HIDE DEF P, lost, due
<1>7. SumFunctionOnSet(lost, P)
        = SumFunctionOnSet(SlashedBy, P) + SumFunctionOnSet(PaidOutBy, P)
    BY <1>3, <1>4, SumPlus
<1>8. SumFunctionOnSet(due, P)
        = SumFunctionOnSet(ProposerClaimBy, P) + SumFunctionOnSet(lost, P)
    BY <1>2, <1>3, <1>4, <1>5, SumPlus
<1>9. SumFunctionOnSet(due, P)
        = SumFunctionOnSet(BondBy, P) + SumFunctionOnSet(ProposerRewardBy, P)
    BY <1>2, <1>3, <1>5, SumPlus
<1>10. /\ SumFunctionOnSet(BondBy, P) \in Int
       /\ SumFunctionOnSet(SlashedBy, P) \in Int /\ SumFunctionOnSet(PaidOutBy, P) \in Int
       /\ SumFunctionOnSet(ProposerRewardBy, P) \in Int
       /\ SumFunctionOnSet(ProposerClaimBy, P) \in Int
    BY <1>2, <1>3, SumInt
<1> QED
    BY <1>2, <1>6, <1>7, <1>8, <1>9, <1>10 DEF P

\* What submitters may claim.
LEMMA SubmitterClaimSum ==
    ASSUME TypeOK, Settled = DOMAIN fact
    PROVE  /\ NatOn(LostStakeBy, DOMAIN fact) /\ NatOn(SubmitterRewardBy, DOMAIN fact)
           /\ IntOn(SubmitterClaimBy, DOMAIN fact)
           /\ SumFunctionOnSet(SubmitterClaimBy, DOMAIN fact)
                = SumFunctionOnSet(FactStakeBy, DOMAIN fact)
                    - SumFunctionOnSet(LostStakeBy, DOMAIN fact)
                    + SumFunctionOnSet(SubmitterRewardBy, DOMAIN fact)
<1> DEFINE F == DOMAIN fact
           due == [f \in F |-> SubmitterClaimBy[f] + LostStakeBy[f]]
<1>1. ASSUME NEW f \in F
      PROVE  /\ LostStakeBy[f] \in Nat /\ SubmitterRewardBy[f] \in Nat
             /\ SubmitterClaimBy[f] \in Int
             /\ SubmitterClaimBy[f] + LostStakeBy[f] = FactStakeBy[f] + SubmitterRewardBy[f]
  <2>1. fact[f].stake \in Nat /\ FactReward(fact[f].stake) \in Nat
      BY AccountNats, RewardNats
  <2>2. f \in Rejected <=> ~fact[f].agreed /\ ~fact[f].duplicate
      BY DEF Rejected
  <2> QED
      BY <2>1, <2>2
      DEF LostStakeBy, SubmitterRewardBy, SubmitterClaimBy, SubmitterEntitlement,
          FactStakeBy
<1>2. /\ NatOn(LostStakeBy, F) /\ NatOn(SubmitterRewardBy, F)
      /\ IntOn(LostStakeBy, F) /\ IntOn(SubmitterRewardBy, F) /\ IntOn(SubmitterClaimBy, F)
    BY <1>1 DEF NatOn, IntOn
<1>3. IsFiniteSet(F) /\ IntOn(FactStakeBy, F)
    BY FiniteAccounts, StakeSums
<1>4. /\ \A f \in F : due[f] = SubmitterClaimBy[f] + LostStakeBy[f]
      /\ \A f \in F : due[f] = FactStakeBy[f] + SubmitterRewardBy[f]
    BY <1>1
<1> HIDE DEF F, due
<1>5. SumFunctionOnSet(due, F)
        = SumFunctionOnSet(SubmitterClaimBy, F) + SumFunctionOnSet(LostStakeBy, F)
    BY <1>2, <1>3, <1>4, SumPlus
<1>6. SumFunctionOnSet(due, F)
        = SumFunctionOnSet(FactStakeBy, F) + SumFunctionOnSet(SubmitterRewardBy, F)
    BY <1>2, <1>3, <1>4, SumPlus
<1>7. /\ SumFunctionOnSet(SubmitterClaimBy, F) \in Int
      /\ SumFunctionOnSet(LostStakeBy, F) \in Int
      /\ SumFunctionOnSet(FactStakeBy, F) \in Int
      /\ SumFunctionOnSet(SubmitterRewardBy, F) \in Int
    BY <1>2, <1>3, SumInt
<1> QED
    BY <1>2, <1>5, <1>6, <1>7 DEF F

\* Rounded up, a fraction of at most one takes no more than the whole either.
LEMMA CeilFracBounds ==
    ASSUME NEW v \in Nat, NEW r \in ProperRatio
    PROVE  CeilFrac(v, r) \in Nat /\ CeilFrac(v, r) <= v
<1>1. r.num \in Nat /\ r.den \in Nat /\ r.den > 0 /\ r.num <= r.den
    BY U64MaxAssumption DEF ProperRatio, Ratio, U64
<1> DEFINE x == v * r.num + r.den - 1
           d == r.den
           q == x \div d
<1>2. x \in Nat /\ d \in Nat /\ d > 0 /\ v * d \in Nat /\ x <= v * d + d - 1
  <2>1. v * r.num \in Nat /\ v * r.num <= v * r.den
      BY <1>1
  <2> QED
      BY <1>1, <2>1
<1> HIDE DEF x, d
<1>3. q \in Nat /\ d * q <= x
    BY <1>2, FloorBounds
<1> HIDE DEF q
<1>4. ASSUME q >= v + 1 PROVE FALSE
  <2>1. q - (v + 1) \in Nat /\ d * (q - (v + 1)) >= 0
      BY <1>2, <1>3, <1>4
  <2>2. d * (q - (v + 1)) = d * q - d * (v + 1) /\ d * (v + 1) = v * d + d
      BY <1>2, <1>3
  <2> QED
      BY <1>2, <1>3, <2>1, <2>2
<1> QED
    BY <1>3, <1>4 DEF CeilFrac, q, x, d

\* What voters may claim.
LEMMA VoterClaimSum ==
    ASSUME TypeOK, Settled = DOMAIN fact, VotesOnFacts
    PROVE  /\ NatOn(LostVoteBy, DOMAIN fact_vote) /\ NatOn(VoterRewardBy, DOMAIN fact_vote)
           /\ IntOn(VoterClaimBy, DOMAIN fact_vote)
           /\ SumFunctionOnSet(VoterClaimBy, DOMAIN fact_vote)
                = SumFunctionOnSet(StakeBy, DOMAIN fact_vote)
                    - SumFunctionOnSet(LostVoteBy, DOMAIN fact_vote)
                    + SumFunctionOnSet(VoterRewardBy, DOMAIN fact_vote)
<1> DEFINE V == DOMAIN fact_vote
           due == [fv \in V |-> VoterClaimBy[fv] + LostVoteBy[fv]]
<1>1. ASSUME NEW fv \in V
      PROVE  /\ LostVoteBy[fv] \in Nat /\ VoterRewardBy[fv] \in Nat
             /\ VoterClaimBy[fv] \in Int
             /\ VoterClaimBy[fv] + LostVoteBy[fv] = StakeBy[fv] + VoterRewardBy[fv]
  <2>1. /\ fact_vote[fv].stake \in Nat /\ fact_vote[fv].kind \in Kinds
        /\ FactReward(fact_vote[fv].stake) \in Nat
      BY AccountNats, RewardNats
  <2>2. /\ CeilFrac(fact_vote[fv].stake, FactVoteSlash) \in Nat
        /\ CeilFrac(fact_vote[fv].stake, FactVoteSlash) <= fact_vote[fv].stake
      BY <2>1, CeilFracBounds, DisputeAssumption
  <2>3. fv[1] \in DOMAIN fact
      BY DEF VotesOnFacts
  <2>4. /\ fv \in ApproversOf(Rejected) <=>
              /\ fact_vote[fv].kind = "approve"
              /\ ~fact[fv[1]].agreed /\ ~fact[fv[1]].duplicate
        /\ fv \in ApproversOf(AgreedFacts) <=>
              /\ fact_vote[fv].kind = "approve"
              /\ fact[fv[1]].agreed
      BY <2>3 DEF ApproversOf, AgreedFacts, Rejected
  <2> DEFINE s == fact_vote[fv].stake
             c == CeilFrac(fact_vote[fv].stake, FactVoteSlash)
             r == FactReward(fact_vote[fv].stake)
  <2>5. /\ LostVoteBy[fv] = IF fv \in ApproversOf(Rejected) THEN c ELSE 0
        /\ VoterRewardBy[fv] = IF fv \in ApproversOf(AgreedFacts) THEN r ELSE 0
        /\ StakeBy[fv] = s
      BY DEF LostVoteBy, VoterRewardBy, StakeBy
  <2>6. VoterClaimBy[fv] = IF fact_vote[fv].kind = "duplicate" THEN s
                           ELSE IF fact[fv[1]].agreed THEN s + r
                           ELSE IF fact[fv[1]].duplicate THEN s
                           ELSE s - c
      BY <2>1, <2>2 DEF VoterClaimBy, VoterEntitlement, SaturatingSub
  <2>7. s \in Nat /\ c \in Nat /\ r \in Nat /\ fact_vote[fv].kind \in Kinds
      BY <2>1, <2>2
  <2> HIDE DEF s, c, r
  <2> QED
      BY <2>4, <2>5, <2>6, <2>7 DEF Kinds
<1>2. /\ NatOn(LostVoteBy, V) /\ NatOn(VoterRewardBy, V)
      /\ IntOn(LostVoteBy, V) /\ IntOn(VoterRewardBy, V) /\ IntOn(VoterClaimBy, V)
    BY <1>1 DEF NatOn, IntOn
<1>3. IsFiniteSet(V) /\ IntOn(StakeBy, V)
    BY FiniteVotes, StakeSums
<1>4. /\ \A fv \in V : due[fv] = VoterClaimBy[fv] + LostVoteBy[fv]
      /\ \A fv \in V : due[fv] = StakeBy[fv] + VoterRewardBy[fv]
    BY <1>1
<1> HIDE DEF V, due
<1>5. SumFunctionOnSet(due, V)
        = SumFunctionOnSet(VoterClaimBy, V) + SumFunctionOnSet(LostVoteBy, V)
    BY <1>2, <1>3, <1>4, SumPlus
<1>6. SumFunctionOnSet(due, V)
        = SumFunctionOnSet(StakeBy, V) + SumFunctionOnSet(VoterRewardBy, V)
    BY <1>2, <1>3, <1>4, SumPlus
<1>7. /\ SumFunctionOnSet(VoterClaimBy, V) \in Int
      /\ SumFunctionOnSet(LostVoteBy, V) \in Int
      /\ SumFunctionOnSet(StakeBy, V) \in Int
      /\ SumFunctionOnSet(VoterRewardBy, V) \in Int
    BY <1>2, <1>3, SumInt
<1>8. SumFunctionOnSet(VoterClaimBy, V)
        = SumFunctionOnSet(StakeBy, V) - SumFunctionOnSet(LostVoteBy, V)
            + SumFunctionOnSet(VoterRewardBy, V)
    BY <1>5, <1>6, <1>7
<1> QED
    BY <1>2, <1>8, Zenon DEF V

-----------------------------------------------------------------------------
\* Rounding: approvers of rejected facts lose at least what the pool was told,
\* and at most a unit each, and one for each fact, more.

LEMMA LossesCoverForfeits ==
    ASSUME TypeOK, VotesTallied, Settled = DOMAIN fact
    PROVE  LET floor == SumFunctionOnSet(LostFloorBy, DOMAIN fact)
               lost == SumFunctionOnSet(LostVoteBy, DOMAIN fact_vote)
           IN  /\ floor \in Nat /\ lost \in Nat
               /\ floor <= lost
               /\ lost <= floor + Cardinality(Rejected) + Cardinality(ApproversOf(Rejected))
<1> DEFINE F == DOMAIN fact
           V == DOMAIN fact_vote
           R == Rejected
           L == ApproversOf(Rejected)
           num == FactVoteSlash.num
           den == FactVoteSlash.den
           floor == SumFunctionOnSet(LostFloorBy, F)
           lost == SumFunctionOnSet(LostVoteBy, V)
           all == SumFunctionOnSet(StakeBy, L)
<1>1. num \in Nat /\ den \in Nat /\ den > 0
    BY U64MaxAssumption, DisputeAssumption DEF ProperRatio, Ratio, U64
<1>2. /\ IsFiniteSet(F) /\ IsFiniteSet(V)
      /\ R \in SUBSET F /\ L \in SUBSET V /\ IsFiniteSet(R) /\ IsFiniteSet(L)
  <2>1. R \in SUBSET F /\ L \in SUBSET V
      BY DEF Rejected, Settled, ApproversOf
  <2> QED
      BY <2>1, FiniteAccounts, FiniteVotes, FS_Subset
<1>3. /\ \A f \in R : LostFloorBy[f] = (num * TallyBy("approve")[f]) \div den
      /\ \A f \in F \ R : LostFloorBy[f] = 0
  <2>1. \A f \in R : /\ LostFloorBy[f] = (fact[f].approve_stake * num) \div den
                     /\ TallyBy("approve")[f] = fact[f].approve_stake
      BY <1>2 DEF LostFloorBy, FloorFrac, TallyBy, Tally
  <2>2. \A f \in R : fact[f].approve_stake * num = num * fact[f].approve_stake
      BY <1>1, <1>2, AccountNats
  <2> QED
      BY <2>1, <2>2 DEF LostFloorBy
<1>4. /\ \A fv \in L : LostVoteBy[fv] = (num * StakeBy[fv] + den - 1) \div den
      /\ \A fv \in V \ L : LostVoteBy[fv] = 0
  <2>1. \A fv \in L : /\ LostVoteBy[fv] = (fact_vote[fv].stake * num + den - 1) \div den
                      /\ StakeBy[fv] = fact_vote[fv].stake
      BY <1>2 DEF LostVoteBy, CeilFrac, StakeBy
  <2>2. \A fv \in L : fact_vote[fv].stake * num = num * fact_vote[fv].stake
      BY <1>1, <1>2, AccountNats
  <2> QED
      BY <2>1, <2>2 DEF LostVoteBy
<1>5. all = SumFunctionOnSet(TallyBy("approve"), R)
    BY <1>2, TalliesAdd DEF Kinds, ApproversOf
<1>6. NatOn(TallyBy("approve"), R) /\ NatOn(StakeBy, L)
    BY <1>2, StakeSums DEF NatOn
<1> HIDE DEF F, V, R, L, num, den, floor, lost, all
<1>7. /\ NatOn(LostFloorBy, R)
      /\ den * SumFunctionOnSet(LostFloorBy, R)
           <= num * SumFunctionOnSet(TallyBy("approve"), R)
      /\ num * SumFunctionOnSet(TallyBy("approve"), R)
           <= den * (SumFunctionOnSet(LostFloorBy, R) + Cardinality(R))
    BY <1>1, <1>2, <1>3, <1>6, SharesFit
<1>8. /\ NatOn(LostVoteBy, L)
      /\ num * SumFunctionOnSet(StakeBy, L) <= den * SumFunctionOnSet(LostVoteBy, L)
      /\ den * SumFunctionOnSet(LostVoteBy, L)
           <= num * SumFunctionOnSet(StakeBy, L) + den * Cardinality(L)
    BY <1>1, <1>2, <1>4, <1>6, SharesUp
<1>9. IntOn(LostFloorBy, F) /\ IntOn(LostVoteBy, V)
    BY <1>2, <1>3, <1>4, <1>7, <1>8 DEF NatOn, IntOn
<1>10. /\ floor = SumFunctionOnSet(LostFloorBy, R)
       /\ lost = SumFunctionOnSet(LostVoteBy, L)
    BY <1>2, <1>3, <1>4, <1>9, SumSupport DEF floor, lost
<1>11. floor \in Nat /\ lost \in Nat /\ all \in Nat
    BY <1>2, <1>6, <1>7, <1>8, <1>10, SumNat DEF all
<1>12. Cardinality(R) \in Nat /\ Cardinality(L) \in Nat
    BY <1>2, FS_CardinalityType
<1> DEFINE nR == Cardinality(R)
           nL == Cardinality(L)
<1>13. /\ den * floor <= num * all /\ num * all <= den * (floor + nR)
       /\ num * all <= den * lost /\ den * lost <= num * all + den * nL
       /\ nR \in Nat /\ nL \in Nat
    BY <1>5, <1>7, <1>8, <1>10, <1>12 DEF all
<1> HIDE DEF nR, nL
<1>14. num * all \in Nat /\ den * floor \in Nat /\ den * lost \in Nat
       /\ den * (floor + nR) + den * nL = den * (floor + nR + nL)
       /\ den * (floor + nR) \in Nat /\ den * nL \in Nat
    BY <1>1, <1>11, <1>13
<1>15. den * floor <= den * lost /\ den * lost <= den * (floor + nR + nL)
    BY <1>13, <1>14
<1>16. floor <= lost /\ lost <= floor + nR + nL
    BY <1>1, <1>11, <1>13, <1>15, CancelFactor
<1> QED
    BY <1>11, <1>16 DEF floor, lost, nR, nL, F, V, R, L

-----------------------------------------------------------------------------
\* Rewards: each cohort gets at most its part of the pool, and at most a unit
\* for each of its members less.

LEMMA ProposerRewardsFit ==
    ASSUME TypeOK, PoolsByPhase
    PROVE  LET rewards == SumFunctionOnSet(ProposerRewardBy, Proposed)
           IN  /\ rewards \in Nat
               /\ rewards <= Bucket
               /\ Resolved /\ oracle.reward_pool # 0
                    /\ oracle.total_correct_proposer_stake > 0 =>
                      Bucket <= rewards + Cardinality(Proposed)
<1> DEFINE P == Proposed
           C == Correct
           T == oracle.total_correct_proposer_stake
           B == Bucket
           rewards == SumFunctionOnSet(ProposerRewardBy, P)
<1>1. /\ IsFiniteSet(P) /\ C \in SUBSET P /\ IsFiniteSet(C)
      /\ Cardinality(C) \in Nat /\ Cardinality(C) <= Cardinality(P)
      /\ Cardinality(P) \in Nat
  <2>1. C \in SUBSET P /\ IsFiniteSet(P)
      BY FiniteAccounts DEF Correct, Survivors
  <2> QED
      BY <2>1, FS_Subset, FS_CardinalityType
<1>2. T \in Nat /\ B \in Nat
    BY PoolNats
<1>3. NatOn(ProposerRewardBy, P) /\ IntOn(ProposerRewardBy, P)
    BY RewardNats DEF NatOn, IntOn, ProposerRewardBy
<1>4. rewards \in Nat
    BY <1>1, <1>3, SumNat
<1>5. CASE ~Resolved \/ oracle.reward_pool = 0 \/ T = 0
  <2>1. \A p \in P : ProposerRewardBy[p] = 0
      BY <1>5, RewardNats DEF ProposerRewardBy, ProposerReward, ShareOf
  <2>2. rewards = 0
      BY <1>1, <2>1, SumZero
  <2> QED
      BY <1>2, <1>5, <2>2
<1>6. CASE Resolved /\ oracle.reward_pool # 0 /\ T # 0
  <2> DEFINE bonds == [p \in C |-> proposer[p].bond]
  <2>1. T = SumFunctionOnSet(bonds, C)
    <3>1. T = BondsOf(C)
        BY <1>6 DEF PoolsByPhase
    <3> QED
        BY <3>1, SumOver DEF BondsOf
  <2>2. NatOn(bonds, C)
      BY <1>1, AccountNats DEF NatOn
  <2>3. \A p \in C : ProposerRewardBy[p] = (B * bonds[p]) \div T
    <3> SUFFICES ASSUME NEW p \in C
                 PROVE  ProposerRewardBy[p] = (B * proposer[p].bond) \div T
        OBVIOUS
    <3>1. proposer[p].bond \in Nat /\ ~proposer[p].disqualified /\ BackedResolved(proposer[p])
        BY <1>1, AccountNats DEF Correct, Survivors
    <3>2. ProposerRewardBy[p] = (proposer[p].bond * B) \div T
        BY <1>1, <1>6, <3>1 DEF ProposerRewardBy, ProposerReward, ShareOf, Bucket
    <3>3. proposer[p].bond * B = B * proposer[p].bond
        BY <1>2, <3>1
    <3> QED
        BY <3>2, <3>3
  <2>4. \A p \in P \ C : ProposerRewardBy[p] = 0
      BY DEF Correct, Survivors, ProposerRewardBy, ProposerReward
  <2> HIDE DEF P, C, T, B, bonds, rewards
  <2>5. T > 0
      BY <1>2, <1>6
  <2>6. /\ T * SumFunctionOnSet(ProposerRewardBy, C) <= B * SumFunctionOnSet(bonds, C)
        /\ B * SumFunctionOnSet(bonds, C)
             <= T * (SumFunctionOnSet(ProposerRewardBy, C) + Cardinality(C))
      BY <1>1, <1>2, <2>2, <2>3, <2>5, SharesFit
  <2>7. rewards = SumFunctionOnSet(ProposerRewardBy, C)
      BY <1>1, <1>3, <2>4, SumSupport DEF rewards
  <2>8. T * rewards <= T * B /\ T * B <= T * (rewards + Cardinality(C))
    <3>1. B * T = T * B
        BY <1>2
    <3> QED
        BY <2>1, <2>6, <2>7, <3>1
  <2>9. rewards <= B /\ B <= rewards + Cardinality(C)
      BY <1>1, <1>2, <1>4, <2>5, <2>8, CancelFactor
  <2> QED
      BY <1>1, <1>2, <1>4, <2>9 DEF P, C, T, B, rewards
<1> QED
    BY <1>5, <1>6

LEMMA FactRewardsFit ==
    ASSUME TypeOK, VotesTallied, TotalsMatch
    PROVE  LET submitters == SumFunctionOnSet(SubmitterRewardBy, DOMAIN fact)
               voters == SumFunctionOnSet(VoterRewardBy, DOMAIN fact_vote)
           IN  /\ submitters \in Nat /\ voters \in Nat
               /\ submitters + voters <= BucketOfFacts
               /\ Resolved =>
                     BucketOfFacts <= submitters + voters + Cardinality(AgreedFacts)
                                        + Cardinality(ApproversOf(AgreedFacts))
<1> DEFINE F == DOMAIN fact
           V == DOMAIN fact_vote
           A == AgreedFacts
           L == ApproversOf(AgreedFacts)
           T == oracle.total_approved_fact_stake
           B == BucketOfFacts
           submitters == SumFunctionOnSet(SubmitterRewardBy, F)
           voters == SumFunctionOnSet(VoterRewardBy, V)
           own == SumFunctionOnSet(FactStakeBy, A)
           backed == SumFunctionOnSet(StakeBy, L)
<1>1. /\ IsFiniteSet(F) /\ IsFiniteSet(V)
      /\ A \in SUBSET F /\ L \in SUBSET V /\ IsFiniteSet(A) /\ IsFiniteSet(L)
      /\ Cardinality(A) \in Nat /\ Cardinality(L) \in Nat
  <2>1. A \in SUBSET F /\ L \in SUBSET V
      BY DEF AgreedFacts, ApproversOf
  <2> QED
      BY <2>1, FiniteAccounts, FiniteVotes, FS_Subset, FS_CardinalityType
<1>2. T \in Nat /\ B \in Nat /\ (T = 0 => B = 0)
    BY PoolNats
<1>3. /\ NatOn(SubmitterRewardBy, F) /\ IntOn(SubmitterRewardBy, F)
      /\ NatOn(VoterRewardBy, V) /\ IntOn(VoterRewardBy, V)
    BY AccountNats, RewardNats DEF NatOn, IntOn, SubmitterRewardBy, VoterRewardBy
<1>4. submitters \in Nat /\ voters \in Nat
    BY <1>1, <1>3, SumNat
<1>5. CASE ~Resolved \/ T = 0
  <2>1. \A stake \in Nat : FactReward(stake) = 0
      BY <1>5 DEF FactReward, ShareOf
  <2>2. \A f \in F : SubmitterRewardBy[f] = 0
      BY <2>1, AccountNats DEF SubmitterRewardBy
  <2>3. \A fv \in V : VoterRewardBy[fv] = 0
      BY <2>1, AccountNats DEF VoterRewardBy
  <2>4. submitters = 0 /\ voters = 0
      BY <1>1, <2>2, <2>3, SumZero
  <2> QED
      BY <1>1, <1>2, <1>5, <2>4
<1>6. CASE Resolved /\ T # 0
  <2>1. T = own + backed
    <3> DEFINE both == [f \in A |-> FactStakeBy[f] + TallyBy("approve")[f]]
    <3>1. T = SumFunctionOnSet(ApprovedBy, F)
        BY SumOver DEF TotalsMatch, ApprovedBy
    <3>2. \A f \in F \ A : ApprovedBy[f] = 0
        BY DEF ApprovedBy, AgreedFacts
    <3>3. /\ \A f \in A : ApprovedBy[f] = both[f]
          /\ \A f \in A : both[f] = FactStakeBy[f] + TallyBy("approve")[f]
        BY <1>1, AccountNats DEF ApprovedBy, AgreedFacts, FactStakeBy, TallyBy, Tally
    <3>4. backed = SumFunctionOnSet(TallyBy("approve"), A)
        BY <1>1, TalliesAdd DEF Kinds, ApproversOf
    <3>5. /\ IntOn(ApprovedBy, F) /\ IntOn(FactStakeBy, A) /\ IntOn(TallyBy("approve"), A)
        BY <1>1, StakeSums DEF IntOn
    <3> HIDE DEF F, A, L, T, own, backed, both
    <3>6. T = SumFunctionOnSet(ApprovedBy, A)
        BY <1>1, <3>1, <3>2, <3>5, SumSupport
    <3>7. SumFunctionOnSet(ApprovedBy, A) = SumFunctionOnSet(both, A)
        BY <1>1, <3>3, SumCongruence
    <3>8. SumFunctionOnSet(both, A)
            = SumFunctionOnSet(FactStakeBy, A) + SumFunctionOnSet(TallyBy("approve"), A)
        BY <1>1, <3>3, <3>5, SumPlus
    <3> QED
        BY <3>4, <3>6, <3>7, <3>8 DEF own
  <2>2. ASSUME NEW stake \in Nat PROVE FactReward(stake) = (B * stake) \div T
    <3>1. FactReward(stake) = (stake * B) \div T
        BY <1>6 DEF FactReward, ShareOf, BucketOfFacts
    <3>2. stake * B = B * stake
        BY <1>2
    <3> QED
        BY <3>1, <3>2
  <2>3. /\ \A f \in A : SubmitterRewardBy[f] = (B * FactStakeBy[f]) \div T
        /\ \A f \in F \ A : SubmitterRewardBy[f] = 0
      BY <1>1, <2>2, AccountNats DEF SubmitterRewardBy, FactStakeBy, AgreedFacts
  <2>4. /\ \A fv \in L : VoterRewardBy[fv] = (B * StakeBy[fv]) \div T
        /\ \A fv \in V \ L : VoterRewardBy[fv] = 0
      BY <1>1, <2>2, AccountNats DEF VoterRewardBy, StakeBy
  <2>5. NatOn(FactStakeBy, A) /\ NatOn(StakeBy, L)
      BY <1>1, StakeSums DEF NatOn
  <2> HIDE DEF F, V, A, L, T, B, submitters, voters, own, backed
  <2>6. T > 0
      BY <1>2, <1>6
  <2>7. /\ T * SumFunctionOnSet(SubmitterRewardBy, A) <= B * SumFunctionOnSet(FactStakeBy, A)
        /\ B * SumFunctionOnSet(FactStakeBy, A)
             <= T * (SumFunctionOnSet(SubmitterRewardBy, A) + Cardinality(A))
      BY <1>1, <1>2, <2>3, <2>5, <2>6, SharesFit
  <2>8. /\ T * SumFunctionOnSet(VoterRewardBy, L) <= B * SumFunctionOnSet(StakeBy, L)
        /\ B * SumFunctionOnSet(StakeBy, L)
             <= T * (SumFunctionOnSet(VoterRewardBy, L) + Cardinality(L))
      BY <1>1, <1>2, <2>4, <2>5, <2>6, SharesFit
  <2>9. /\ submitters = SumFunctionOnSet(SubmitterRewardBy, A)
        /\ voters = SumFunctionOnSet(VoterRewardBy, L)
      BY <1>1, <1>3, <2>3, <2>4, SumSupport DEF submitters, voters
  <2>10. own \in Nat /\ backed \in Nat
      BY <1>1, <2>5, SumNat DEF own, backed
  <2> DEFINE nA == Cardinality(A)
             nL == Cardinality(L)
  <2>11. /\ T * submitters <= B * own /\ B * own <= T * (submitters + nA)
         /\ T * voters <= B * backed /\ B * backed <= T * (voters + nL)
         /\ nA \in Nat /\ nL \in Nat
      BY <1>1, <2>7, <2>8, <2>9 DEF own, backed
  <2> HIDE DEF nA, nL
  <2>12. /\ T * (submitters + voters) = T * submitters + T * voters
         /\ T * (submitters + nA) + T * (voters + nL) = T * (submitters + voters + nA + nL)
         /\ B * own + B * backed = T * B
         /\ T * submitters \in Nat /\ T * voters \in Nat
         /\ T * (submitters + nA) \in Nat /\ T * (voters + nL) \in Nat
         /\ B * own \in Nat /\ B * backed \in Nat
    <3>1. B * own + B * backed = B * (own + backed)
        BY <1>2, <2>10
    <3>2. B * T = T * B
        BY <1>2
    <3> QED
        BY <1>2, <1>4, <2>1, <2>10, <2>11, <3>1, <3>2
  <2>13. /\ T * (submitters + voters) <= T * B
         /\ T * B <= T * (submitters + voters + nA + nL)
      BY <2>11, <2>12
  <2>14. submitters + voters <= B /\ B <= submitters + voters + nA + nL
      BY <1>2, <1>4, <2>6, <2>11, <2>13, CancelFactor
  <2> QED
      BY <1>4, <2>14 DEF B, submitters, voters, nA, nL, F, V, A, L
<1> QED
    BY <1>5, <1>6

-----------------------------------------------------------------------------
\* The vault at the verdict

\* Two sets apart in a third are no larger than it together.
LEMMA ApartInside ==
    ASSUME NEW S, IsFiniteSet(S), NEW A \in SUBSET S, NEW B \in SUBSET S, A \cap B = {}
    PROVE  /\ Cardinality(A) \in Nat /\ Cardinality(B) \in Nat
           /\ Cardinality(A) + Cardinality(B) <= Cardinality(S)
<1>1. IsFiniteSet(A) /\ IsFiniteSet(B)
    BY FS_Subset
<1>2. Cardinality(A \cup B) = Cardinality(A) + Cardinality(B)
    BY <1>1, BatchIn
<1>3. Cardinality(A \cup B) <= Cardinality(S)
    BY FS_Subset
<1> QED
    BY <1>1, <1>2, <1>3, FS_CardinalityType

\* Somebody shares the proposers' part of any reward there is.
LEMMA CorrectHasStake ==
    ASSUME TypeOK, PoolsByPhase, BondsStand, BondsPositive, oracle.reward_pool # 0
    PROVE  oracle.total_correct_proposer_stake > 0
<1> DEFINE bonds == [p \in Correct |-> proposer[p].bond]
<1>1. oracle.total_correct_proposer_stake = SumFunctionOnSet(bonds, Correct)
  <2>1. oracle.total_correct_proposer_stake = BondsOf(Correct)
      BY DEF PoolsByPhase
  <2> QED
      BY <2>1, SumOver DEF BondsOf
<1>2. Correct \in SUBSET Proposed /\ IsFiniteSet(Correct)
  <2>1. Correct \in SUBSET Proposed
      BY DEF Correct, Survivors
  <2> QED
      BY <2>1, FiniteAccounts, FS_Subset
<1>3. PICK p \in Correct : TRUE
    BY DEF PoolsByPhase
<1>4. NatOn(bonds, Correct) /\ bonds[p] > 0
    BY <1>2, <1>3, AccountNats DEF NatOn, BondsStand
<1> HIDE DEF bonds
<1>5. bonds[p] <= SumFunctionOnSet(bonds, Correct)
    BY <1>2, <1>3, <1>4, SumOneOf
<1> QED
    BY <1>1, <1>3, <1>4, <1>5, PoolNats DEF NatOn

\* The pool holds what proposers were slashed and what facts forfeit.
LEMMA ForfeitSums ==
    ASSUME TypeOK, Settled = DOMAIN fact
    PROVE  /\ SumFunctionOnSet(LostStakeBy, DOMAIN fact) \in Int
           /\ SumFunctionOnSet(LostFloorBy, DOMAIN fact) \in Int
           /\ SumFunction(ForfeitedBy) = SumFunctionOnSet(LostStakeBy, DOMAIN fact)
                                           + SumFunctionOnSet(LostFloorBy, DOMAIN fact)
<1> DEFINE F == DOMAIN fact
<1>1. ASSUME NEW f \in F
      PROVE  /\ LostStakeBy[f] \in Int /\ LostFloorBy[f] \in Int
             /\ ForfeitedBy[f] = LostStakeBy[f] + LostFloorBy[f]
  <2>1. fact[f].stake \in Nat /\ fact[f].approve_stake \in Nat
      BY AccountNats
  <2>2. FloorFrac(fact[f].approve_stake, FactVoteSlash) \in Nat
      BY <2>1, FloorFracBounds, DisputeAssumption
  <2>3. f \in Rejected <=> fact[f].settled /\ ~fact[f].agreed /\ ~fact[f].duplicate
      BY DEF Rejected, Settled
  <2> QED
      BY <2>1, <2>2, <2>3 DEF LostStakeBy, LostFloorBy, ForfeitedBy, Forfeited
<1>2. IntOn(LostStakeBy, F) /\ IntOn(LostFloorBy, F) /\ IsFiniteSet(F)
    BY <1>1, FiniteAccounts DEF IntOn
<1>3. SumFunction(ForfeitedBy) = SumFunctionOnSet(ForfeitedBy, F)
    BY SumOver DEF ForfeitedBy
<1> HIDE DEF F
<1>4. SumFunctionOnSet(ForfeitedBy, F)
        = SumFunctionOnSet(LostStakeBy, F) + SumFunctionOnSet(LostFloorBy, F)
    BY <1>1, <1>2, SumPlus
<1>5. SumFunctionOnSet(LostStakeBy, F) \in Int /\ SumFunctionOnSet(LostFloorBy, F) \in Int
    BY <1>2, SumInt
<1> QED
    BY <1>3, <1>4, <1>5 DEF F

\* What the vault holds beyond what is claimed, when the verdict falls.
LEMMA DustAtVerdict ==
    ASSUME BooksInv, StakesInv, Terminal
    PROVE  /\ Entitled \in Int
           /\ kass.stake_vault - Entitled
                = (SumFunctionOnSet(LostVoteBy, DOMAIN fact_vote)
                     - SumFunctionOnSet(LostFloorBy, DOMAIN fact))
                  + (oracle.reward_pool
                       - SumFunctionOnSet(ProposerRewardBy, Proposed)
                       - SumFunctionOnSet(SubmitterRewardBy, DOMAIN fact)
                       - SumFunctionOnSet(VoterRewardBy, DOMAIN fact_vote))
<1> DEFINE F == DOMAIN fact
           V == DOMAIN fact_vote
           vault == kass.stake_vault
           burned == kass.burned
           paid == kass.challengers
           total == oracle.total_oracle_stake
           pool == oracle.bond_pool
           reward == oracle.reward_pool
           split == SumFunction(kass.conditional)
           bonds == SumFunction(BondBy)
           slashed == SumFunction(SlashedBy)
           out == SumFunction(PaidOutBy)
           held == SumFunction(HeldBy)
           forfeited == SumFunction(ForfeitedBy)
           own == SumFunctionOnSet(FactStakeBy, F)
           votes == SumFunctionOnSet(StakeBy, V)
           lost == SumFunctionOnSet(LostStakeBy, F)
           floor == SumFunctionOnSet(LostFloorBy, F)
           ceil == SumFunctionOnSet(LostVoteBy, V)
           rP == SumFunctionOnSet(ProposerRewardBy, Proposed)
           rS == SumFunctionOnSet(SubmitterRewardBy, F)
           rV == SumFunctionOnSet(VoterRewardBy, V)
           cP == SumFunction(ProposerClaimBy)
           cS == SumFunctionOnSet(SubmitterClaimBy, F)
           cV == SumFunctionOnSet(VoterClaimBy, V)
<1>1. /\ TypeOK /\ Books /\ SlashesOrdered /\ PhasesOrdered /\ VaultsBackChallenges
      /\ VotesTallied /\ VotesOnFacts /\ TotalsMatch /\ FactsByPhase /\ PoolsByPhase
    BY DEF BooksInv, DisputeInv, TypeInv, StakesInv
<1>2. Settled = DOMAIN fact
    BY <1>1 DEF FactsByPhase, Terminal, TerminalPhases
<1>3. split = 0
  <2>1. \A q \in Questions : kass.conditional[q] = 0
      BY <1>1 DEF PhasesOrdered, VaultsBackChallenges
  <2>2. SumFunctionOnSet(kass.conditional, Questions) = 0
      BY <2>1, SumZero, DisputeAssumption
  <2> QED
      BY <1>1, <2>2, ConditionalSums DEF TypeOK
<1>4. Entitled = cP + cS + cV
  <2>1. { fv \in DOMAIN fact_vote : fv[1] \in DOMAIN fact } = V
      BY <1>1 DEF VotesOnFacts
  <2>2. SumFunction([fv \in { fv \in DOMAIN fact_vote : fv[1] \in DOMAIN fact } |->
                        VoterEntitlement(fact_vote[fv], fact[fv[1]])])
          = SumFunction(VoterClaimBy)
      BY <2>1, Zenon DEF VoterClaimBy
  <2>3. cS = SumFunction(SubmitterClaimBy) /\ cV = SumFunction(VoterClaimBy)
      BY SumOver DEF SubmitterClaimBy, VoterClaimBy
  <2>4. Entitled = cP + SumFunction(SubmitterClaimBy) + SumFunction(VoterClaimBy)
      BY <2>2, Zenon DEF Entitled, ProposerClaimBy, SubmitterClaimBy
  <2> QED
      BY <2>3, <2>4
<1>5. /\ cP = bonds - slashed - out + rP
      /\ cS = own - lost + rS
      /\ cV = votes - ceil + rV
    BY <1>1, <1>2, ProposerClaimSum, SubmitterClaimSum, VoterClaimSum
<1>6. /\ held = own + votes
      /\ forfeited = lost + floor
    BY <1>1, <1>2, HeldSums, ForfeitSums
<1>7. /\ total = bonds + held
      /\ vault + split + burned + paid = total + RewardEmission
      /\ paid = out /\ pool = slashed + forfeited
      /\ reward + burned = pool + RewardEmission
    BY <1>1 DEF TotalsMatch, Books, KassConserved, PoolsByPhase
<1>8. /\ vault \in Int /\ burned \in Int /\ paid \in Int /\ total \in Int /\ pool \in Int
      /\ reward \in Int /\ RewardEmission \in Int
    BY <1>1, U64MaxAssumption, KassTypes, DisputeAssumption DEF TypeOK, OracleAccount,
        U64
<1>9. /\ slashed \in Int /\ out \in Int /\ bonds \in Int
      /\ own \in Int /\ votes \in Int /\ lost \in Int /\ floor \in Int /\ ceil \in Int
      /\ rP \in Int /\ rS \in Int /\ rV \in Int
  <2>1. /\ IsFiniteSet(F) /\ IsFiniteSet(V) /\ IsFiniteSet(Proposed)
      BY <1>1, FiniteAccounts, FiniteVotes
  <2>2. /\ IntOn(BondBy, Proposed) /\ IntOn(FactStakeBy, F) /\ IntOn(StakeBy, V)
      BY <1>1, StakeSums
  <2>3. bonds = SumFunctionOnSet(BondBy, Proposed)
      BY SumOver DEF BondBy
  <2>4. bonds \in Int /\ own \in Int /\ votes \in Int
      BY <2>1, <2>2, <2>3, SumInt
  <2>5. /\ NatOn(LostVoteBy, V) /\ NatOn(VoterRewardBy, V)
        /\ NatOn(SubmitterRewardBy, F) /\ NatOn(ProposerRewardBy, Proposed)
      BY <1>1, <1>2, ProposerClaimSum, SubmitterClaimSum, VoterClaimSum
  <2>6. ceil \in Nat /\ rV \in Nat /\ rS \in Nat /\ rP \in Nat
      BY <2>1, <2>5, SumNat
  <2> QED
      BY <1>1, <1>2, <2>4, <2>6, BookSums, ForfeitSums
<1> HIDE DEF vault, burned, paid, total, pool, reward, split, bonds, slashed, out, held,
             forfeited, own, votes, lost, floor, ceil, rP, rS, rV, cP, cS, cV, F, V
<1>10. vault - (cP + cS + cV) = (ceil - floor) + (reward - rP - rS - rV)
    BY <1>3, <1>5, <1>6, <1>7, <1>8, <1>9
<1>11. cP + cS + cV \in Int
    BY <1>5, <1>9
<1> QED
    BY <1>4, <1>10, <1>11 DEF vault, reward, floor, ceil, rP, rS, rV, F, V

\* The vault holds what every claim asks for, and no more than dust beyond it.
LEMMA VerdictPays ==
    ASSUME BooksInv, StakesInv, Terminal
    PROVE  /\ Entitled \in Int
           /\ Entitled <= kass.stake_vault
           /\ BondsPositive => kass.stake_vault - Entitled <= DustBound
<1> DEFINE R == Rejected
           A == AgreedFacts
           LR == ApproversOf(Rejected)
           LA == ApproversOf(AgreedFacts)
           vault == kass.stake_vault
           reward == oracle.reward_pool
           floor == SumFunctionOnSet(LostFloorBy, DOMAIN fact)
           ceil == SumFunctionOnSet(LostVoteBy, DOMAIN fact_vote)
           rP == SumFunctionOnSet(ProposerRewardBy, Proposed)
           rS == SumFunctionOnSet(SubmitterRewardBy, DOMAIN fact)
           rV == SumFunctionOnSet(VoterRewardBy, DOMAIN fact_vote)
           nR == Cardinality(R)
           nA == Cardinality(A)
           nLR == Cardinality(LR)
           nLA == Cardinality(LA)
           nP == Cardinality(Proposed)
           nF == Cardinality(DOMAIN fact)
           nV == Cardinality(DOMAIN fact_vote)
           mP == Cardinality(Proposers)
           mF == Cardinality(Facts)
           mV == Cardinality(Voters)
<1>1. /\ TypeOK /\ VotesTallied /\ TotalsMatch /\ FactsByPhase /\ PoolsByPhase /\ BondsStand
    BY DEF BooksInv, DisputeInv, TypeInv, StakesInv
<1>2. Settled = DOMAIN fact
    BY <1>1 DEF FactsByPhase, Terminal, TerminalPhases
<1>3. Entitled \in Int /\ vault - Entitled = (ceil - floor) + (reward - rP - rS - rV)
    BY DustAtVerdict
<1>4. floor \in Nat /\ ceil \in Nat /\ floor <= ceil /\ ceil <= floor + nR + nLR
    BY <1>1, <1>2, LossesCoverForfeits
<1>5. /\ rP \in Nat /\ rP <= Bucket
      /\ Resolved /\ reward # 0 /\ oracle.total_correct_proposer_stake > 0 =>
             Bucket <= rP + nP
    BY <1>1, ProposerRewardsFit
<1>6. /\ rS \in Nat /\ rV \in Nat /\ rS + rV <= BucketOfFacts
      /\ Resolved => BucketOfFacts <= rS + rV + nA + nLA
    BY <1>1, FactRewardsFit
<1>7. /\ reward \in Nat /\ Bucket \in Nat /\ BucketOfFacts \in Nat
      /\ Bucket + BucketOfFacts <= reward
      /\ oracle.total_correct_proposer_stake > 0 => reward <= Bucket + BucketOfFacts + 1
    BY <1>1, PoolNats
<1>8. /\ nR \in Nat /\ nA \in Nat /\ nR + nA <= nF
      /\ nLR \in Nat /\ nLA \in Nat /\ nLR + nLA <= nV
  <2>1. /\ R \in SUBSET DOMAIN fact /\ A \in SUBSET DOMAIN fact /\ R \cap A = {}
        /\ LR \in SUBSET DOMAIN fact_vote /\ LA \in SUBSET DOMAIN fact_vote
        /\ LR \cap LA = {}
      BY DEF Rejected, Settled, AgreedFacts, ApproversOf
  <2> HIDE DEF R, A, LR, LA
  <2> QED
      BY <1>1, <2>1, ApartInside, FiniteAccounts, FiniteVotes
<1>9. /\ nV \in Nat /\ nF \in Nat /\ nP \in Nat /\ mP \in Nat /\ mF \in Nat /\ mV \in Nat
      /\ nV <= mF * mV /\ nF <= mF /\ nP <= mP
    BY <1>1, FiniteVotes
<1>10. vault \in Int
    BY <1>1, U64MaxAssumption, KassTypes DEF TypeOK, U64
<1>11. DustBound = 1 + mP + mF * (1 + mV)
    BY DEF DustBound
<1>12. oracle.phase = "InvalidDeadend" => reward = 0
    BY <1>1 DEF PoolsByPhase
<1>13. oracle.phase = "InvalidDeadend" \/ Resolved
    BY DEF Terminal, TerminalPhases, Resolved
<1>14. BondsPositive /\ reward # 0 => oracle.total_correct_proposer_stake > 0
    BY <1>1, CorrectHasStake
<1> HIDE DEF vault, reward, floor, ceil, rP, rS, rV, nR, nA, nLR, nLA, nP, nF, nV, mP,
    mF, mV
<1>15. Entitled <= vault
    BY <1>3, <1>4, <1>5, <1>6, <1>7, <1>10
<1>16. mF * (1 + mV) = mF + mF * mV /\ mF * mV \in Nat
    BY <1>9
<1>17. ASSUME BondsPositive PROVE reward - rP - rS - rV <= 1 + nP + nA + nLA
  <2>1. CASE reward = 0
      BY <1>5, <1>6, <1>7, <1>8, <1>9, <2>1
  <2>2. CASE reward # 0
      BY <1>5, <1>6, <1>7, <1>8, <1>9, <1>12, <1>13, <1>14, <1>17, <2>2
  <2> QED
      BY <2>1, <2>2
<1>18. ASSUME BondsPositive PROVE vault - Entitled <= DustBound
    BY <1>3, <1>4, <1>5, <1>6, <1>7, <1>8, <1>9, <1>11, <1>16, <1>17, <1>18
<1> QED
    BY <1>3, <1>15, <1>18 DEF vault

-----------------------------------------------------------------------------
\* The instructions of the dispute, and the stakes

\* Most touch no stake.
Quiet ==
    /\ UNCHANGED <<fact, fact_vote>>
    /\ Proposed' = Proposed
    /\ oracle'.total_oracle_stake = oracle.total_oracle_stake
    /\ oracle'.total_approved_fact_stake = oracle.total_approved_fact_stake

LEMMA StakeCases ==
    ASSUME TypeInv, [Next]_vars
    PROVE  \/ \E p \in Proposers, bond \in Bonds, option \in Options :
                  Propose(p, bond, option)
           \/ \E f \in Facts, stake \in Stakes : SubmitFact(f, stake)
           \/ \E f \in Facts, v \in Voters, kind \in Kinds, stake \in Stakes :
                  VoteFact(f, v, kind, stake)
           \/ \E F \in SUBSET DOMAIN fact : SettleFacts(F)
           \/ Quiet
<1>1. oracle \in OracleAccount /\ TypeOK
    BY DEF TypeInv, TypeOK
<1>2. ASSUME NEW S, SlashForNoFacts(S) PROVE Quiet
    BY <1>1, <1>2 DEF SlashForNoFacts, CanSlashForNoFacts, PoolWithout,
        SurvivingWithout, UpdateAll, Quiet, OracleAccount, Proposed
<1>3. ASSUME NEW p \in Proposed, NEW option, SubmitAiClaim(p, option) PROVE Quiet
    BY <1>1, <1>3 DEF SubmitAiClaim, Quiet, Proposed
<1>4. ASSUME NEW S, FinalizeAiClaims(S) PROVE Quiet
    BY <1>1, <1>4 DEF FinalizeAiClaims, CanFinalizeAiClaims, NoShowsIn, UpdateAll,
        Quiet, OracleAccount, Proposed
<1>5. ASSUME NEW p, NEW question, NEW price, OpenChallenge(p, question, price) PROVE Quiet
    BY <1>1, <1>5 DEF OpenChallenge, Quiet, OracleAccount, Proposed
<1>6. ASSUME NEW p, SettleSuccessful(p) PROVE Quiet
    BY <1>1, <1>6 DEF SettleSuccessful, CanSettleSuccessful, ToppedUp, Quiet,
        OracleAccount, Proposed
<1>7. ASSUME NEW p, SettleFailed(p) PROVE Quiet
    BY <1>1, <1>7 DEF SettleFailed, Quiet, OracleAccount, Proposed
<1>8. ASSUME PhaseMove PROVE Quiet
  <2>1. CASE \E option \in Options : FinalizeAgreedProposals(option)
      BY <1>1, <2>1 DEF FinalizeAgreedProposals, CanFinalizeAgreed, Quiet,
          OracleAccount, Proposed
  <2>2. CASE FinalizeDisputedProposals
      BY <1>1, <2>2 DEF FinalizeDisputedProposals, CanFinalizeDisputed, Quiet,
          OracleAccount, Proposed
  <2>3. CASE AdvancePhase
      BY <1>1, <2>3 DEF AdvancePhase, CanAdvancePhase, Quiet, OracleAccount, Proposed
  <2>4. CASE Resolve
      BY <1>1, <2>4 DEF Resolve, CanResolve, BondsFor, Quiet, OracleAccount, Proposed
  <2>5. CASE DeadEnd
      BY <1>1, <2>5 DEF DeadEnd, CanDeadEnd, Quiet, OracleAccount, Proposed
  <2>6. CASE \E option \in Options : ResolveDeadend(option)
      BY <1>1, <2>6 DEF ResolveDeadend, Quiet, OracleAccount, Proposed
  <2>7. CASE Tick \/ UNCHANGED vars
      BY <1>1, <2>7 DEF Tick, vars, Quiet, Proposed
  <2> QED
      BY <1>8, <2>1, <2>2, <2>3, <2>4, <2>5, <2>6, <2>7
      DEF PhaseMove, FinalizeProposals, FinalizeOracle
<1> QED
    BY <1>2, <1>3, <1>4, <1>5, <1>6, <1>7, <1>8, StepCases DEF Kinds

\* No bond changes once it is posted.
LEMMA BondsKept ==
    ASSUME TypeInv, SlashesOrdered, [Next]_vars
    PROVE  \A p \in Proposed : p \in Proposed' /\ proposer'[p].bond = proposer[p].bond
<1> SUFFICES ASSUME NEW p \in Proposed
             PROVE  p \in Proposed' /\ proposer'[p].bond = proposer[p].bond
    OBVIOUS
<1>1. proposer[p] \in ProposerAccount /\ SlashOrdered(proposer[p])
    BY DEF TypeInv, TypeOK, AccountsOf, Proposed, SlashesOrdered, SlashOrdered
<1>2. p \in Proposed' /\ AccountStep(proposer[p], proposer'[p])
    BY ProposersStep
<1> QED
    BY <1>1, <1>2, AccountStepSlashes

LEMMA SubmitFactTallies ==
    ASSUME TypeOK, VotesTallied, VotesOnFacts, NEW f, NEW stake, SubmitFact(f, stake)
    PROVE  VotesTallied' /\ VotesOnFacts'
<1>1. /\ f \notin DOMAIN fact /\ DOMAIN fact' = DOMAIN fact \cup {f}
      /\ fact'[f].approve_stake = 0 /\ fact'[f].duplicate_stake = 0
      /\ \A g \in DOMAIN fact : fact'[g] = fact[g]
      /\ fact_vote' = fact_vote
    BY DEF SubmitFact, Create
<1>2. StakeBy' = StakeBy
    BY <1>1 DEF StakeBy
<1>3. \A g, kind : VotesOn(g, kind)' = VotesOn(g, kind)
    BY <1>1 DEF VotesOn
<1>4. \A kind : VotesOn(f, kind) = {}
    BY <1>1 DEF VotesOn, VotesOnFacts
<1>5. ASSUME NEW g \in DOMAIN fact', NEW kind \in Kinds
      PROVE  Tally(fact'[g], kind) = SumFunctionOnSet(StakeBy', VotesOn(g, kind)')
  <2>1. SumFunctionOnSet(StakeBy', VotesOn(g, kind)')
          = SumFunctionOnSet(StakeBy, VotesOn(g, kind))
      BY <1>2, <1>3, Zenon
  <2>2. CASE g = f
    <3>1. SumFunctionOnSet(StakeBy, VotesOn(g, kind)) = 0
        BY <1>4, <2>2, SumEmpty
    <3> QED
        BY <1>1, <2>1, <2>2, <3>1 DEF Tally
  <2>3. CASE g # f
    <3>1. g \in DOMAIN fact /\ fact'[g] = fact[g]
        BY <1>1, <2>3
    <3>2. Tally(fact[g], kind) = SumFunctionOnSet(StakeBy, VotesOn(g, kind))
        BY <3>1 DEF VotesTallied
    <3> QED
        BY <2>1, <3>1, <3>2, Zenon
  <2> QED
      BY <2>2, <2>3
<1>6. VotesOnFacts'
    BY <1>1 DEF VotesOnFacts
<1>7. VotesTallied'
    BY <1>5 DEF VotesTallied
<1> QED
    BY <1>6, <1>7

LEMMA TalliedEffect ==
    ASSUME NEW a \in FactAccount, NEW kind \in Kinds, NEW stake
    PROVE  /\ Tally(Tallied(a, kind, stake), kind) = Tally(a, kind) + stake
           /\ \A other \in Kinds \ {kind} :
                  Tally(Tallied(a, kind, stake), other) = Tally(a, other)
           /\ Tallied(a, kind, stake).stake = a.stake
           /\ Tallied(a, kind, stake).agreed = a.agreed
           /\ Tallied(a, kind, stake).settled = a.settled
BY DEF Tally, Tallied, FactAccount, Kinds

LEMMA VoteFactTallies ==
    ASSUME TypeOK, VotesTallied, VotesOnFacts, NEW f, NEW v, NEW kind \in Kinds,
           NEW stake \in Stakes, VoteFact(f, v, kind, stake)
    PROVE  VotesTallied' /\ VotesOnFacts'
<1> DEFINE key == <<f, v>>
           V == DOMAIN fact_vote
<1>1. /\ f \in DOMAIN fact /\ fact[f] \in FactAccount /\ stake \in Int /\ key[1] = f
    BY DisputeAssumption, U64MaxAssumption DEF VoteFact, TypeOK, AccountsOf, U64
<1>2. /\ DOMAIN fact' = DOMAIN fact
      /\ fact'[f] = Tallied(fact[f], kind, stake)
      /\ \A g \in DOMAIN fact \ {f} : fact'[g] = fact[g]
    BY <1>1 DEF VoteFact
<1>3. /\ key \notin V /\ DOMAIN fact_vote' = V \cup {key}
      /\ fact_vote'[key] = [kind |-> kind, stake |-> stake]
      /\ \A fv \in V : fact_vote'[fv] = fact_vote[fv]
    BY DEF VoteFact, Create
<1> HIDE DEF key, V
<1>4. VotesOnFacts'
    BY <1>1, <1>2, <1>3 DEF VotesOnFacts, V
<1>5. StakeBy'[key] = stake /\ \A fv \in V : StakeBy'[fv] = StakeBy[fv]
    BY <1>3 DEF StakeBy, V
<1>6. \A g, other : /\ VotesOn(g, other) \in SUBSET V /\ IsFiniteSet(VotesOn(g, other))
                    /\ IntOn(StakeBy, VotesOn(g, other))
  <2> SUFFICES ASSUME NEW g, NEW other
               PROVE  /\ VotesOn(g, other) \in SUBSET V /\ IsFiniteSet(VotesOn(g, other))
                      /\ IntOn(StakeBy, VotesOn(g, other))
      OBVIOUS
  <2>1. VotesOn(g, other) \in SUBSET V
      BY DEF VotesOn, V
  <2>2. IsFiniteSet(V) /\ IntOn(StakeBy, V)
      BY FiniteVotes, StakeSums DEF V
  <2> QED
      BY <2>1, <2>2, FS_Subset DEF IntOn
<1>7. VotesOn(f, kind)' = VotesOn(f, kind) \cup {key}
    BY <1>1, <1>3 DEF VotesOn, V
<1>8. \A g, other : g # f \/ other # kind => VotesOn(g, other)' = VotesOn(g, other)
    BY <1>1, <1>3 DEF VotesOn, V
<1>9. ASSUME NEW g \in DOMAIN fact', NEW other \in Kinds
      PROVE  Tally(fact'[g], other) = SumFunctionOnSet(StakeBy', VotesOn(g, other)')
  <2>1. g \in DOMAIN fact
        /\ Tally(fact[g], other) = SumFunctionOnSet(StakeBy, VotesOn(g, other))
      BY <1>2 DEF VotesTallied
  <2>2. CASE g = f /\ other = kind
    <3>1. key \notin VotesOn(f, kind)
        BY <1>3, <1>6
    <3>2. SumFunctionOnSet(StakeBy', VotesOn(f, kind) \cup {key})
            = SumFunctionOnSet(StakeBy, VotesOn(f, kind)) + stake
      <4>1. \A fv \in VotesOn(f, kind) \ {key} : StakeBy'[fv] = StakeBy[fv]
          BY <1>5, <1>6
      <4> QED
          BY <1>1, <1>5, <1>6, <3>1, <4>1, SumCredit
    <3>3. Tally(fact'[g], other) = Tally(fact[g], other) + stake
        BY <1>1, <1>2, <2>2, TalliedEffect
    <3>4. SumFunctionOnSet(StakeBy', VotesOn(g, other)')
            = SumFunctionOnSet(StakeBy', VotesOn(f, kind) \cup {key})
        BY <1>7, <2>2, Zenon
    <3> QED
        BY <2>1, <2>2, <3>2, <3>3, <3>4
  <2>3. CASE g # f \/ other # kind
    <3>1. SumFunctionOnSet(StakeBy', VotesOn(g, other)')
            = SumFunctionOnSet(StakeBy', VotesOn(g, other))
        BY <1>8, <2>3, Zenon
    <3>2. \A fv \in VotesOn(g, other) : StakeBy'[fv] = StakeBy[fv]
        BY <1>5, <1>6
    <3>3. SumFunctionOnSet(StakeBy', VotesOn(g, other))
            = SumFunctionOnSet(StakeBy, VotesOn(g, other))
        BY <1>6, <3>2, SumCongruence
    <3>4. Tally(fact'[g], other) = Tally(fact[g], other)
        BY <1>1, <1>2, <2>1, <2>3, TalliedEffect
    <3> QED
        BY <2>1, <3>1, <3>3, <3>4
  <2> QED
      BY <2>2, <2>3
<1> QED
    BY <1>4, <1>9 DEF VotesTallied

LEMMA TalliesStep ==
    ASSUME TypeInv, VotesTallied, VotesOnFacts, [Next]_vars
    PROVE  VotesTallied' /\ VotesOnFacts'
<1>1. TypeOK
    BY DEF TypeInv
<1>2. ASSUME /\ fact_vote' = fact_vote /\ DOMAIN fact' = DOMAIN fact
             /\ \A f \in DOMAIN fact : \A kind \in Kinds :
                    Tally(fact'[f], kind) = Tally(fact[f], kind)
      PROVE  VotesTallied' /\ VotesOnFacts'
  <2>1. StakeBy' = StakeBy /\ \A g, kind : VotesOn(g, kind)' = VotesOn(g, kind)
      BY <1>2 DEF StakeBy, VotesOn
  <2>2. VotesOnFacts'
      BY <1>2 DEF VotesOnFacts
  <2>3. ASSUME NEW f \in DOMAIN fact', NEW kind \in Kinds
        PROVE  Tally(fact'[f], kind) = SumFunctionOnSet(StakeBy', VotesOn(f, kind)')
    <3>1. f \in DOMAIN fact /\ Tally(fact'[f], kind) = Tally(fact[f], kind)
        BY <1>2, <2>3
    <3>2. Tally(fact[f], kind) = SumFunctionOnSet(StakeBy, VotesOn(f, kind))
        BY <3>1 DEF VotesTallied
    <3> QED
        BY <2>1, <3>1, <3>2, Zenon
  <2> QED
      BY <2>2, <2>3 DEF VotesTallied
<1>3. ASSUME NEW F \in SUBSET DOMAIN fact, SettleFacts(F)
      PROVE  VotesTallied' /\ VotesOnFacts'
  <2>1. /\ fact_vote' = fact_vote /\ DOMAIN fact' = DOMAIN fact
        /\ \A f \in DOMAIN fact : fact'[f] \in {fact[f], SettledFact(fact[f])}
      BY <1>3 DEF SettleFacts, CanSettleFacts, UpdateAll
  <2>2. \A a \in FactAccount : /\ SettledFact(a).approve_stake = a.approve_stake
                               /\ SettledFact(a).duplicate_stake = a.duplicate_stake
      BY DEF SettledFact, FactAccount
  <2>3. \A f \in DOMAIN fact : fact[f] \in FactAccount
      BY <1>1 DEF TypeOK, AccountsOf
  <2>4. \A f \in DOMAIN fact : \A kind \in Kinds :
            Tally(fact'[f], kind) = Tally(fact[f], kind)
      BY <2>1, <2>2, <2>3 DEF Tally
  <2> QED
      BY <1>2, <2>1, <2>4
<1>4. ASSUME NEW p, NEW bond, NEW option, Propose(p, bond, option)
      PROVE  VotesTallied' /\ VotesOnFacts'
    BY <1>2, <1>4 DEF Propose
<1>5. CASE Quiet
    BY <1>2, <1>5 DEF Quiet
<1> QED
    BY <1>1, <1>3, <1>4, <1>5, StakeCases, SubmitFactTallies, VoteFactTallies

\* The totals of the Oracle account and the sums they stand for.
LEMMA TotalSums ==
    ASSUME TypeOK
    PROVE  /\ SumFunction(BondBy) = SumFunctionOnSet(BondBy, Proposed)
           /\ SumFunction(HeldBy) = SumFunctionOnSet(HeldBy, DOMAIN fact)
           /\ SumFunction(ApprovedBy) = SumFunctionOnSet(ApprovedBy, DOMAIN fact)
           /\ SumFunction(BondBy) \in Int /\ SumFunction(HeldBy) \in Int
           /\ SumFunction(ApprovedBy) \in Int
<1>1. /\ SumFunction(BondBy) = SumFunctionOnSet(BondBy, Proposed)
      /\ SumFunction(HeldBy) = SumFunctionOnSet(HeldBy, DOMAIN fact)
      /\ SumFunction(ApprovedBy) = SumFunctionOnSet(ApprovedBy, DOMAIN fact)
    BY SumOver DEF BondBy, HeldBy, ApprovedBy
<1> QED
    BY <1>1, StakeSums, FiniteAccounts, SumInt

LEMMA TotalsStep ==
    ASSUME TypeInv, SlashesOrdered, FactsInOrder, TotalsMatch, [Next]_vars
    PROVE  TotalsMatch'
<1>1. /\ TypeOK /\ oracle \in OracleAccount /\ IsFiniteSet(Proposed)
      /\ IsFiniteSet(DOMAIN fact) /\ now \in Nat /\ oracle.phase_ends_at \in Nat
    BY FiniteAccounts DEF TypeInv, TypeOK, OracleAccount
<1>2. /\ IntOn(BondBy, Proposed) /\ IntOn(HeldBy, DOMAIN fact) /\ IntOn(ApprovedBy, DOMAIN fact)
    BY <1>1, StakeSums
<1>3. ASSUME fact' = fact
      PROVE  /\ SumFunction(HeldBy)' = SumFunction(HeldBy)
             /\ SumFunction(ApprovedBy)' = SumFunction(ApprovedBy)
    BY <1>3 DEF HeldBy, ApprovedBy
<1>4. ASSUME Proposed' = Proposed
      PROVE  SumFunction(BondBy)' = SumFunction(BondBy)
  <2>1. BondBy' = BondBy
      BY <1>4, BondsKept DEF BondBy
  <2> QED
      BY <2>1
<1>5. ASSUME NEW p, NEW bond \in Bonds, NEW option, Propose(p, bond, option)
      PROVE  TotalsMatch'
  <2>1. bond \in Int
      BY DisputeAssumption, U64MaxAssumption DEF U64
  <2>2. /\ oracle'.total_oracle_stake = oracle.total_oracle_stake + bond
        /\ oracle'.total_approved_fact_stake = oracle.total_approved_fact_stake
        /\ fact' = fact
      BY <1>1, <1>5 DEF Propose, OracleAccount
  <2>3. /\ p \notin Proposed /\ Proposed' = Proposed \cup {p} /\ BondBy'[p] = bond
        /\ \A q \in Proposed : BondBy'[q] = BondBy[q]
      BY <1>5 DEF Propose, Create, Proposed, BondBy
  <2>4. SumFunctionOnSet(BondBy', Proposed \cup {p}) = SumFunctionOnSet(BondBy, Proposed) + bond
    <3>1. /\ \A q \in Proposed \ {p} : BondBy'[q] = BondBy[q]
          /\ p \in Proposed => BondBy'[p] = BondBy[p] + bond
          /\ p \notin Proposed => BondBy'[p] = bond
        BY <2>3
    <3>2. IsFiniteSet(Proposed) /\ IntOn(BondBy, Proposed)
        BY <1>1, <1>2
    <3> QED
        BY <2>1, <3>1, <3>2, SumCredit
  <2>5. SumFunction(BondBy)' = SumFunctionOnSet(BondBy', Proposed \cup {p})
      BY <2>3, SumOver DEF BondBy
  <2> QED
      BY <1>1, <1>3, <2>1, <2>2, <2>4, <2>5, TotalSums DEF TotalsMatch
<1>6. ASSUME NEW f, NEW stake \in Stakes, SubmitFact(f, stake)
      PROVE  TotalsMatch'
  <2>1. stake \in Int
      BY DisputeAssumption, U64MaxAssumption DEF U64
  <2>2. /\ oracle'.total_oracle_stake = oracle.total_oracle_stake + stake
        /\ oracle'.total_approved_fact_stake = oracle.total_approved_fact_stake
        /\ Proposed' = Proposed
      BY <1>1, <1>6 DEF SubmitFact, OracleAccount, Proposed
  <2>3. /\ f \notin DOMAIN fact /\ DOMAIN fact' = DOMAIN fact \cup {f}
        /\ HeldBy'[f] = stake /\ ApprovedBy'[f] = 0
        /\ \A g \in DOMAIN fact : HeldBy'[g] = HeldBy[g] /\ ApprovedBy'[g] = ApprovedBy[g]
      BY <1>6, <2>1 DEF SubmitFact, Create, HeldBy, ApprovedBy
  <2>4. SumFunctionOnSet(HeldBy', DOMAIN fact \cup {f})
          = SumFunctionOnSet(HeldBy, DOMAIN fact) + stake
    <3>1. f \notin DOMAIN fact /\ HeldBy'[f] = stake
        BY <2>3
    <3>2. \A g \in DOMAIN fact \ {f} : HeldBy'[g] = HeldBy[g]
        BY <2>3
    <3>3. IsFiniteSet(DOMAIN fact) /\ IntOn(HeldBy, DOMAIN fact)
        BY <1>1, <1>2
    <3> QED
        BY <2>1, <3>1, <3>2, <3>3, SumCredit
  <2>6. SumFunctionOnSet(ApprovedBy', DOMAIN fact \cup {f})
           = SumFunctionOnSet(ApprovedBy, DOMAIN fact) + 0
    <3>1. f \notin DOMAIN fact /\ ApprovedBy'[f] = 0 /\ 0 \in Int
        BY <2>3
    <3>2. \A g \in DOMAIN fact \ {f} : ApprovedBy'[g] = ApprovedBy[g]
        BY <2>3
    <3> QED
        BY <1>1, <1>2, <3>1, <3>2, SumCredit
  <2>5. /\ SumFunction(HeldBy)' = SumFunctionOnSet(HeldBy', DOMAIN fact \cup {f})
        /\ SumFunction(ApprovedBy)' = SumFunctionOnSet(ApprovedBy', DOMAIN fact \cup {f})
      BY <2>3, SumOver DEF HeldBy, ApprovedBy
  <2> QED
      BY <1>1, <1>4, <2>1, <2>2, <2>4, <2>5, <2>6, TotalSums DEF TotalsMatch
<1>7. ASSUME NEW f, NEW v, NEW kind \in Kinds, NEW stake \in Stakes,
             VoteFact(f, v, kind, stake)
      PROVE  TotalsMatch'
  <2>1. /\ stake \in Int /\ f \in DOMAIN fact /\ fact[f] \in FactAccount
        /\ fact[f].stake \in Nat /\ fact[f].approve_stake \in Nat
        /\ fact[f].duplicate_stake \in Nat
      BY <1>1, <1>7, AccountNats, DisputeAssumption, U64MaxAssumption
      DEF VoteFact, TypeOK, AccountsOf, U64
  <2>2. /\ oracle'.total_oracle_stake = oracle.total_oracle_stake + stake
        /\ oracle'.total_approved_fact_stake = oracle.total_approved_fact_stake
        /\ Proposed' = Proposed
      BY <1>1, <1>7 DEF VoteFact, OracleAccount, Proposed
  <2>3. ~fact[f].agreed
      BY <1>1, <1>7, <2>1 DEF VoteFact, FactsInOrder, Settled, BeforeEnd, AfterEnd
  <2>4. /\ DOMAIN fact' = DOMAIN fact
        /\ fact'[f] = Tallied(fact[f], kind, stake)
        /\ \A g \in DOMAIN fact \ {f} : fact'[g] = fact[g]
      BY <1>7, <2>1 DEF VoteFact
  <2>5. /\ HeldBy'[f] = HeldBy[f] + stake
        /\ \A g \in DOMAIN fact \ {f} : HeldBy'[g] = HeldBy[g]
    <3>1. /\ fact'[f].stake = fact[f].stake
          /\ fact'[f].approve_stake + fact'[f].duplicate_stake
               = fact[f].approve_stake + fact[f].duplicate_stake + stake
          /\ fact'[f].approve_stake \in Int /\ fact'[f].duplicate_stake \in Int
        BY <2>1, <2>4 DEF Tallied, FactAccount, Kinds
    <3> QED
        BY <2>1, <2>4, <3>1 DEF HeldBy
  <2>6. \A g \in DOMAIN fact : ApprovedBy'[g] = ApprovedBy[g]
      BY <2>1, <2>3, <2>4, TalliedEffect DEF ApprovedBy
  <2>7. ApprovedBy' = ApprovedBy
      BY <2>4, <2>6 DEF ApprovedBy
  <2>8. SumFunctionOnSet(HeldBy', DOMAIN fact \cup {f})
          = SumFunctionOnSet(HeldBy, DOMAIN fact) + stake
    <3>1. f \in DOMAIN fact
        BY <2>1
    <3> QED
        BY <1>1, <1>2, <2>1, <2>5, <3>1, SumCredit
  <2>9. SumFunction(HeldBy)' = SumFunctionOnSet(HeldBy', DOMAIN fact \cup {f})
    <3>1. DOMAIN fact \cup {f} = DOMAIN HeldBy'
        BY <2>1, <2>4 DEF HeldBy
    <3> QED
        BY <3>1, SumOver
  <2> QED
      BY <1>1, <1>4, <2>1, <2>2, <2>7, <2>8, <2>9, TotalSums DEF TotalsMatch
<1>8. ASSUME NEW F \in SUBSET DOMAIN fact, SettleFacts(F)
      PROVE  TotalsMatch'
  <2> DEFINE d == [f \in F |-> ApprovedStake(fact[f])]
  <2>1. /\ oracle'.total_oracle_stake = oracle.total_oracle_stake
        /\ oracle'.total_approved_fact_stake = oracle.total_approved_fact_stake + ApprovedIn(F)
        /\ Proposed' = Proposed
      BY <1>1, <1>8 DEF SettleFacts, CanSettleFacts, OracleAccount, Proposed
  <2>2. /\ DOMAIN fact' = DOMAIN fact
        /\ \A f \in F : fact'[f] = SettledFact(fact[f])
        /\ \A f \in DOMAIN fact \ F : fact'[f] = fact[f]
      BY <1>8 DEF SettleFacts, CanSettleFacts, UpdateAll
  <2>3. ASSUME NEW f \in F
        PROVE  /\ fact'[f].stake = fact[f].stake
               /\ fact'[f].approve_stake = fact[f].approve_stake
               /\ fact'[f].duplicate_stake = fact[f].duplicate_stake
               /\ ~fact[f].agreed
               /\ fact'[f].agreed <=> IsAgreed(fact[f])
    <3>1. /\ fact[f] \in FactAccount /\ ~fact[f].settled /\ ~fact[f].agreed
          /\ fact[f].approve_stake \in Nat /\ fact[f].duplicate_stake \in Nat
        BY <1>1, <1>8, AccountNats DEF SettleFacts, CanSettleFacts, FactsInOrder,
            TypeOK, AccountsOf
    <3>2. DuplicateDominant(fact[f]) => ~IsAgreed(fact[f])
        BY <3>1 DEF DuplicateDominant, IsAgreed
    <3>3. IsAgreed(fact[f]) \in BOOLEAN
        BY DEF IsAgreed
    <3> QED
        BY <2>2, <3>1, <3>2, <3>3 DEF SettledFact, FactAccount
  <2>4. \A f \in DOMAIN fact : HeldBy'[f] = HeldBy[f]
      BY <2>2, <2>3 DEF HeldBy
  <2>5. HeldBy' = HeldBy
      BY <2>2, <2>4 DEF HeldBy
  <2>6. /\ \A f \in F : ApprovedBy'[f] = ApprovedBy[f] + d[f]
        /\ \A f \in DOMAIN fact \ F : ApprovedBy'[f] = ApprovedBy[f]
      BY <1>1, <2>2, <2>3, AccountNats DEF ApprovedBy, ApprovedStake
  <2>7. IntOn(d, F) /\ IsFiniteSet(F)
      BY <1>1, AccountNats, FS_Subset DEF IntOn, ApprovedStake
  <2>8. SumFunctionOnSet(d, F) = ApprovedIn(F)
      BY SumOver DEF ApprovedIn
  <2> HIDE DEF d
  <2>9. SumFunctionOnSet(ApprovedBy', DOMAIN fact)
          = SumFunctionOnSet(ApprovedBy, DOMAIN fact) + SumFunctionOnSet(d, F)
      BY <1>1, <1>2, <2>6, <2>7, SumBatch
  <2>10. SumFunction(ApprovedBy)' = SumFunctionOnSet(ApprovedBy', DOMAIN fact)
      BY <2>2, SumOver DEF ApprovedBy
  <2>11. SumFunctionOnSet(d, F) \in Int
      BY <2>7, SumInt
  <2> QED
      BY <1>1, <1>4, <2>1, <2>5, <2>8, <2>9, <2>10, <2>11, TotalSums DEF TotalsMatch
<1>9. CASE Quiet
  <2>1. SumFunction(BondBy)' = SumFunction(BondBy)
      BY <1>4, <1>9 DEF Quiet
  <2>2. /\ SumFunction(HeldBy)' = SumFunction(HeldBy)
        /\ SumFunction(ApprovedBy)' = SumFunction(ApprovedBy)
      BY <1>3, <1>9 DEF Quiet
  <2> QED
      BY <1>9, <2>1, <2>2 DEF Quiet, TotalsMatch
<1> QED
    BY <1>5, <1>6, <1>7, <1>8, <1>9, StakeCases

LEMMA FactsByPhaseStep ==
    ASSUME TypeInv, CountersAccurate', TypeOK', FactsByPhase, [Next]_vars
    PROVE  FactsByPhase'
<1>1. TypeOK /\ oracle \in OracleAccount /\ IsFiniteSet(DOMAIN fact)
    BY FiniteAccounts DEF TypeInv, TypeOK
<1>2. ASSUME NEW p, NEW bond, NEW option, Propose(p, bond, option)
      PROVE  FactsByPhase'
  <2>1. /\ oracle.phase = "Proposal" /\ oracle'.phase = "Proposal" /\ fact' = fact
        /\ proposer'[p].claim_option = CLAIM_OPTION_NONE /\ ~proposer'[p].disqualified
        /\ Proposed' = Proposed \cup {p}
        /\ \A q \in Proposed : proposer'[q] = proposer[q]
      BY <1>1, <1>2 DEF Propose, Create, Proposed, OracleAccount
  <2> QED
      BY <2>1 DEF FactsByPhase, NoShow
<1>3. ASSUME oracle'.phase \in {"FactProposal", "FactVoting"}
      PROVE  FactsByPhase'
    BY <1>3 DEF FactsByPhase
<1>4. ASSUME NEW f, NEW stake, SubmitFact(f, stake)
      PROVE  FactsByPhase'
    BY <1>1, <1>3, <1>4 DEF SubmitFact, OracleAccount
<1>5. ASSUME NEW f, NEW v, NEW kind, NEW stake, VoteFact(f, v, kind, stake)
      PROVE  FactsByPhase'
    BY <1>1, <1>3, <1>5 DEF VoteFact, OracleAccount
<1>6. ASSUME NEW S, SlashForNoFacts(S)
      PROVE  FactsByPhase'
  <2>1. /\ oracle.phase = "FactVoting" /\ fact' = fact
        /\ oracle'.phase \in {"FactVoting", "InvalidDeadend"}
        /\ oracle'.fact_count = 0
      BY <1>1, <1>6 DEF SlashForNoFacts, CanSlashForNoFacts, PoolWithout,
          SurvivingWithout, FactVotingClosed, OracleAccount
  <2>2. DOMAIN fact' = {}
      BY <1>1, <2>1, FS_EmptySet DEF CountersAccurate
  <2> QED
      BY <2>1, <2>2 DEF FactsByPhase, Settled
<1>7. ASSUME NEW F, SettleFacts(F)
      PROVE  FactsByPhase'
  <2>1. \/ oracle'.phase = "FactVoting"
        \/ oracle'.phase = "AiClaim" /\ oracle'.settled_count = oracle'.fact_count
      BY <1>1, <1>7 DEF SettleFacts, CanSettleFacts, FactVotingClosed, OracleAccount
  <2>2. CASE oracle'.phase = "AiClaim" /\ oracle'.settled_count = oracle'.fact_count
    <3>1. Cardinality(Settled') = Cardinality(DOMAIN fact')
        BY <2>2 DEF CountersAccurate
    <3>2. IsFiniteSet(DOMAIN fact') /\ Settled' \in SUBSET DOMAIN fact'
      <4>1. DOMAIN fact' \subseteq Facts
          BY DEF TypeOK, AccountsOf
      <4> QED
          BY <4>1, FS_Subset, DisputeAssumption DEF Settled
    <3>3. Settled' = DOMAIN fact'
        BY <3>1, <3>2, FS_Subset
    <3> QED
        BY <2>2, <3>3 DEF FactsByPhase
  <2> QED
      BY <1>3, <2>1, <2>2
<1>8. ASSUME fact' = fact, oracle.phase \notin {"Proposal", "FactProposal", "FactVoting"},
             oracle'.phase # "Proposal"
      PROVE  FactsByPhase'
    BY <1>8 DEF FactsByPhase, Settled
<1>9. ASSUME NEW p, NEW option, SubmitAiClaim(p, option)
      PROVE  FactsByPhase'
    BY <1>8, <1>9 DEF SubmitAiClaim
<1>10. ASSUME NEW S, FinalizeAiClaims(S)
       PROVE  FactsByPhase'
    BY <1>1, <1>8, <1>10 DEF FinalizeAiClaims, CanFinalizeAiClaims, NoShowsIn,
        OracleAccount
<1>11. ASSUME NEW p, NEW question, NEW price, OpenChallenge(p, question, price)
       PROVE  FactsByPhase'
    BY <1>1, <1>8, <1>11 DEF OpenChallenge, OracleAccount
<1>12. ASSUME NEW p, SettleSuccessful(p) \/ SettleFailed(p)
       PROVE  FactsByPhase'
    BY <1>1, <1>8, <1>12
    DEF SettleSuccessful, CanSettleSuccessful, ToppedUp, SettleFailed,
        SettleableMarket, OracleAccount
<1>13. ASSUME PhaseMove
       PROVE  FactsByPhase'
  <2>1. fact' = fact /\ proposer' = proposer
      BY <1>1, <1>13, PhaseMoveKeeps
  <2>2. CASE oracle'.phase = oracle.phase
      BY <2>1, <2>2 DEF FactsByPhase, Settled, Proposed
  <2>3. CASE \E option \in Options : FinalizeAgreedProposals(option)
    <3>1. oracle.phase = "Proposal" /\ oracle'.phase = "Resolved"
        BY <1>1, <2>3 DEF FinalizeAgreedProposals, CanFinalizeAgreed, ProposalsClosed,
            OracleAccount
    <3> QED
        BY <2>1, <3>1 DEF FactsByPhase, Settled
  <2>4. CASE FinalizeDisputedProposals \/ AdvancePhase
      BY <1>1, <1>3, <2>4 DEF FinalizeDisputedProposals, CanFinalizeDisputed,
          AdvancePhase, CanAdvancePhase, OracleAccount
  <2>5. CASE FinalizeOracle
      BY <1>1, <1>8, <2>1, <2>5
      DEF FinalizeOracle, Resolve, CanResolve, BondsFor, DeadEnd, CanDeadEnd,
          ChallengesClosed, OracleAccount
  <2>6. CASE \E option \in Options : ResolveDeadend(option)
      BY <1>1, <1>8, <2>1, <2>6 DEF ResolveDeadend, OracleAccount
  <2>7. CASE Tick \/ UNCHANGED vars
      BY <2>2, <2>7 DEF Tick, vars
  <2> QED
      BY <1>13, <2>3, <2>4, <2>5, <2>6, <2>7 DEF PhaseMove, FinalizeProposals
<1> QED
    BY <1>2, <1>4, <1>5, <1>6, <1>7, <1>9, <1>10, <1>11, <1>12, <1>13, StepCases

LEMMA BondsStandStep ==
    ASSUME TypeInv, SlashesOrdered, BondsStand, [Next]_vars
    PROVE  BondsStand'
<1> SUFFICES ASSUME BondsPositive, NEW p \in Proposed'
             PROVE  proposer'[p].bond > 0
    BY DEF BondsStand, BondsPositive
<1>1. CASE p \in Proposed
    BY <1>1, BondsKept DEF BondsStand
<1>2. ASSUME NEW q, NEW bond \in Bonds, NEW option, Propose(q, bond, option),
             p \notin Proposed
      PROVE  proposer'[p].bond > 0
    BY <1>2 DEF Propose, Create, Proposed, BondsPositive
<1>3. CASE p \notin Proposed
  <2>1. PICK q \in Proposers, bond \in Bonds, option \in Options :
            Propose(q, bond, option)
    <3>1. ASSUME NEW f, NEW stake, SubmitFact(f, stake) PROVE Proposed' = Proposed
        BY <3>1 DEF SubmitFact, Proposed
    <3>2. ASSUME NEW f, NEW v, NEW kind, NEW stake, VoteFact(f, v, kind, stake)
          PROVE  Proposed' = Proposed
        BY <3>2 DEF VoteFact, Proposed
    <3>3. ASSUME NEW F, SettleFacts(F) PROVE Proposed' = Proposed
        BY <3>3 DEF SettleFacts, CanSettleFacts, Proposed
    <3> QED
        BY <1>3, <3>1, <3>2, <3>3, StakeCases DEF Quiet
  <2> QED
      BY <1>2, <1>3, <2>1
<1> QED
    BY <1>1, <1>3

-----------------------------------------------------------------------------
\* The pool that a verdict shares out

LEMMA AgreedVerdict ==
    ASSUME TypeOK, CountersAccurate, TotalsMatch, FactsByPhase, PoolsByPhase,
           NEW option \in Options, FinalizeAgreedProposals(option)
    PROVE  PoolsByPhase'
<1>1. oracle \in OracleAccount /\ oracle.phase = "Proposal"
    BY DEF TypeOK, FinalizeAgreedProposals, CanFinalizeAgreed, ProposalsClosed
<1>2. /\ oracle'.phase = "Resolved" /\ oracle'.resolved_option = option
      /\ oracle'.bond_pool = oracle.bond_pool
      /\ oracle'.reward_pool = oracle.bond_pool + RewardEmission
      /\ oracle'.total_correct_proposer_stake = oracle.total_oracle_stake
      /\ proposer' = proposer /\ kass' = kass
    BY <1>1 DEF FinalizeAgreedProposals, CanFinalizeAgreed, OracleAccount
<1>3. kass.burned = 0
    BY <1>1 DEF PoolsByPhase, Terminal, TerminalPhases
<1>4. Correct' = Proposed
  <2>1. \A p \in Proposed : /\ ~proposer[p].disqualified /\ NoShow(proposer[p])
                            /\ proposer[p].original_option = option
      BY <1>1 DEF FactsByPhase, FinalizeAgreedProposals, CanFinalizeAgreed, Agreed
  <2> QED
      BY <1>2, <2>1 DEF Correct, Survivors, BackedResolved, NoShow, Proposed
<1>5. Proposed # {}
    BY FS_EmptySet DEF CountersAccurate, FinalizeAgreedProposals, CanFinalizeAgreed,
        ProposalsClosed
<1>6. oracle.total_oracle_stake = BondsOf(Proposed)
  <2>1. SumFunction(HeldBy) = 0
    <3>1. DOMAIN fact = {}
        BY <1>1 DEF FactsByPhase
    <3>2. SumFunctionOnSet(HeldBy, DOMAIN fact) = 0
        BY <3>1, SumEmpty
    <3> QED
        BY <3>2, TotalSums
  <2>2. SumFunction(BondBy) \in Int
      BY TotalSums
  <2>3. BondsOf(Proposed) = SumFunction(BondBy)
      BY DEF BondsOf, BondBy
  <2> QED
      BY <2>1, <2>2, <2>3 DEF TotalsMatch
<1>7. BondsOf(Correct)' = BondsOf(Proposed)
  <2>1. [p \in Correct |-> proposer[p].bond]' = [p \in Proposed |-> proposer[p].bond]
      BY <1>2, <1>4
  <2> QED
      BY <2>1 DEF BondsOf
<1>8. oracle.bond_pool \in Int /\ RewardEmission \in Int
    BY <1>1, DisputeAssumption, U64MaxAssumption DEF OracleAccount, U64
<1> QED
    BY <1>2, <1>3, <1>4, <1>5, <1>6, <1>7, <1>8 DEF PoolsByPhase, Terminal,
        TerminalPhases

LEMMA PluralityWins ==
    ASSUME NEW claims, IsFiniteSet(DOMAIN claims), Plurality(claims) # CLAIM_OPTION_NONE
    PROVE  \E p \in DOMAIN claims : claims[p] = Plurality(claims)
<1>1. Wins(claims, Plurality(claims))
    BY DEF Plurality
<1>2. Support(claims, Plurality(claims)) # {}
    BY <1>1, FS_EmptySet DEF Wins, Votes
<1> QED
    BY <1>2 DEF Support

LEMMA ResolveVerdict ==
    ASSUME TypeOK, PoolsByPhase, Resolve
    PROVE  PoolsByPhase'
<1> DEFINE option == Plurality(Claims)
           right == { p \in Survivors : Claims[p] = option }
<1>1. oracle \in OracleAccount /\ oracle.phase = "Challenge" /\ option # CLAIM_OPTION_NONE
    BY DEF TypeOK, Resolve, CanResolve, BondsFor, ChallengesClosed
<1>2. /\ oracle'.phase = "Resolved" /\ oracle'.resolved_option = option
      /\ oracle'.bond_pool = oracle.bond_pool
      /\ oracle'.reward_pool = oracle.bond_pool + RewardEmission
      /\ oracle'.total_correct_proposer_stake = BondsOf(right)
      /\ proposer' = proposer /\ kass' = kass
    BY <1>1 DEF Resolve, CanResolve, BondsFor, OracleAccount
<1>3. kass.burned = 0
    BY <1>1 DEF PoolsByPhase, Terminal, TerminalPhases
<1>4. \A p \in Survivors : Claims[p] = proposer[p].claim_option /\ ~NoShow(proposer[p])
    BY DEF Claims, Resolve, CanResolve, BondsFor, ChallengesClosed
<1>5. right # {}
  <2>1. IsFiniteSet(DOMAIN Claims) /\ DOMAIN Claims = Survivors
      BY FiniteAccounts DEF Claims
  <2> QED
      BY <1>1, <2>1, PluralityWins
<1> HIDE DEF option
<1>6. Correct' = right
    BY <1>2, <1>4 DEF Correct, Survivors, BackedResolved, NoShow, Proposed
<1> HIDE DEF right
<1>7. BondsOf(Correct)' = BondsOf(right)
  <2>1. [p \in Correct |-> proposer[p].bond]' = [p \in right |-> proposer[p].bond]
      BY <1>2, <1>6
  <2> QED
      BY <2>1 DEF BondsOf
<1>8. oracle.bond_pool \in Int /\ RewardEmission \in Int
    BY <1>1, DisputeAssumption, U64MaxAssumption DEF OracleAccount, U64
<1> QED
    BY <1>2, <1>3, <1>5, <1>6, <1>7, <1>8 DEF PoolsByPhase, Terminal, TerminalPhases

\* A dispute that ends without a verdict burns the pool and the emission.
LEMMA BurnedVerdict ==
    ASSUME TypeOK, PoolsByPhase, ~Terminal, Burn(oracle'.bond_pool + RewardEmission),
           oracle'.phase = "InvalidDeadend", oracle'.reward_pool = oracle.reward_pool,
           oracle'.bond_pool \in Int
    PROVE  PoolsByPhase'
<1>1. oracle.reward_pool = 0 /\ kass.burned = 0
    BY DEF PoolsByPhase
<1>2. RewardEmission \in Int /\ kass \in KassLedger
    BY DisputeAssumption, U64MaxAssumption DEF U64, TypeOK
<1>3. kass'.burned = oracle'.bond_pool + RewardEmission
    BY <1>1, <1>2 DEF Burn, CanBurn, KassLedger
<1> QED
    BY <1>1, <1>2, <1>3 DEF PoolsByPhase, Terminal, TerminalPhases

\* Before the verdict nothing is shared and nothing burned.
LEMMA PoolsWait ==
    ASSUME PoolsByPhase, ~Terminal, ~Terminal', oracle'.reward_pool = oracle.reward_pool,
           kass'.burned = kass.burned
    PROVE  PoolsByPhase'
<1>1. oracle'.reward_pool = 0 /\ kass'.burned = 0
    BY DEF PoolsByPhase
<1>2. oracle'.phase # "InvalidDeadend"
    BY DEF Terminal, TerminalPhases
<1> QED
    BY <1>1, <1>2 DEF PoolsByPhase

LEMMA PoolsByPhaseStep ==
    ASSUME BooksInv, StakesInv, ~Terminal, TypeOK', [Next]_vars
    PROVE  PoolsByPhase'
<1>1. /\ TypeInv /\ TypeOK /\ CountersAccurate /\ oracle \in OracleAccount
      /\ kass \in KassLedger
      /\ TotalsMatch /\ FactsByPhase /\ PoolsByPhase
    BY DEF BooksInv, DisputeInv, TypeInv, TypeOK, StakesInv
<1>2. ASSUME NEW amount, Deposit(amount)
      PROVE  kass'.burned = kass.burned
    BY <1>1, <1>2 DEF Deposit, KassLedger
<1>3. ASSUME oracle'.phase \notin TerminalPhases, oracle'.reward_pool = oracle.reward_pool,
             kass'.burned = kass.burned
      PROVE  PoolsByPhase'
    BY <1>1, <1>3, PoolsWait DEF Terminal
<1>4. ASSUME oracle'.phase = oracle.phase, oracle'.reward_pool = oracle.reward_pool,
             kass'.burned = kass.burned
      PROVE  PoolsByPhase'
    BY <1>3, <1>4 DEF Terminal
<1>5. ASSUME NEW p, NEW bond, NEW option, Propose(p, bond, option)
      PROVE  PoolsByPhase'
    BY <1>1, <1>2, <1>4, <1>5 DEF Propose, OracleAccount
<1>6. ASSUME NEW f, NEW stake, SubmitFact(f, stake)
      PROVE  PoolsByPhase'
    BY <1>1, <1>2, <1>4, <1>6 DEF SubmitFact, OracleAccount
<1>7. ASSUME NEW f, NEW v, NEW kind, NEW stake, VoteFact(f, v, kind, stake)
      PROVE  PoolsByPhase'
    BY <1>1, <1>2, <1>4, <1>7 DEF VoteFact, OracleAccount
<1>8. ASSUME NEW S, SlashForNoFacts(S)
      PROVE  PoolsByPhase'
  <2> DEFINE pool == oracle.bond_pool + BondsOf(NotDisqualified(S))
             surviving == oracle.surviving_count - Cardinality(NotDisqualified(S))
  <2>1. /\ oracle'.reward_pool = oracle.reward_pool /\ oracle'.bond_pool = pool
        /\ oracle'.phase = IF surviving = 0 THEN "InvalidDeadend" ELSE oracle.phase
        /\ IF surviving = 0 THEN Burn(pool + RewardEmission) ELSE UNCHANGED kass
      BY <1>1, <1>8 DEF SlashForNoFacts, CanSlashForNoFacts, PoolWithout,
          SurvivingWithout, OracleAccount
  <2>2. pool \in U64
      BY <1>8 DEF SlashForNoFacts, CanSlashForNoFacts, PoolWithout, SurvivingWithout
  <2>3. pool \in Int
      BY <2>2, U64MaxAssumption DEF U64
  <2> HIDE DEF pool, surviving
  <2>4. CASE surviving = 0
      BY <1>1, <2>1, <2>3, <2>4, BurnedVerdict
  <2>5. CASE surviving # 0
      BY <1>4, <2>1, <2>5
  <2> QED
      BY <2>4, <2>5
<1>9. ASSUME NEW F, SettleFacts(F)
      PROVE  PoolsByPhase'
  <2>1. /\ oracle'.phase \in {"FactVoting", "AiClaim"}
        /\ oracle'.reward_pool = oracle.reward_pool /\ kass' = kass
      BY <1>1, <1>9 DEF SettleFacts, CanSettleFacts, FactVotingClosed, OracleAccount
  <2> QED
      BY <1>3, <2>1 DEF TerminalPhases
<1>10. ASSUME NEW p, NEW option, SubmitAiClaim(p, option)
       PROVE  PoolsByPhase'
    BY <1>4, <1>10 DEF SubmitAiClaim
<1>11. ASSUME NEW S, FinalizeAiClaims(S)
       PROVE  PoolsByPhase'
  <2>1. /\ oracle'.phase \in {"AiClaim", "Challenge"}
        /\ oracle'.reward_pool = oracle.reward_pool /\ kass' = kass
      BY <1>1, <1>11 DEF FinalizeAiClaims, CanFinalizeAiClaims, NoShowsIn, OracleAccount
  <2> QED
      BY <1>3, <2>1 DEF TerminalPhases
<1>12. ASSUME NEW p, NEW question, NEW price, OpenChallenge(p, question, price)
       PROVE  PoolsByPhase'
    BY <1>1, <1>4, <1>12 DEF OpenChallenge, OracleAccount, KassLedger
<1>13. ASSUME NEW p, SettleSuccessful(p)
       PROVE  PoolsByPhase'
    BY <1>1, <1>4, <1>13 DEF SettleSuccessful, CanSettleSuccessful, ToppedUp,
        RedeemedAt, OracleAccount, KassLedger
<1>14. ASSUME NEW p, SettleFailed(p)
       PROVE  PoolsByPhase'
    BY <1>1, <1>4, <1>14 DEF SettleFailed, RedeemedAt, OracleAccount, KassLedger
<1>15. ASSUME PhaseMove
       PROVE  PoolsByPhase'
  <2>1. CASE \E option \in Options : FinalizeAgreedProposals(option)
      BY <1>1, <2>1, AgreedVerdict
  <2>2. CASE FinalizeDisputedProposals \/ AdvancePhase
    <3>1. /\ oracle'.phase \in {"FactProposal", "FactVoting"}
          /\ oracle'.reward_pool = oracle.reward_pool /\ kass' = kass
        BY <1>1, <2>2 DEF FinalizeDisputedProposals, CanFinalizeDisputed, AdvancePhase,
            CanAdvancePhase, OracleAccount
    <3> QED
        BY <1>3, <3>1 DEF TerminalPhases
  <2>3. CASE Resolve
      BY <1>1, <2>3, ResolveVerdict
  <2>4. CASE DeadEnd
    <3>1. /\ oracle'.phase = "InvalidDeadend" /\ oracle'.reward_pool = oracle.reward_pool
          /\ oracle'.bond_pool = oracle.bond_pool
          /\ Burn(oracle'.bond_pool + RewardEmission)
        BY <1>1, <2>4 DEF DeadEnd, CanDeadEnd, OracleAccount
    <3>2. oracle.bond_pool \in Int
        BY <1>1, U64MaxAssumption DEF OracleAccount, U64
    <3> QED
        BY <1>1, <3>1, <3>2, BurnedVerdict
  <2>5. ~ \E option \in Options : ResolveDeadend(option)
      BY DEF ResolveDeadend, Terminal, TerminalPhases
  <2>6. CASE Tick \/ UNCHANGED vars
      BY <1>4, <2>6 DEF Tick, vars
  <2> QED
      BY <1>15, <2>1, <2>2, <2>3, <2>4, <2>5, <2>6
      DEF PhaseMove, FinalizeProposals, FinalizeOracle
<1> QED
    BY <1>1, <1>5, <1>6, <1>7, <1>8, <1>9, <1>10, <1>11, <1>12, <1>13, <1>14, <1>15,
       StepCases

LEMMA StakesInvInit == Init => StakesInv
<1> SUFFICES ASSUME Init PROVE StakesInv
    OBVIOUS
<1>1. TypeOK
    BY TypeInvInit DEF TypeInv
<1>2. /\ Proposed = {} /\ DOMAIN fact = {} /\ DOMAIN fact_vote = {} /\ Settled = {}
      /\ oracle.phase = "Proposal" /\ oracle.total_oracle_stake = 0
      /\ oracle.total_approved_fact_stake = 0 /\ oracle.reward_pool = 0
      /\ kass.burned = 0
    BY DEF Init, Proposed, Settled
<1>3. /\ SumFunction(BondBy) = 0 /\ SumFunction(HeldBy) = 0 /\ SumFunction(ApprovedBy) = 0
    BY <1>1, <1>2, TotalSums, SumEmpty
<1>4. VotesTallied /\ VotesOnFacts
    BY <1>2 DEF VotesTallied, VotesOnFacts
<1>5. TotalsMatch /\ FactsByPhase /\ BondsStand
    BY <1>2, <1>3 DEF TotalsMatch, FactsByPhase, BondsStand
<1>6. PoolsByPhase
    BY <1>2 DEF PoolsByPhase, Terminal, TerminalPhases
<1> QED
    BY <1>4, <1>5, <1>6 DEF StakesInv

LEMMA StakesInvStep ==
    ASSUME BooksInv, StakesInv, ~Terminal, [Next]_vars
    PROVE  StakesInv'
<1>1. /\ TypeInv /\ CountersAccurate /\ SlashesOrdered /\ FactsInOrder
      /\ VotesTallied /\ VotesOnFacts /\ TotalsMatch /\ FactsByPhase /\ BondsStand
    BY DEF BooksInv, DisputeInv, OrderInv, StakesInv
<1>2. TypeOK' /\ CountersAccurate'
    BY <1>1, TypeStep, CountersStep
<1> QED
    BY <1>1, <1>2, TalliesStep, TotalsStep, FactsByPhaseStep, PoolsByPhaseStep,
       BondsStandStep
    DEF StakesInv

-----------------------------------------------------------------------------
\* Claims, one at a time

ClaimableVotes == { fv \in DOMAIN fact_vote : fv[1] \in DOMAIN fact }

ProposersDue == SumFunctionOnSet(ProposerClaimBy, Proposed)
SubmittersDue == SumFunctionOnSet(SubmitterClaimBy, DOMAIN fact)
VotersDue == SumFunctionOnSet(VoterClaimBy, ClaimableVotes)

ClaimsAreInts ==
    /\ IsFiniteSet(Proposed) /\ IntOn(ProposerClaimBy, Proposed)
    /\ IsFiniteSet(DOMAIN fact) /\ IntOn(SubmitterClaimBy, DOMAIN fact)
    /\ IsFiniteSet(ClaimableVotes) /\ IntOn(VoterClaimBy, ClaimableVotes)

ClaimsAreNats ==
    /\ IsFiniteSet(Proposed) /\ NatOn(ProposerClaimBy, Proposed)
    /\ IsFiniteSet(DOMAIN fact) /\ NatOn(SubmitterClaimBy, DOMAIN fact)
    /\ IsFiniteSet(ClaimableVotes) /\ NatOn(VoterClaimBy, ClaimableVotes)

EntitledIsDue ==
    /\ ProposersDue \in Int /\ SubmittersDue \in Int /\ VotersDue \in Int
    /\ Entitled = ProposersDue + SubmittersDue + VotersDue

LEMMA SlashIsProper == FactVoteSlash \in ProperRatio
BY DisputeAssumption

LEMMA ClaimNats == TypeOK => ClaimsAreNats
<1> SUFFICES ASSUME TypeOK PROVE ClaimsAreNats
    OBVIOUS
<1>1. IsFiniteSet(Proposed) /\ IsFiniteSet(DOMAIN fact)
    BY FiniteAccounts
<1>2. IsFiniteSet(ClaimableVotes)
  <2>1. ClaimableVotes \in SUBSET DOMAIN fact_vote
      BY DEF ClaimableVotes
  <2> QED
      BY <2>1, FiniteVotes, FS_Subset
<1>3. ASSUME NEW p \in Proposed PROVE ProposerClaimBy[p] \in Nat
  <2>1. /\ proposer[p].bond \in Nat /\ proposer[p].slashed_amount \in Nat
        /\ ProposerReward(proposer[p]) \in Nat
      BY AccountNats, RewardNats
  <2>2. SaturatingSub(proposer[p].bond, proposer[p].slashed_amount) \in Nat
      BY <2>1 DEF SaturatingSub
  <2> QED
      BY <2>1, <2>2 DEF ProposerClaimBy, ProposerEntitlement
<1>4. ASSUME NEW f \in DOMAIN fact PROVE SubmitterClaimBy[f] \in Nat
  <2>1. fact[f].stake \in Nat /\ FactReward(fact[f].stake) \in Nat
      BY AccountNats, RewardNats
  <2> QED
      BY <2>1 DEF SubmitterClaimBy, SubmitterEntitlement
<1>5. ASSUME NEW fv \in ClaimableVotes PROVE VoterClaimBy[fv] \in Nat
  <2>1. fv \in DOMAIN fact_vote
      BY DEF ClaimableVotes
  <2>2. fact_vote[fv].stake \in Nat /\ FactReward(fact_vote[fv].stake) \in Nat
      BY <2>1, AccountNats, RewardNats
  <2>3. CeilFrac(fact_vote[fv].stake, FactVoteSlash) \in Nat
      BY <2>2, CeilFracBounds, SlashIsProper
  <2>4. SaturatingSub(fact_vote[fv].stake, CeilFrac(fact_vote[fv].stake, FactVoteSlash)) \in Nat
      BY <2>2, <2>3 DEF SaturatingSub
  <2> QED
      BY <2>1, <2>2, <2>4 DEF VoterClaimBy, VoterEntitlement
<1> QED
    BY <1>1, <1>2, <1>3, <1>4, <1>5 DEF ClaimsAreNats, NatOn

LEMMA ClaimInts == TypeOK => ClaimsAreInts
BY ClaimNats DEF ClaimsAreNats, ClaimsAreInts, NatOn, IntOn

LEMMA DueSums == TypeOK => EntitledIsDue
<1> SUFFICES ASSUME TypeOK PROVE EntitledIsDue
    OBVIOUS
<1>1. ClaimsAreInts
    BY ClaimInts
<1>2. ProposersDue \in Int /\ SubmittersDue \in Int /\ VotersDue \in Int
    BY <1>1, SumInt DEF ClaimsAreInts, ProposersDue, SubmittersDue, VotersDue
<1> DEFINE byVoter == [fv \in ClaimableVotes |-> VoterEntitlement(fact_vote[fv], fact[fv[1]])]
<1>3. SumFunction(byVoter) = VotersDue
  <2>1. SumFunction(byVoter) = SumFunctionOnSet(byVoter, ClaimableVotes)
      BY SumOver
  <2>2. \A fv \in ClaimableVotes : byVoter[fv] = VoterClaimBy[fv]
      BY DEF ClaimableVotes, VoterClaimBy
  <2>3. SumFunctionOnSet(byVoter, ClaimableVotes) = SumFunctionOnSet(VoterClaimBy, ClaimableVotes)
    <3> HIDE DEF byVoter
    <3> QED
        BY <1>1, <2>2, SumCongruence DEF ClaimsAreInts
  <2> QED
      BY <2>1, <2>3 DEF VotersDue
<1>4. /\ SumFunction(ProposerClaimBy) = ProposersDue
      /\ SumFunction(SubmitterClaimBy) = SubmittersDue
    BY SumOver DEF ProposerClaimBy, SubmitterClaimBy, ProposersDue, SubmittersDue
<1>5. Entitled = SumFunction(ProposerClaimBy) + SumFunction(SubmitterClaimBy)
                   + SumFunction(byVoter)
    BY Zenon DEF Entitled, ProposerClaimBy, SubmitterClaimBy, ClaimableVotes
<1> QED
    BY <1>2, <1>3, <1>4, <1>5 DEF EntitledIsDue

\* A claim takes its amount out of the vault and out of what is due.
LEMMA PaidInFull ==
    ASSUME SettlementTypeOK, ClaimsInv, NEW amount \in Int, Pay(amount),
           oracle_open' = oracle_open, Entitled \in Int,
           Entitled' = Entitled - amount
    PROVE  oracle_open' => /\ Entitled' <= kass'.stake_vault
                           /\ BondsPositive => kass'.stake_vault - Entitled' <= DustBound
<1>1. kass.stake_vault \in Int /\ kass'.stake_vault = kass.stake_vault - amount
  <2>1. kass \in KassLedger
      BY DEF SettlementTypeOK, TypeOK
  <2> QED
      BY <2>1, U64MaxAssumption DEF Pay, CanPay, KassLedger, U64
<1>2. kass'.stake_vault - Entitled' = kass.stake_vault - Entitled
    BY <1>1
<1>3. oracle_open
    BY DEF Pay, CanPay
<1>4. Entitled <= kass.stake_vault
    BY <1>3 DEF ClaimsInv
<1>5. BondsPositive => kass.stake_vault - Entitled <= DustBound
    BY <1>3 DEF ClaimsInv
<1>6. Entitled' <= kass'.stake_vault
    BY <1>1, <1>4
<1> QED
    BY <1>2, <1>5, <1>6

\* Nothing that a claim rests on changes.
LEMMA SameProposersDue ==
    ASSUME UNCHANGED <<oracle, proposer>>
    PROVE  ProposersDue' = ProposersDue
BY DEF ProposersDue, ProposerClaimBy, Proposed, ProposerEntitlement, ProposerReward,
       BackedResolved, Resolved

LEMMA SameSubmittersDue ==
    ASSUME UNCHANGED <<oracle, fact>>
    PROVE  SubmittersDue' = SubmittersDue
BY DEF SubmittersDue, SubmitterClaimBy, SubmitterEntitlement, FactReward, Resolved

LEMMA SameVotersDue ==
    ASSUME UNCHANGED <<oracle, fact, fact_vote>>
    PROVE  VotersDue' = VotersDue
BY DEF VotersDue, VoterClaimBy, ClaimableVotes, VoterEntitlement, FactReward, Resolved

LEMMA SameVotes ==
    ASSUME VotesTallied, VotersKeepTheirFact, UNCHANGED <<fact, fact_vote>>
    PROVE  VotesTallied' /\ VotersKeepTheirFact'
BY DEF VotesTallied, VotersKeepTheirFact, StakeBy, VotesOn

LEMMA ClaimProposerPays ==
    ASSUME SettlementTypeOK, TypeOK', ClaimsInv, NEW p \in Proposed, ClaimProposer(p)
    PROVE  ClaimsInv'
<1> DEFINE amount == ProposerEntitlement(proposer[p])
<1>1. /\ TypeOK /\ ClaimsAreInts /\ EntitledIsDue /\ EntitledIsDue'
    BY ClaimInts, DueSums, PTL DEF SettlementTypeOK
<1>2. /\ UNCHANGED <<oracle, fact, fact_vote, oracle_open>> /\ Pay(amount)
      /\ proposer' = Close(proposer, p)
    BY DEF ClaimProposer
<1>3. ProposerClaimBy[p] = amount /\ amount \in Int
    BY <1>1 DEF ProposerClaimBy, ClaimsAreInts, IntOn
<1>4. Proposed' = Proposed \ {p} /\ \A q \in Proposed \ {p} : proposer'[q] = proposer[q]
    BY <1>2 DEF Close, Proposed
<1>5. \A q \in Proposed \ {p} : ProposerClaimBy'[q] = ProposerClaimBy[q]
    BY <1>2, <1>4
    DEF ProposerClaimBy, ProposerEntitlement, ProposerReward, BackedResolved, NoShow,
        Resolved
<1> HIDE DEF amount
<1>6. ProposersDue' = ProposersDue - amount
  <2>1. SumFunctionOnSet(ProposerClaimBy', Proposed \ {p})
          = SumFunctionOnSet(ProposerClaimBy, Proposed) - ProposerClaimBy[p]
      BY <1>1, <1>5, SumLeave DEF ClaimsAreInts
  <2> QED
      BY <1>3, <1>4, <2>1 DEF ProposersDue
<1>7. SubmittersDue' = SubmittersDue /\ VotersDue' = VotersDue
    BY <1>2, SameSubmittersDue, SameVotersDue
<1>8. Entitled' = Entitled - amount /\ Entitled \in Int
    BY <1>1, <1>3, <1>6, <1>7 DEF EntitledIsDue
<1>9. VotesTallied' /\ VotersKeepTheirFact'
    BY <1>2, SameVotes DEF ClaimsInv
<1>10. oracle'.phase = "InvalidDeadend" => oracle'.reward_pool = 0
    BY <1>2 DEF ClaimsInv
<1> QED
    BY <1>2, <1>3, <1>8, <1>9, <1>10, PaidInFull DEF ClaimsInv

\* Whoever waits for the voters of a fact to claim leaves only empty votes.
LEMMA VotesClaimed ==
    ASSUME TypeOK, VotesTallied, NEW f \in DOMAIN fact,
           fact[f].approve_stake = 0, fact[f].duplicate_stake = 0
    PROVE  \A fv \in DOMAIN fact_vote : fv[1] = f => fact_vote[fv].stake = 0
<1> SUFFICES ASSUME NEW fv \in DOMAIN fact_vote, fv[1] = f
             PROVE  fact_vote[fv].stake = 0
    OBVIOUS
<1> DEFINE kind == fact_vote[fv].kind
<1>1. kind \in Kinds /\ fact_vote[fv].stake \in Nat /\ fv \in VotesOn(f, kind)
    BY AccountNats DEF VotesOn
<1>2. IsFiniteSet(VotesOn(f, kind)) /\ NatOn(StakeBy, VotesOn(f, kind))
  <2>1. VotesOn(f, kind) \in SUBSET DOMAIN fact_vote
      BY DEF VotesOn
  <2> QED
      BY <2>1, FiniteVotes, StakeSums, FS_Subset DEF NatOn
<1>3. SumFunctionOnSet(StakeBy, VotesOn(f, kind)) = 0
    BY <1>1 DEF VotesTallied, Tally
<1>4. StakeBy[fv] <= 0
    BY <1>1, <1>2, <1>3, SumOneOf
<1> QED
    BY <1>1, <1>4 DEF StakeBy

LEMMA EmptyVoteClaims ==
    ASSUME TypeOK, NEW vote, vote.stake = 0, NEW about
    PROVE  VoterEntitlement(vote, about) = 0
<1>1. FactReward(0) = 0
    BY RewardNats
<1>2. CeilFrac(0, FactVoteSlash) \in Nat /\ CeilFrac(0, FactVoteSlash) <= 0
    BY CeilFracBounds, SlashIsProper
<1>3. SaturatingSub(0, CeilFrac(0, FactVoteSlash)) = 0
    BY <1>2 DEF SaturatingSub
<1> QED
    BY <1>1, <1>3 DEF VoterEntitlement

LEMMA ClaimFactPays ==
    ASSUME SettlementTypeOK, TypeOK', ClaimsInv, NEW f \in DOMAIN fact, ClaimFact(f)
    PROVE  ClaimsInv'
<1> DEFINE amount == SubmitterEntitlement(fact[f])
<1>1. /\ TypeOK /\ ClaimsAreInts /\ EntitledIsDue /\ EntitledIsDue'
      /\ VotesTallied /\ VotersKeepTheirFact
    BY ClaimInts, DueSums, PTL DEF SettlementTypeOK, ClaimsInv
<1>2. /\ UNCHANGED <<oracle, proposer, fact_vote, oracle_open>> /\ Pay(amount)
      /\ fact' = Close(fact, f)
      /\ fact[f].approve_stake = 0 /\ fact[f].duplicate_stake = 0
    BY DEF ClaimFact, VotersPaid
<1>3. SubmitterClaimBy[f] = amount /\ amount \in Int
    BY <1>1 DEF SubmitterClaimBy, ClaimsAreInts, IntOn
<1>4. /\ DOMAIN fact' = DOMAIN fact \ {f}
      /\ \A g \in DOMAIN fact \ {f} : fact'[g] = fact[g]
    BY <1>2 DEF Close
<1>5. \A fv \in DOMAIN fact_vote : fv[1] = f => fact_vote[fv].stake = 0
    BY <1>1, <1>2, VotesClaimed
<1>6. \A g \in DOMAIN fact \ {f} : SubmitterClaimBy'[g] = SubmitterClaimBy[g]
    BY <1>2, <1>4 DEF SubmitterClaimBy, SubmitterEntitlement, FactReward, Resolved
<1> HIDE DEF amount
<1>7. SubmittersDue' = SubmittersDue - amount
  <2>1. SumFunctionOnSet(SubmitterClaimBy', DOMAIN fact \ {f})
          = SumFunctionOnSet(SubmitterClaimBy, DOMAIN fact) - SubmitterClaimBy[f]
      BY <1>1, <1>6, SumLeave DEF ClaimsAreInts
  <2> QED
      BY <1>3, <1>4, <2>1 DEF SubmittersDue
<1>8. VotersDue' = VotersDue
  <2>1. /\ ClaimableVotes' \in SUBSET ClaimableVotes
        /\ \A fv \in ClaimableVotes \ ClaimableVotes' : fv[1] = f
      BY <1>2, <1>4 DEF ClaimableVotes
  <2>2. \A fv \in ClaimableVotes \ ClaimableVotes' : VoterClaimBy[fv] = 0
    <3> SUFFICES ASSUME NEW fv \in ClaimableVotes \ ClaimableVotes'
                 PROVE  VoterClaimBy[fv] = 0
        OBVIOUS
    <3>1. fv \in DOMAIN fact_vote /\ fact_vote[fv].stake = 0
        BY <1>5, <2>1 DEF ClaimableVotes
    <3>2. VoterEntitlement(fact_vote[fv], fact[fv[1]]) = 0
        BY <1>1, <3>1, EmptyVoteClaims
    <3> QED
        BY <3>1, <3>2 DEF VoterClaimBy
  <2>3. SumFunctionOnSet(VoterClaimBy, ClaimableVotes)
          = SumFunctionOnSet(VoterClaimBy, ClaimableVotes')
      BY <1>1, <2>1, <2>2, SumSupport DEF ClaimsAreInts
  <2>4. \A fv \in ClaimableVotes' : VoterClaimBy'[fv] = VoterClaimBy[fv]
      BY <1>2, <1>4
      DEF ClaimableVotes, VoterClaimBy, VoterEntitlement, FactReward, Resolved
  <2>5. IsFiniteSet(ClaimableVotes')
      BY <1>1, <2>1, FS_Subset DEF ClaimsAreInts
  <2>6. SumFunctionOnSet(VoterClaimBy', ClaimableVotes')
          = SumFunctionOnSet(VoterClaimBy, ClaimableVotes')
      BY <2>4, <2>5, SumCongruence
  <2> QED
      BY <2>3, <2>6 DEF VotersDue
<1>9. ProposersDue' = ProposersDue
    BY <1>2, SameProposersDue
<1>10. Entitled' = Entitled - amount /\ Entitled \in Int
    BY <1>1, <1>3, <1>7, <1>8, <1>9 DEF EntitledIsDue
<1>11. VotesTallied'
  <2>1. StakeBy' = StakeBy /\ \A g, kind : VotesOn(g, kind)' = VotesOn(g, kind)
      BY <1>2 DEF StakeBy, VotesOn
  <2>2. ASSUME NEW g \in DOMAIN fact', NEW kind \in Kinds
        PROVE  Tally(fact'[g], kind) = SumFunctionOnSet(StakeBy', VotesOn(g, kind)')
    <3>1. g \in DOMAIN fact /\ fact'[g] = fact[g]
        BY <1>4
    <3>2. Tally(fact[g], kind) = SumFunctionOnSet(StakeBy, VotesOn(g, kind))
        BY <1>1, <3>1 DEF VotesTallied
    <3> QED
        BY <2>1, <3>1, <3>2, Zenon
  <2> QED
      BY <2>2 DEF VotesTallied
<1>12. VotersKeepTheirFact'
    BY <1>1, <1>2, <1>4, <1>5 DEF VotersKeepTheirFact
<1>13. oracle'.phase = "InvalidDeadend" => oracle'.reward_pool = 0
    BY <1>2 DEF ClaimsInv
<1> QED
    BY <1>2, <1>3, <1>10, <1>11, <1>12, <1>13, PaidInFull DEF ClaimsInv

\* A vote leaves the tally that it was in.
LEMMA WithoutVoteEffect ==
    ASSUME NEW a \in FactAccount, NEW vote \in FactVoteAccount,
           vote.stake <= Tally(a, vote.kind)
    PROVE  /\ WithoutVote(a, vote).stake = a.stake
           /\ WithoutVote(a, vote).agreed = a.agreed
           /\ WithoutVote(a, vote).duplicate = a.duplicate
           /\ Tally(WithoutVote(a, vote), vote.kind) = Tally(a, vote.kind) - vote.stake
           /\ \A other \in Kinds \ {vote.kind} :
                  Tally(WithoutVote(a, vote), other) = Tally(a, other)
<1>1. vote.kind \in Kinds
    BY DEF FactVoteAccount, Kinds
<1>2. CASE vote.kind = "duplicate"
  <2>1. WithoutVote(a, vote)
          = [a EXCEPT !.duplicate_stake = SaturatingSub(a.duplicate_stake, vote.stake)]
      BY <1>2 DEF WithoutVote
  <2>2. SaturatingSub(a.duplicate_stake, vote.stake) = a.duplicate_stake - vote.stake
      BY <1>2 DEF Tally, SaturatingSub
  <2> QED
      BY <1>2, <2>1, <2>2 DEF Tally, FactAccount, Kinds
<1>3. CASE vote.kind = "approve"
  <2>1. WithoutVote(a, vote)
          = [a EXCEPT !.approve_stake = SaturatingSub(a.approve_stake, vote.stake)]
      BY <1>3 DEF WithoutVote
  <2>2. SaturatingSub(a.approve_stake, vote.stake) = a.approve_stake - vote.stake
      BY <1>3 DEF Tally, SaturatingSub
  <2> QED
      BY <1>3, <2>1, <2>2 DEF Tally, FactAccount, Kinds
<1> QED
    BY <1>1, <1>2, <1>3 DEF Kinds

LEMMA VoteLeavesTally ==
    ASSUME TypeOK, VotesTallied, NEW f \in DOMAIN fact, NEW key \in DOMAIN fact_vote,
           key[1] = f, fact_vote' = Close(fact_vote, key),
           fact' = [fact EXCEPT ![f] = WithoutVote(@, fact_vote[key])]
    PROVE  /\ VotesTallied'
           /\ DOMAIN fact' = DOMAIN fact
           /\ \A g \in DOMAIN fact : /\ fact'[g].stake = fact[g].stake
                                     /\ fact'[g].agreed = fact[g].agreed
                                     /\ fact'[g].duplicate = fact[g].duplicate
<1> DEFINE V == DOMAIN fact_vote
           vote == fact_vote[key]
<1>1. fact[f] \in FactAccount /\ vote \in FactVoteAccount
    BY DEF TypeOK, AccountsOf
<1>2. PICK kind \in Kinds : kind = vote.kind
    BY AccountNats
<1>3. vote.stake \in Nat
    BY AccountNats
<1>4. /\ DOMAIN fact' = DOMAIN fact /\ fact'[f] = WithoutVote(fact[f], vote)
      /\ \A g \in DOMAIN fact \ {f} : fact'[g] = fact[g]
    OBVIOUS
<1>5. /\ DOMAIN fact_vote' = V \ {key}
      /\ \A fv \in V \ {key} : fact_vote'[fv] = fact_vote[fv]
    BY DEF Close
<1>6. StakeBy[key] = vote.stake /\ \A fv \in V \ {key} : StakeBy'[fv] = StakeBy[fv]
    BY <1>5 DEF StakeBy
<1>7. \A g, other : /\ VotesOn(g, other) \in SUBSET V /\ IsFiniteSet(VotesOn(g, other))
                    /\ IntOn(StakeBy, VotesOn(g, other)) /\ NatOn(StakeBy, VotesOn(g, other))
  <2> SUFFICES ASSUME NEW g, NEW other
               PROVE  /\ VotesOn(g, other) \in SUBSET V /\ IsFiniteSet(VotesOn(g, other))
                      /\ IntOn(StakeBy, VotesOn(g, other))
                      /\ NatOn(StakeBy, VotesOn(g, other))
      OBVIOUS
  <2>1. VotesOn(g, other) \in SUBSET V
      BY DEF VotesOn
  <2> QED
      BY <2>1, FiniteVotes, StakeSums, FS_Subset DEF IntOn, NatOn
<1>8. key \in VotesOn(f, kind) /\ VotesOn(f, kind)' = VotesOn(f, kind) \ {key}
    BY <1>2, <1>5 DEF VotesOn
<1>9. \A g, other : g # f \/ other # kind =>
          key \notin VotesOn(g, other) /\ VotesOn(g, other)' = VotesOn(g, other)
    BY <1>2, <1>5 DEF VotesOn
<1>10. Tally(fact[f], kind) = SumFunctionOnSet(StakeBy, VotesOn(f, kind))
    BY <1>2 DEF VotesTallied
<1>11. vote.stake <= Tally(fact[f], kind)
  <2>1. StakeBy[key] <= SumFunctionOnSet(StakeBy, VotesOn(f, kind))
    <3>1. key \in VotesOn(f, kind)
        BY <1>8
    <3> HIDE DEF V, vote
    <3> QED
        BY <1>7, <3>1, SumOneOf
  <2> QED
      BY <1>6, <1>10, <2>1, Zenon
<1>12. /\ fact'[f].stake = fact[f].stake
       /\ fact'[f].agreed = fact[f].agreed
       /\ fact'[f].duplicate = fact[f].duplicate
       /\ Tally(fact'[f], kind) = Tally(fact[f], kind) - vote.stake
       /\ \A other \in Kinds \ {kind} : Tally(fact'[f], other) = Tally(fact[f], other)
    BY <1>1, <1>2, <1>4, <1>11, WithoutVoteEffect
<1> HIDE DEF V, vote
<1>13. ASSUME NEW g \in DOMAIN fact', NEW other \in Kinds
       PROVE  Tally(fact'[g], other) = SumFunctionOnSet(StakeBy', VotesOn(g, other)')
  <2>1. g \in DOMAIN fact
        /\ Tally(fact[g], other) = SumFunctionOnSet(StakeBy, VotesOn(g, other))
      BY <1>4 DEF VotesTallied
  <2>2. CASE g = f /\ other = kind
    <3>1. \A fv \in VotesOn(f, kind) \ {key} : StakeBy'[fv] = StakeBy[fv]
        BY <1>6, <1>7
    <3>2. SumFunctionOnSet(StakeBy', VotesOn(f, kind) \ {key})
            = SumFunctionOnSet(StakeBy, VotesOn(f, kind)) - StakeBy[key]
        BY <1>7, <1>8, <3>1, SumLeave
    <3>3. SumFunctionOnSet(StakeBy', VotesOn(g, other)')
            = SumFunctionOnSet(StakeBy', VotesOn(f, kind) \ {key})
        BY <1>8, <2>2, Zenon
    <3> QED
        BY <1>6, <1>10, <1>12, <2>2, <3>2, <3>3
  <2>3. CASE g # f \/ other # kind
    <3>1. SumFunctionOnSet(StakeBy', VotesOn(g, other)')
            = SumFunctionOnSet(StakeBy', VotesOn(g, other))
        BY <1>9, <2>3, Zenon
    <3>2. \A fv \in VotesOn(g, other) : StakeBy'[fv] = StakeBy[fv]
        BY <1>6, <1>7, <1>9, <2>3
    <3>3. SumFunctionOnSet(StakeBy', VotesOn(g, other))
            = SumFunctionOnSet(StakeBy, VotesOn(g, other))
        BY <1>7, <3>2, SumCongruence
    <3>4. Tally(fact'[g], other) = Tally(fact[g], other)
        BY <1>4, <1>12, <2>1, <2>3
    <3> QED
        BY <2>1, <3>1, <3>3, <3>4
  <2> QED
      BY <2>2, <2>3
<1>14. VotesTallied'
    BY <1>13 DEF VotesTallied
<1> QED
    BY <1>4, <1>12, <1>14

LEMMA ClaimFactVotePays ==
    ASSUME SettlementTypeOK, TypeOK', ClaimsInv, NEW f, NEW v,
           <<f, v>> \in DOMAIN fact_vote, ClaimFactVote(f, v)
    PROVE  ClaimsInv'
<1> DEFINE key == <<f, v>>
           amount == VoterEntitlement(fact_vote[key], fact[f])
<1>1. /\ TypeOK /\ ClaimsAreInts /\ EntitledIsDue /\ EntitledIsDue'
      /\ VotesTallied /\ VotersKeepTheirFact
    BY ClaimInts, DueSums, PTL DEF SettlementTypeOK, ClaimsInv
<1>2. /\ UNCHANGED <<oracle, proposer, oracle_open>> /\ Pay(amount)
      /\ f \in DOMAIN fact /\ key[1] = f /\ key \in DOMAIN fact_vote
      /\ fact_vote' = Close(fact_vote, key)
      /\ fact' = [fact EXCEPT ![f] = WithoutVote(@, fact_vote[key])]
    BY DEF ClaimFactVote
<1>3. key \in ClaimableVotes /\ VoterClaimBy[key] = amount /\ amount \in Int
  <2>1. key \in ClaimableVotes /\ VoterClaimBy[key] = amount
      BY <1>2 DEF ClaimableVotes, VoterClaimBy
  <2> QED
      BY <1>1, <2>1 DEF ClaimsAreInts, IntOn
<1> HIDE DEF key, amount
<1>4. /\ VotesTallied'
      /\ DOMAIN fact' = DOMAIN fact
      /\ \A g \in DOMAIN fact : /\ fact'[g].stake = fact[g].stake
                                /\ fact'[g].agreed = fact[g].agreed
                                /\ fact'[g].duplicate = fact[g].duplicate
    BY <1>1, <1>2, VoteLeavesTally
<1>5. /\ DOMAIN fact_vote' = DOMAIN fact_vote \ {key}
      /\ \A fv \in DOMAIN fact_vote \ {key} : fact_vote'[fv] = fact_vote[fv]
    BY <1>2 DEF Close
<1>6. SubmittersDue' = SubmittersDue
  <2>1. \A g \in DOMAIN fact : SubmitterClaimBy'[g] = SubmitterClaimBy[g]
      BY <1>2, <1>4 DEF SubmitterClaimBy, SubmitterEntitlement, FactReward, Resolved
  <2>2. SumFunctionOnSet(SubmitterClaimBy', DOMAIN fact)
          = SumFunctionOnSet(SubmitterClaimBy, DOMAIN fact)
      BY <1>1, <2>1, SumCongruence DEF ClaimsAreInts
  <2> QED
      BY <1>4, <2>2 DEF SubmittersDue
<1>7. VotersDue' = VotersDue - amount
  <2>1. ClaimableVotes' = ClaimableVotes \ {key}
      BY <1>4, <1>5 DEF ClaimableVotes
  <2>2. \A fv \in ClaimableVotes \ {key} : VoterClaimBy'[fv] = VoterClaimBy[fv]
      BY <1>2, <1>4, <1>5
      DEF ClaimableVotes, VoterClaimBy, VoterEntitlement, FactReward, Resolved
  <2>3. SumFunctionOnSet(VoterClaimBy', ClaimableVotes \ {key})
          = SumFunctionOnSet(VoterClaimBy, ClaimableVotes) - VoterClaimBy[key]
      BY <1>1, <1>3, <2>2, SumLeave DEF ClaimsAreInts
  <2> QED
      BY <1>3, <2>1, <2>3 DEF VotersDue
<1>8. ProposersDue' = ProposersDue
    BY <1>2, SameProposersDue
<1>9. Entitled' = Entitled - amount /\ Entitled \in Int
    BY <1>1, <1>3, <1>6, <1>7, <1>8 DEF EntitledIsDue
<1>10. VotersKeepTheirFact'
    BY <1>1, <1>4, <1>5 DEF VotersKeepTheirFact
<1>11. oracle'.phase = "InvalidDeadend" => oracle'.reward_pool = 0
    BY <1>2 DEF ClaimsInv
<1> QED
    BY <1>2, <1>3, <1>4, <1>9, <1>10, <1>11, PaidInFull DEF ClaimsInv

-----------------------------------------------------------------------------
\* An oracle's whole life

FreshVerdict ==
    /\ Entitled \in Int
    /\ Entitled <= kass.stake_vault
    /\ BondsPositive => kass.stake_vault - Entitled <= DustBound

LEMMA FreshVerdictPays == BooksInv /\ StakesInv /\ Terminal => FreshVerdict
BY VerdictPays DEF FreshVerdict

LEMMA VerdictReached ==
    ASSUME LifeInv, ~Terminal, [Next]_vars, UNCHANGED settlementVars, SettleInv'
    PROVE  LifeInv'
<1>1. BooksInv /\ StakesInv /\ oracle_open
    BY DEF LifeInv
<1>2. BooksInv' /\ StakesInv' /\ oracle_open'
    BY <1>1, BooksInvStep, StakesInvStep DEF settlementVars
<1>3. CASE Terminal'
  <2>1. FreshVerdict'
      BY <1>2, <1>3, FreshVerdictPays, PTL
  <2>2. VotesTallied' /\ VotesOnFacts' /\ PoolsByPhase'
      BY <1>2 DEF StakesInv
  <2>3. VotersKeepTheirFact'
      BY <2>2 DEF VotesOnFacts, VotersKeepTheirFact
  <2>4. ClaimsInv'
      BY <2>1, <2>2, <2>3 DEF ClaimsInv, FreshVerdict, PoolsByPhase
  <2> QED
      BY <1>3, <2>4 DEF LifeInv
<1>4. CASE ~Terminal'
    BY <1>2, <1>4 DEF LifeInv
<1> QED
    BY <1>3, <1>4

\* Closing other accounts, the clock and the hand-over leave the claims alone.
LEMMA ClaimsStand ==
    ASSUME SettlementTypeOK, TypeOK', ClaimsInv,
           UNCHANGED <<oracle, proposer, fact, fact_vote, kass, oracle_open>>
    PROVE  ClaimsInv'
<1>1. Entitled' = Entitled
  <2>1. EntitledIsDue /\ EntitledIsDue'
      BY DueSums, PTL DEF SettlementTypeOK
  <2> QED
      BY <2>1, SameProposersDue, SameSubmittersDue, SameVotersDue DEF EntitledIsDue
<1>2. VotesTallied' /\ VotersKeepTheirFact'
    BY SameVotes DEF ClaimsInv
<1> QED
    BY <1>1, <1>2 DEF ClaimsInv

LEMMA NoPoolNoReward ==
    ASSUME NEW s \in Nat, NEW correct \in Nat, NEW approved \in Nat
    PROVE  /\ ShareOf(s, ProposerBucket(0, correct, approved), correct) = 0
           /\ ShareOf(s, FactBucket(0, correct, approved), approved) = 0
<1>1. ProposerBucket(0, correct, approved) = 0 /\ FactBucket(0, correct, approved) = 0
    BY BucketsFit
<1>2. ShareOf(s, 0, correct) = 0 /\ ShareOf(s, 0, approved) = 0
    BY DEF ShareOf
<1> QED
    BY <1>1, <1>2

\* The DAO decides a dead end whose pool was burned: nobody gains or loses.
LEMMA DeadendDecided ==
    ASSUME SettlementTypeOK, TypeOK', ClaimsInv, NEW option, ResolveDeadend(option),
           oracle_open' = oracle_open
    PROVE  ClaimsInv'
<1>1. /\ TypeOK /\ oracle \in OracleAccount /\ ClaimsAreInts
      /\ EntitledIsDue /\ EntitledIsDue'
    BY ClaimInts, DueSums, PTL DEF SettlementTypeOK, TypeOK
<1> DEFINE correct == oracle.total_correct_proposer_stake
           approved == oracle.total_approved_fact_stake
<1>2. /\ UNCHANGED <<proposer, fact, fact_vote, kass>>
      /\ oracle'.phase = "Resolved" /\ oracle.phase = "InvalidDeadend"
      /\ oracle'.reward_pool = oracle.reward_pool
      /\ oracle'.total_correct_proposer_stake = correct
      /\ oracle'.total_approved_fact_stake = approved
    BY <1>1 DEF ResolveDeadend, OracleAccount
<1>3. oracle.reward_pool = 0 /\ correct \in Nat /\ approved \in Nat
    BY <1>1, <1>2, PoolNats DEF ClaimsInv
<1>4. ~Resolved
    BY <1>2 DEF Resolved
<1>5. \A s \in Nat : /\ ShareOf(s, ProposerBucket(0, correct, approved), correct) = 0
                     /\ ShareOf(s, FactBucket(0, correct, approved), approved) = 0
    BY <1>3, NoPoolNoReward
<1>6. ProposersDue' = ProposersDue
  <2>1. \A p \in Proposed : ProposerClaimBy'[p] = ProposerClaimBy[p]
    <3> SUFFICES ASSUME NEW p \in Proposed
                 PROVE  ProposerClaimBy'[p] = ProposerClaimBy[p]
        OBVIOUS
    <3>1. proposer[p].bond \in Nat
        BY <1>1, AccountNats
    <3>2. ProposerReward(proposer[p])' = 0 /\ ProposerReward(proposer[p]) = 0
        BY <1>2, <1>3, <1>4, <1>5, <3>1 DEF ProposerReward
    <3> QED
        BY <1>2, <3>2 DEF ProposerClaimBy, ProposerEntitlement, Proposed
  <2>2. Proposed' = Proposed
      BY <1>2 DEF Proposed
  <2> QED
      BY <1>1, <2>1, <2>2, SumCongruence DEF ClaimsAreInts, ProposersDue
<1>7. SubmittersDue' = SubmittersDue
  <2>1. \A f \in DOMAIN fact : SubmitterClaimBy'[f] = SubmitterClaimBy[f]
    <3> SUFFICES ASSUME NEW f \in DOMAIN fact
                 PROVE  SubmitterClaimBy'[f] = SubmitterClaimBy[f]
        OBVIOUS
    <3>1. fact[f].stake \in Nat
        BY <1>1, AccountNats
    <3>2. FactReward(fact[f].stake)' = 0 /\ FactReward(fact[f].stake) = 0
        BY <1>2, <1>3, <1>4, <1>5, <3>1 DEF FactReward
    <3> QED
        BY <1>2, <3>2 DEF SubmitterClaimBy, SubmitterEntitlement
  <2> QED
      BY <1>1, <1>2, <2>1, SumCongruence DEF ClaimsAreInts, SubmittersDue
<1>8. VotersDue' = VotersDue
  <2>1. \A fv \in ClaimableVotes : VoterClaimBy'[fv] = VoterClaimBy[fv]
    <3> SUFFICES ASSUME NEW fv \in ClaimableVotes
                 PROVE  VoterClaimBy'[fv] = VoterClaimBy[fv]
        OBVIOUS
    <3>1. fv \in DOMAIN fact_vote /\ fact_vote[fv].stake \in Nat
        BY <1>1, AccountNats DEF ClaimableVotes
    <3>2. FactReward(fact_vote[fv].stake)' = 0 /\ FactReward(fact_vote[fv].stake) = 0
        BY <1>2, <1>3, <1>4, <1>5, <3>1 DEF FactReward
    <3> QED
        BY <1>2, <3>1, <3>2 DEF VoterClaimBy, VoterEntitlement
  <2>2. ClaimableVotes' = ClaimableVotes
      BY <1>2 DEF ClaimableVotes
  <2> QED
      BY <1>1, <2>1, <2>2, SumCongruence DEF ClaimsAreInts, VotersDue
<1>9. Entitled' = Entitled
    BY <1>1, <1>6, <1>7, <1>8 DEF EntitledIsDue
<1>10. VotesTallied' /\ VotersKeepTheirFact'
    BY <1>2, SameVotes DEF ClaimsInv
<1> QED
    BY <1>2, <1>3, <1>9, <1>10 DEF ClaimsInv

LEMMA LifeInvInit == SettlementInit => LifeInv
<1> SUFFICES ASSUME SettlementInit PROVE LifeInv
    OBVIOUS
<1>1. ~Terminal /\ oracle_open
    BY DEF SettlementInit, Init, Terminal, TerminalPhases
<1>2. BooksInv /\ StakesInv
    BY BooksInvInit, StakesInvInit DEF SettlementInit
<1> QED
    BY <1>1, <1>2, SettleInvInit DEF LifeInv

LEMMA LifeInvStep == LifeInv /\ [SettlementNext]_allVars => LifeInv'
<1> SUFFICES ASSUME LifeInv, [SettlementNext]_allVars PROVE LifeInv'
    OBVIOUS
<1>1. /\ SettleInv /\ SettlementTypeOK /\ SettleInv' /\ SettlementTypeOK'
      /\ TypeOK'
      /\ Terminal => ClaimsInv
    BY SettleInvStep DEF LifeInv, SettleInv, SettlementTypeOK
<1>2. ASSUME ClaimsInv', Terminal' PROVE LifeInv'
    BY <1>1, <1>2 DEF LifeInv
<1>3. CASE DisputeStep
  <2>1. Next /\ UNCHANGED settlementVars /\ oracle_open' = oracle_open
      BY <1>3 DEF DisputeStep, settlementVars
  <2>2. CASE Terminal
    <3>1. PICK option \in Options : ResolveDeadend(option)
        BY <2>1, <2>2, TerminalStep
    <3>2. ClaimsInv'
        BY <1>1, <2>1, <2>2, <3>1, DeadendDecided
    <3>3. Terminal'
        BY <1>1, <3>1
        DEF ResolveDeadend, Terminal, TerminalPhases, SettlementTypeOK, TypeOK,
            OracleAccount
    <3> QED
        BY <1>2, <3>2, <3>3
  <2> QED
      BY <1>1, <2>1, <2>2, VerdictReached
<1>4. CASE Claim
  <2>1. Terminal /\ Terminal'
      BY <1>4 DEF Claim, ClaimProposer, ClaimFact, VotersPaid, ClaimFactVote, Pay,
          CanPay, Terminal
  <2>2. ClaimsInv'
      BY <1>1, <1>4, <2>1, ClaimProposerPays, ClaimFactPays, ClaimFactVotePays DEF Claim
  <2> QED
      BY <1>2, <2>1, <2>2
<1>5. CASE \/ \E p \in DOMAIN ai_claim : CloseAiClaim(p)
           \/ \E p \in DOMAIN market : CloseChallengeMarket(p) \/ DonateUsdc(p)
           \/ GraceTick
  <2>1. /\ Terminal /\ Terminal'
        /\ UNCHANGED <<oracle, proposer, fact, fact_vote, kass, oracle_open>>
      BY <1>5 DEF CloseAiClaim, CloseChallengeMarket, CanCloseChallenge, DonateUsdc,
          GraceTick, Terminal, vars, settlementVars
  <2> QED
      BY <1>1, <1>2, <2>1, ClaimsStand
<1>6. CASE SweepOracle
  <2>1. /\ Terminal /\ Terminal' /\ ~oracle_open'
        /\ UNCHANGED <<oracle, fact, fact_vote>>
      BY <1>6 DEF SweepOracle, CanSweep, Terminal
  <2>2. ClaimsInv'
      BY <1>1, <2>1, SameVotes DEF ClaimsInv
  <2> QED
      BY <1>2, <2>1, <2>2
<1>7. CASE SetGovernance \/ UNCHANGED allVars
  <2>1. UNCHANGED vars /\ oracle_open' = oracle_open
      BY <1>7 DEF SetGovernance, allVars, settlementVars, vars
  <2>2. CASE Terminal
    <3>1. /\ UNCHANGED <<oracle, proposer, fact, fact_vote, kass, oracle_open>>
          /\ Terminal'
        BY <2>1, <2>2 DEF vars, Terminal
    <3> QED
        BY <1>1, <1>2, <2>2, <3>1, ClaimsStand
  <2>3. CASE ~Terminal
    <3>1. BooksInv' /\ StakesInv' /\ oracle_open'
        BY <2>1, <2>3, BooksInvStep, StakesInvStep DEF LifeInv
    <3>2. ~Terminal'
        BY <2>1, <2>3 DEF vars, Terminal
    <3> QED
        BY <1>1, <3>1, <3>2 DEF LifeInv
  <2> QED
      BY <2>2, <2>3
<1> QED
    BY <1>3, <1>4, <1>5, <1>6, <1>7 DEF SettlementNext

LEMMA LifeInvHolds == SettlementSpec => []LifeInv
BY LifeInvInit, LifeInvStep, PTL DEF SettlementSpec

\* Whoever claims first, the vault pays everybody else in full: through four
\* slash paths, batched settlements, a redeemed challenge, a burned pool and
\* the rounding of every share, for any number of stakers.
THEOREM VaultPaysEverybody == SettlementSpec => []VaultCoversClaims
<1>1. LifeInv => VaultCoversClaims
    BY DEF LifeInv, ClaimsInv, VaultCoversClaims
<1> QED
    BY <1>1, LifeInvHolds, PTL

\* No claim closes a fact that a vote with a stake is still paid by.  A vote of no
\* stake, which a stake floor of 0 admits, does lose its fact: claim_fact waits for
\* the stake totals only (claims/fact.rs:53).
THEOREM VotersKeepFacts == SettlementSpec => []VotersKeepTheirFact
<1>1. LifeInv => VotersKeepTheirFact
    BY DEF LifeInv, ClaimsInv, StakesInv, VotesOnFacts, VotersKeepTheirFact
<1> QED
    BY <1>1, LifeInvHolds, PTL

\* And where no proposer may post an empty bond, what the claims cannot reach
\* is rounding dust.  With a stake floor of 0 every right bond can be 0, and
\* the proposers' part of the pool is then nobody's.
THEOREM ClaimsPaid == BondsPositive => (SettlementSpec => []ClaimsArePaid)
<1> SUFFICES ASSUME BondsPositive PROVE SettlementSpec => []ClaimsArePaid
    OBVIOUS
<1>1. LifeInv => NoPoolStranded
    BY DEF LifeInv, ClaimsInv, NoPoolStranded
<1>2. LifeInv /\ VaultCoversClaims /\ VotersKeepTheirFact => ClaimsArePaid
    BY <1>1 DEF ClaimsArePaid
<1> QED
    BY <1>2, LifeInvHolds, VaultPaysEverybody, VotersKeepFacts, PTL

-----------------------------------------------------------------------------
\* What the oracle page offers and shows

\* A move of a party that the form for it refuses has no stake, or finds a
\* challenge on the page.
LEMMA MoveIsOffered ==
    ASSUME TypeOK, ~Terminal, PartyStep, NEW page \in Pages, page.nonce
    PROVE  \/ oracle.phase \in {"Proposal", "FactProposal", "FactVoting"} /\ NothingStaked
           \/ tradeOpen /\ DOMAIN market # {}
           \/ AppParty(page)
<1>1. /\ oracle.total_oracle_stake \in Nat
      /\ Bonds \subseteq Nat /\ Stakes \subseteq Nat
    BY DisputeAssumption, U64MaxAssumption DEF TypeOK, OracleAccount, U64
<1>2. ASSUME NEW p \in Proposers, NEW bond \in Bonds, NEW option \in Options,
             Propose(p, bond, option)
      PROVE  (oracle.phase = "Proposal" /\ NothingStaked) \/ AppParty(page)
  <2>1. CASE bond > 0
    <3>1. ProposeForm(p, bond, option)
        BY <1>2, <2>1 DEF ProposeForm, Propose
    <3> QED
        BY <3>1 DEF AppParty
  <2>2. CASE ~(bond > 0)
    <3>1. bond = 0
        BY <1>1, <2>2
    <3>2. /\ oracle.phase = "Proposal"
          /\ oracle'.total_oracle_stake = oracle.total_oracle_stake + bond
        BY <1>2 DEF Propose, TypeOK, OracleAccount
    <3> QED
        BY <1>1, <3>1, <3>2 DEF NothingStaked
  <2> QED
      BY <2>1, <2>2
<1>3. ASSUME NEW f \in Facts, NEW stake \in Stakes, SubmitFact(f, stake)
      PROVE  (oracle.phase = "FactProposal" /\ NothingStaked) \/ AppParty(page)
  <2>1. CASE stake > 0
    <3>1. SubmitFactForm(f, stake)
        BY <1>3, <2>1 DEF SubmitFactForm, SubmitFact
    <3> QED
        BY <3>1 DEF AppParty
  <2>2. CASE ~(stake > 0)
    <3>1. stake = 0
        BY <1>1, <2>2
    <3>2. /\ oracle.phase = "FactProposal"
          /\ oracle'.total_oracle_stake = oracle.total_oracle_stake + stake
        BY <1>3 DEF SubmitFact, TypeOK, OracleAccount
    <3> QED
        BY <1>1, <3>1, <3>2 DEF NothingStaked
  <2> QED
      BY <2>1, <2>2
<1>4. ASSUME NEW f \in Facts, NEW v \in Voters, NEW kind \in {"approve", "duplicate"},
             NEW stake \in Stakes, VoteFact(f, v, kind, stake)
      PROVE  (oracle.phase = "FactVoting" /\ NothingStaked) \/ AppParty(page)
  <2>1. CASE stake > 0
    <3>1. f \in DOMAIN fact /\ VoteControl(f, v, kind, stake)
        BY <1>4, <2>1 DEF VoteControl, VoteFact
    <3> QED
        BY <3>1 DEF AppParty
  <2>2. CASE ~(stake > 0)
    <3>1. stake = 0
        BY <1>1, <2>2
    <3>2. /\ oracle.phase = "FactVoting"
          /\ oracle'.total_oracle_stake = oracle.total_oracle_stake + stake
        BY <1>4 DEF VoteFact, TypeOK, OracleAccount
    <3> QED
        BY <1>1, <3>1, <3>2 DEF NothingStaked
  <2> QED
      BY <2>1, <2>2
<1>5. ASSUME NEW p \in Proposed, NEW option \in Options, SubmitAiClaim(p, option)
      PROVE  AppParty(page)
  <2>1. SubmitAiClaimForm(p, option)
      BY <1>5 DEF SubmitAiClaimForm, SubmitAiClaim
  <2> QED
      BY <2>1 DEF AppParty
<1>6. ASSUME NEW p \in DOMAIN ai_claim, NEW price \in Prices,
             NEW question \in QuestionsFor[p], OpenChallenge(p, question, price)
      PROVE  (tradeOpen /\ DOMAIN market # {}) \/ AppParty(page)
  <2>1. tradeOpen
      BY <1>6 DEF OpenChallenge, tradeOpen
  <2>2. CASE DOMAIN market = {}
    <3>1. page.market = {}
        BY <2>2 DEF Pages, fetchOracleDetail
    <3>2. ChallengeControl(page, p, question, price)
        BY <1>6, <2>1, <3>1 DEF ChallengeControl
    <3> QED
        BY <3>2 DEF AppParty
  <2> QED
      BY <2>1, <2>2
<1>7. ASSUME NEW option \in Options, ResolveDeadend(option)
      PROVE  FALSE
    BY <1>7 DEF ResolveDeadend, Terminal, TerminalPhases
<1> QED
    BY <1>2, <1>3, <1>4, <1>5, <1>6, <1>7 DEF PartyStep

\* Whatever the program accepts from a party of an open dispute the oracle page
\* offers it, in every phase and for any number of parties (OracleDetail and the
\* forms of components/oracles/actions).
THEOREM PartiesStayServed == SettlementSpec => PartiesAreServed
<1>1. TypeOK =>
        (oracle_open /\ ~Terminal /\ PartyStep =>
            \/ oracle.phase \in {"Proposal", "FactProposal", "FactVoting"} /\ NothingStaked
            \/ tradeOpen /\ DOMAIN market # {}
            \/ \A page \in Pages : page.nonce => AppParty(page))
    BY MoveIsOffered
<1>2. SettlementTypeOK => TypeOK
    BY DEF SettlementTypeOK
<1> QED
    BY <1>1, <1>2, SettlementTypeCorrect, PTL DEF PartiesAreServed

-----------------------------------------------------------------------------
\* The phases in the order of the strip: those a step may lead to.

LaterPhases(phase) ==
    CASE phase = "Proposal" -> {"FactProposal", "Resolved"}
      [] phase = "FactProposal" -> {"FactVoting"}
      [] phase = "FactVoting" -> {"AiClaim", "InvalidDeadend"}
      [] phase = "AiClaim" -> {"Challenge"}
      [] phase = "Challenge" -> {"Resolved", "InvalidDeadend"}
      [] phase = "InvalidDeadend" -> {"Resolved"}
      [] OTHER -> {}

PhaseEffect ==
    \/ /\ oracle'.phase = oracle.phase
       /\ Terminal => oracle'.resolved_option = oracle.resolved_option
    \/ oracle'.phase \in LaterPhases(oracle.phase)

LEMMA PartyPhases ==
    ASSUME TypeOK, PartyStep
    PROVE  PhaseEffect
<1>1. ASSUME NEW p \in Proposers, NEW bond \in Bonds, NEW option \in Options,
             Propose(p, bond, option)
      PROVE  PhaseEffect
    BY <1>1 DEF Propose, PhaseEffect, TypeOK, OracleAccount
<1>2. ASSUME NEW f \in Facts, NEW stake \in Stakes, SubmitFact(f, stake)
      PROVE  PhaseEffect
    BY <1>2 DEF SubmitFact, PhaseEffect, TypeOK, OracleAccount
<1>3. ASSUME NEW f \in Facts, NEW v \in Voters, NEW kind \in {"approve", "duplicate"},
             NEW stake \in Stakes, VoteFact(f, v, kind, stake)
      PROVE  PhaseEffect
    BY <1>3 DEF VoteFact, PhaseEffect, TypeOK, OracleAccount
<1>4. ASSUME NEW p \in Proposed, NEW option \in Options, SubmitAiClaim(p, option)
      PROVE  PhaseEffect
    BY <1>4 DEF SubmitAiClaim, PhaseEffect
<1>5. ASSUME NEW p \in DOMAIN ai_claim, NEW price \in Prices,
             NEW question \in QuestionsFor[p], OpenChallenge(p, question, price)
      PROVE  PhaseEffect
    BY <1>5 DEF OpenChallenge, PhaseEffect, TypeOK, OracleAccount
<1>6. ASSUME NEW option \in Options, ResolveDeadend(option)
      PROVE  PhaseEffect
    BY <1>6 DEF ResolveDeadend, PhaseEffect, TypeOK, OracleAccount, LaterPhases
<1> QED
    BY <1>1, <1>2, <1>3, <1>4, <1>5, <1>6 DEF PartyStep

LEMMA CrankPhases ==
    ASSUME TypeOK, CrankStep
    PROVE  PhaseEffect
<1> USE DEF PhaseEffect, TypeOK, OracleAccount, LaterPhases
<1>1. ASSUME NEW option \in Options, FinalizeAgreedProposals(option)
      PROVE  PhaseEffect
    BY <1>1 DEF FinalizeAgreedProposals, CanFinalizeAgreed, ProposalsClosed
<1>2. CASE FinalizeDisputedProposals
    BY <1>2 DEF FinalizeDisputedProposals, CanFinalizeDisputed, ProposalsClosed
<1>3. CASE AdvancePhase
    BY <1>3 DEF AdvancePhase, CanAdvancePhase
<1>4. ASSUME NEW S \in SUBSET Proposed, SlashForNoFacts(S)
      PROVE  PhaseEffect
    BY <1>4 DEF SlashForNoFacts, CanSlashForNoFacts, PoolWithout, SurvivingWithout,
        FactVotingClosed, Terminal, TerminalPhases
<1>5. ASSUME NEW F \in SUBSET DOMAIN fact, SettleFacts(F)
      PROVE  PhaseEffect
    BY <1>5 DEF SettleFacts, CanSettleFacts, FactVotingClosed, Terminal, TerminalPhases
<1>6. ASSUME NEW S \in SUBSET Proposed, FinalizeAiClaims(S)
      PROVE  PhaseEffect
    BY <1>6 DEF FinalizeAiClaims, CanFinalizeAiClaims, NoShowsIn, Terminal,
        TerminalPhases
<1>7. ASSUME NEW p \in DOMAIN market, SettleSuccessful(p) \/ SettleFailed(p)
      PROVE  PhaseEffect
    BY <1>7 DEF SettleSuccessful, CanSettleSuccessful, ToppedUp, SettleFailed,
        SettleableMarket, CloseMarket, Terminal, TerminalPhases
<1>8. CASE Resolve
    BY <1>8 DEF Resolve, CanResolve, BondsFor, ChallengesClosed
<1>9. CASE DeadEnd
    BY <1>9 DEF DeadEnd, CanDeadEnd, ChallengesClosed
<1> QED
    BY <1>1, <1>2, <1>3, <1>4, <1>5, <1>6, <1>7, <1>8, <1>9
    DEF CrankStep, FinalizeProposals, FinalizeFacts, FinalizeClaims, SettleMarket,
        SettleChallenge, FinalizeOracle

LEMMA PhasesAdvance ==
    ASSUME TypeOK, [SettlementNext]_allVars
    PROVE  PhaseEffect
<1>1. UNCHANGED oracle => PhaseEffect
    BY DEF PhaseEffect
<1>2. CASE DisputeStep
  <2>1. CASE Tick
      BY <1>1, <2>1 DEF Tick
  <2> QED
      BY <1>2, <2>1, PartyPhases, CrankPhases DEF DisputeStep, Next
<1>3. CASE \/ Claim \/ SetGovernance \/ GraceTick \/ SweepOracle
           \/ \E p \in DOMAIN ai_claim : CloseAiClaim(p)
           \/ \E p \in DOMAIN market : CloseChallengeMarket(p) \/ DonateUsdc(p)
           \/ UNCHANGED allVars
  <2>1. UNCHANGED oracle
      BY <1>3
      DEF Claim, ClaimProposer, ClaimFact, VotersPaid, ClaimFactVote, SetGovernance,
          GraceTick,
          SweepOracle, CanSweep, CloseAiClaim, CloseChallengeMarket, CanCloseChallenge,
          DonateUsdc, allVars, vars
  <2> QED
      BY <1>1, <2>1
<1> QED
    BY <1>2, <1>3 DEF SettlementNext

\* The stage of the strip that each phase stands for.
StageOf(phase) ==
    CASE phase = "Proposal" -> 1
      [] phase = "FactProposal" -> 2
      [] phase = "FactVoting" -> 3
      [] phase = "AiClaim" -> 4
      [] phase = "Challenge" -> 5
      [] OTHER -> 6

Reached(phase) ==
    { i \in DOMAIN STAGES : \E j \in DOMAIN STAGES : i <= j /\ phase \in STAGES[j] }

LEMMA StripReaches ==
    ASSUME NEW phase \in Phases
    PROVE  Reached(phase) = 1 .. StageOf(phase)
<1>1. DOMAIN STAGES = 1 .. 6
    BY DEF STAGES
<1>2. \A j \in 1 .. 6 : phase \in STAGES[j] <=> j = StageOf(phase)
  <2> TAKE j \in 1 .. 6
  <2>1. j \in {1, 2, 3, 4, 5, 6}
      OBVIOUS
  <2> QED
      BY <2>1 DEF STAGES, StageOf, Phases
<1>3. StageOf(phase) \in 1 .. 6
    BY DEF StageOf, Phases
<1> QED
    BY <1>1, <1>2, <1>3 DEF Reached

\* The oracle page takes back neither a stage nor a verdict, through every
\* step, claims, closures and the sweep included (phaseTimeline.ts).
THEOREM PageKeepsItsWord == SettlementSpec => PageStandsByItsWord
<1>1. TypeOK /\ TypeOK' /\ [SettlementNext]_allVars =>
        /\ phaseTimelineModel \subseteq phaseTimelineModel'
        /\ verdictFor[1] = "resolved" => verdictFor' = verdictFor
        /\ verdictFor[1] = "deadend" => verdictFor'[1] \in {"deadend", "resolved"}
  <2> SUFFICES ASSUME TypeOK, TypeOK', [SettlementNext]_allVars
               PROVE  /\ phaseTimelineModel \subseteq phaseTimelineModel'
                      /\ verdictFor[1] = "resolved" => verdictFor' = verdictFor
                      /\ verdictFor[1] = "deadend" => verdictFor'[1] \in {"deadend", "resolved"}
      OBVIOUS
  <2>1. PhaseEffect
      BY PhasesAdvance
  <2>2. oracle.phase \in Phases /\ oracle'.phase \in Phases
      BY DEF TypeOK, OracleAccount
  <2>3. StageOf(oracle.phase) <= StageOf(oracle'.phase)
      BY <2>1, <2>2 DEF PhaseEffect, LaterPhases, StageOf, Phases
  <2>4. StageOf(oracle.phase) \in Nat /\ StageOf(oracle'.phase) \in Nat
      BY <2>2 DEF StageOf, Phases
  <2>5. phaseTimelineModel \subseteq phaseTimelineModel'
    <3>1. phaseTimelineModel = Reached(oracle.phase) /\ phaseTimelineModel' = Reached(oracle'.phase)
        BY DEF phaseTimelineModel, Reached
    <3> QED
        BY <2>2, <2>3, <2>4, <3>1, StripReaches
  <2>6. CASE oracle.phase = "Resolved"
    <3>1. oracle'.phase = "Resolved" /\ oracle'.resolved_option = oracle.resolved_option
        BY <2>1, <2>6 DEF PhaseEffect, LaterPhases, Terminal, TerminalPhases
    <3> QED
        BY <2>5, <2>6, <3>1 DEF verdictFor
  <2>7. CASE oracle.phase = "InvalidDeadend"
    <3>1. oracle'.phase \in {"InvalidDeadend", "Resolved"}
        BY <2>1, <2>7 DEF PhaseEffect, LaterPhases
    <3> QED
        BY <2>5, <2>7, <3>1 DEF verdictFor
  <2>8. CASE oracle.phase \notin {"Resolved", "InvalidDeadend"}
      BY <2>5, <2>8 DEF verdictFor
  <2> QED
      BY <2>6, <2>7, <2>8
<1>2. SettlementTypeOK => TypeOK
    BY DEF SettlementTypeOK
<1>3. SettlementSpec => [][SettlementNext]_allVars
    BY DEF SettlementSpec
<1> QED
    BY <1>1, <1>2, <1>3, SettlementTypeCorrect, PTL DEF PageStandsByItsWord

-----------------------------------------------------------------------------
\* What keeps a dispute moving

Voting == {"Proposal", "FactProposal", "FactVoting"}

\* In each phase the batches are not complete, and there is somebody to act on.
CountsByPhase ==
    /\ oracle.proposer_count <= MAX_PROPOSERS
    /\ oracle.phase \notin {"Proposal"} \cup TerminalPhases => oracle.proposer_count > 0
    /\ oracle.phase \in {"Proposal", "FactProposal"} =>
          /\ oracle.surviving_count = oracle.proposer_count
          /\ oracle.settled_count = 0
    /\ oracle.phase \in Voting => oracle.ai_finalized_count = 0
    /\ oracle.phase = "FactVoting" =>
          /\ oracle.surviving_count > 0
          /\ oracle.fact_count = 0 \/ oracle.settled_count # oracle.fact_count
    /\ oracle.phase = "AiClaim" => oracle.ai_finalized_count # oracle.proposer_count

\* Before the AI claims only a dispute without facts slashes, and for good.
SlashedAreOut ==
    oracle.phase \in Voting =>
        \A p \in Proposed : proposer[p].slashed => proposer[p].disqualified

\* No challenger is paid before the challenges.
ChallengersWait ==
    oracle.phase \notin {"Challenge"} \cup TerminalPhases => kass.challengers = 0

\* The dispute's bonds are those of its proposers.
BondsInDispute ==
    oracle.phase \in {"FactProposal", "FactVoting"} =>
        oracle.dispute_bond_total = SumFunction(BondBy)

\* All the KASS of the oracle fits a token account.
SupplyFits == oracle.total_oracle_stake + RewardEmission \in U64

\* The vault of a question that is not resolved holds the bond of every open
\* challenge on it.
BondsInVaults ==
    \A p \in OpenMarkets :
        market[p].question \notin resolved_question =>
            proposer[p].bond <= kass.conditional[market[p].question]

ProgressInv ==
    /\ CountsByPhase
    /\ SlashedAreOut
    /\ ChallengersWait
    /\ BondsInDispute
    /\ SupplyFits
    /\ BondsInVaults

LEMMA ProgressInit == Init => ProgressInv
<1> SUFFICES ASSUME Init PROVE ProgressInv
    OBVIOUS
<1>1. /\ Proposed = {} /\ OpenMarkets = {} /\ oracle.phase = "Proposal"
      /\ oracle.proposer_count = 0 /\ oracle.surviving_count = 0
      /\ oracle.settled_count = 0 /\ oracle.ai_finalized_count = 0
      /\ oracle.total_oracle_stake = 0 /\ kass.challengers = 0
    BY DEF Init, Proposed, OpenMarkets
<1>2. MAX_PROPOSERS \in Nat /\ RewardEmission \in U64 /\ RewardEmission \in Nat
    BY DisputeAssumption, U64MaxAssumption DEF U64
<1>3. CountsByPhase
    BY <1>1, <1>2 DEF CountsByPhase
<1>4. SupplyFits
    BY <1>1, <1>2 DEF SupplyFits
<1> QED
    BY <1>1, <1>3, <1>4
    DEF ProgressInv, SlashedAreOut, ChallengersWait, BondsInDispute, BondsInVaults

LEMMA OracleNats ==
    ASSUME TypeOK
    PROVE  /\ oracle \in OracleAccount
           /\ oracle.proposer_count \in Nat /\ oracle.surviving_count \in Nat
           /\ oracle.fact_count \in Nat /\ oracle.settled_count \in Nat
           /\ oracle.ai_finalized_count \in Nat /\ oracle.open_challenge_count \in Nat
           /\ MAX_PROPOSERS \in Nat
BY DisputeAssumption DEF TypeOK, OracleAccount

\* The instructions that may move a counter, and how, and those that move none.
LEMMA CountsStep ==
    ASSUME TypeInv, CountersAccurate, CountsByPhase, ~Terminal, [Next]_vars
    PROVE  CountsByPhase'
<1>1. /\ TypeOK /\ oracle \in OracleAccount
      /\ oracle.proposer_count \in Nat /\ oracle.surviving_count \in Nat
      /\ oracle.fact_count \in Nat /\ oracle.settled_count \in Nat
      /\ oracle.ai_finalized_count \in Nat /\ oracle.open_challenge_count \in Nat
      /\ MAX_PROPOSERS \in Nat
    BY OracleNats DEF TypeInv
<1> USE DEF CountsByPhase, Voting, Terminal, TerminalPhases
<1>2. ASSUME NEW p, NEW bond, NEW option, Propose(p, bond, option)
      PROVE  CountsByPhase'
  <2>1. /\ oracle.phase = "Proposal" /\ oracle'.phase = "Proposal"
        /\ oracle.proposer_count < MAX_PROPOSERS
        /\ oracle'.proposer_count = oracle.proposer_count + 1
        /\ oracle'.surviving_count = oracle.surviving_count + 1
        /\ oracle'.settled_count = oracle.settled_count
        /\ oracle'.ai_finalized_count = oracle.ai_finalized_count
      BY <1>1, <1>2 DEF Propose, OracleAccount
  <2> QED
      BY <1>1, <2>1
<1>3. ASSUME NEW f, NEW stake, SubmitFact(f, stake)
      PROVE  CountsByPhase'
  <2>1. /\ oracle.phase = "FactProposal" /\ oracle'.phase = "FactProposal"
        /\ oracle'.proposer_count = oracle.proposer_count
        /\ oracle'.surviving_count = oracle.surviving_count
        /\ oracle'.settled_count = oracle.settled_count
        /\ oracle'.ai_finalized_count = oracle.ai_finalized_count
      BY <1>1, <1>3 DEF SubmitFact, OracleAccount
  <2> QED
      BY <1>1, <2>1
<1>4. ASSUME /\ oracle'.phase = oracle.phase
             /\ oracle'.proposer_count = oracle.proposer_count
             /\ oracle'.surviving_count = oracle.surviving_count
             /\ oracle'.fact_count = oracle.fact_count
             /\ oracle'.settled_count = oracle.settled_count
             /\ oracle'.ai_finalized_count = oracle.ai_finalized_count
      PROVE  CountsByPhase'
    BY <1>4
<1>5. ASSUME NEW f, NEW v, NEW kind, NEW stake, VoteFact(f, v, kind, stake)
      PROVE  CountsByPhase'
    BY <1>1, <1>4, <1>5 DEF VoteFact, OracleAccount
<1>6. ASSUME NEW p, NEW option, SubmitAiClaim(p, option)
      PROVE  CountsByPhase'
    BY <1>1, <1>4, <1>6 DEF SubmitAiClaim
<1>7. ASSUME NEW p, NEW question, NEW price, OpenChallenge(p, question, price)
      PROVE  CountsByPhase'
    BY <1>1, <1>4, <1>7 DEF OpenChallenge, OracleAccount
<1>8. ASSUME NEW S, SlashForNoFacts(S)
      PROVE  CountsByPhase'
  <2> DEFINE surviving == SurvivingWithout(S)
  <2>1. /\ oracle.phase = "FactVoting" /\ oracle.fact_count = 0 /\ surviving \in Nat
        /\ oracle'.phase = IF surviving = 0 THEN "InvalidDeadend" ELSE oracle.phase
        /\ oracle'.proposer_count = oracle.proposer_count
        /\ oracle'.surviving_count = surviving
        /\ oracle'.fact_count = oracle.fact_count
        /\ oracle'.settled_count = oracle.settled_count
        /\ oracle'.ai_finalized_count = oracle.ai_finalized_count
      BY <1>1, <1>8 DEF SlashForNoFacts, CanSlashForNoFacts, FactVotingClosed, OracleAccount
  <2> HIDE DEF surviving
  <2> QED
      BY <1>1, <2>1
<1>9. ASSUME NEW F, SettleFacts(F)
      PROVE  CountsByPhase'
  <2> DEFINE settled == oracle.settled_count + Cardinality(F)
             complete == settled = oracle.fact_count
  <2>1. /\ oracle.phase = "FactVoting"
        /\ oracle'.phase = IF complete THEN "AiClaim" ELSE oracle.phase
        /\ oracle'.proposer_count = oracle.proposer_count
        /\ oracle'.surviving_count = oracle.surviving_count
        /\ oracle'.fact_count = oracle.fact_count
        /\ oracle'.settled_count = settled
        /\ oracle'.ai_finalized_count = oracle.ai_finalized_count
      BY <1>1, <1>9 DEF SettleFacts, CanSettleFacts, FactVotingClosed, OracleAccount
  <2> QED
      BY <1>1, <2>1
<1>10. ASSUME NEW S, FinalizeAiClaims(S)
       PROVE  CountsByPhase'
  <2> DEFINE finalized == oracle.ai_finalized_count + Cardinality(S)
             complete == finalized = oracle.proposer_count
  <2>1. /\ oracle.phase = "AiClaim"
        /\ oracle'.phase = IF complete THEN "Challenge" ELSE oracle.phase
        /\ oracle'.proposer_count = oracle.proposer_count
        /\ oracle'.ai_finalized_count = finalized
      BY <1>1, <1>10 DEF FinalizeAiClaims, CanFinalizeAiClaims, OracleAccount
  <2> QED
      BY <1>1, <2>1
<1>11. ASSUME oracle.phase = "Challenge", oracle'.phase \in {"Challenge"} \cup TerminalPhases,
              oracle'.proposer_count = oracle.proposer_count
       PROVE  CountsByPhase'
    BY <1>11
<1>12. ASSUME NEW p, SettleSuccessful(p)
       PROVE  CountsByPhase'
  <2>1. /\ oracle.phase = "Challenge" /\ oracle'.phase = oracle.phase
        /\ oracle'.proposer_count = oracle.proposer_count
    <3>1. CASE proposer[p].disqualified
        BY <1>1, <1>12, <3>1
        DEF SettleSuccessful, CanSettleSuccessful, SettleableMarket, OracleAccount
    <3>2. CASE ~proposer[p].disqualified
        BY <1>1, <1>12, <3>2
        DEF SettleSuccessful, CanSettleSuccessful, SettleableMarket, OracleAccount
    <3> QED
        BY <3>1, <3>2
  <2> QED
      BY <1>11, <2>1
<1>13. ASSUME NEW p, SettleFailed(p)
       PROVE  CountsByPhase'
    BY <1>1, <1>11, <1>13 DEF SettleFailed, SettleableMarket, OracleAccount
<1>14. CASE PhaseMove
  <2>1. /\ oracle'.proposer_count = oracle.proposer_count
        /\ oracle'.surviving_count = oracle.surviving_count
        /\ oracle'.fact_count = oracle.fact_count
        /\ oracle'.settled_count = oracle.settled_count
        /\ oracle'.ai_finalized_count = oracle.ai_finalized_count
      BY <1>1, <1>14, PhaseMoveKeeps
  <2>2. CASE \E option \in Options : FinalizeAgreedProposals(option)
    <3>1. oracle'.phase = "Resolved"
        BY <1>1, <2>2 DEF FinalizeAgreedProposals, OracleAccount
    <3> QED
        BY <1>1, <2>1, <3>1
  <2>3. CASE FinalizeDisputedProposals
    <3>1. /\ oracle.phase = "Proposal" /\ oracle'.phase = "FactProposal"
          /\ oracle.proposer_count > 0
        BY <1>1, <2>3
        DEF FinalizeDisputedProposals, CanFinalizeDisputed, ProposalsClosed, OracleAccount
    <3> QED
        BY <1>1, <2>1, <3>1
  <2>4. CASE AdvancePhase
    <3>1. oracle.phase = "FactProposal" /\ oracle'.phase = "FactVoting"
        BY <1>1, <2>4 DEF AdvancePhase, CanAdvancePhase, OracleAccount
    <3> QED
        BY <1>1, <2>1, <3>1
  <2>5. CASE FinalizeOracle
    <3>1. oracle.phase = "Challenge" /\ oracle'.phase \in TerminalPhases
        BY <1>1, <2>5
        DEF FinalizeOracle, Resolve, CanResolve, DeadEnd, CanDeadEnd, ChallengesClosed,
            OracleAccount
    <3> QED
        BY <1>11, <2>1, <3>1
  <2>6. CASE \E option \in Options : ResolveDeadend(option)
      BY <2>6 DEF ResolveDeadend
  <2>7. CASE Tick \/ UNCHANGED vars
      BY <1>4, <2>7 DEF Tick, vars
  <2> QED
      BY <1>14, <2>2, <2>3, <2>4, <2>5, <2>6, <2>7 DEF PhaseMove, FinalizeProposals
<1> QED
    BY <1>2, <1>3, <1>5, <1>6, <1>7, <1>8, <1>9, <1>10, <1>12, <1>13, <1>14, StepCases

\* Of the steps that a proposer's account takes while facts are voted on only
\* the slash for want of facts marks it.
LEMMA SlashedAreOutStep ==
    ASSUME TypeInv, SlashedAreOut, ~Terminal, [Next]_vars
    PROVE  SlashedAreOut'
<1>1. /\ TypeOK /\ oracle \in OracleAccount
      /\ \A p \in Proposed : proposer[p] \in ProposerAccount
    BY DEF TypeInv, TypeOK, AccountsOf, Proposed
<1>2. oracle'.phase \in Voting => oracle.phase \in Voting
    BY PhaseStep DEF Voting, TerminalPhases
<1>3. CASE proposer' = proposer
    BY <1>2, <1>3 DEF SlashedAreOut, Proposed
<1>4. ASSUME NEW p, NEW bond, NEW option, Propose(p, bond, option)
      PROVE  SlashedAreOut'
  <2>1. /\ Proposed' = Proposed \cup {p} /\ ~proposer'[p].slashed
        /\ \A q \in Proposed : proposer'[q] = proposer[q]
      BY <1>4 DEF Propose, Create, Proposed
  <2> QED
      BY <1>2, <2>1 DEF SlashedAreOut
<1>5. ASSUME NEW S, SlashForNoFacts(S)
      PROVE  SlashedAreOut'
  <2>1. /\ Proposed' = Proposed
        /\ \A q \in Proposed : proposer'[q] \in {proposer[q], NoFactsSlash(proposer[q])}
      BY <1>5 DEF SlashForNoFacts, UpdateAll, Proposed
  <2>2. \A q \in Proposed : NoFactsSlash(proposer[q]).disqualified
      BY <1>1, NoFactsSlashEffect
  <2> QED
      BY <1>2, <2>1, <2>2 DEF SlashedAreOut
<1>6. ASSUME oracle.phase \notin Voting
      PROVE  SlashedAreOut'
    BY <1>2, <1>6 DEF SlashedAreOut
<1>7. ASSUME NEW p, NEW option, SubmitAiClaim(p, option)
      PROVE  SlashedAreOut'
    BY <1>6, <1>7 DEF SubmitAiClaim, Voting
<1>8. ASSUME NEW S, FinalizeAiClaims(S)
      PROVE  SlashedAreOut'
    BY <1>6, <1>8 DEF FinalizeAiClaims, CanFinalizeAiClaims, Voting
<1>9. ASSUME NEW p, SettleSuccessful(p)
      PROVE  SlashedAreOut'
    BY <1>6, <1>9 DEF SettleSuccessful, CanSettleSuccessful, SettleableMarket, Voting
<1>10. PhaseMove => proposer' = proposer
    BY <1>1, PhaseMoveKeeps
<1> QED
    BY <1>3, <1>4, <1>5, <1>7, <1>8, <1>9, <1>10, StepCases
    DEF SubmitFact, VoteFact, SettleFacts, OpenChallenge, SettleFailed

LEMMA ChallengersWaitStep ==
    ASSUME TypeInv, ChallengersWait, ~Terminal, [Next]_vars
    PROVE  ChallengersWait'
<1>1. /\ TypeOK /\ oracle \in OracleAccount /\ kass \in KassLedger
    BY DEF TypeInv, TypeOK
<1>2. oracle'.phase \notin {"Challenge"} \cup TerminalPhases =>
          oracle.phase \notin {"Challenge"} \cup TerminalPhases
    BY PhaseStep DEF Terminal, TerminalPhases
<1>3. ASSUME kass'.challengers = kass.challengers
      PROVE  ChallengersWait'
    BY <1>2, <1>3 DEF ChallengersWait
<1>4. ASSUME NEW amount, Deposit(amount) \/ Burn(amount)
      PROVE  kass'.challengers = kass.challengers
    BY <1>1, <1>4 DEF Deposit, Burn, KassLedger
<1>5. ASSUME oracle.phase = "Challenge"
      PROVE  ChallengersWait'
    BY <1>2, <1>5 DEF ChallengersWait
<1>6. ASSUME NEW S, SlashForNoFacts(S)
      PROVE  ChallengersWait'
  <2>1. kass' = kass \/ \E amount : Burn(amount)
      BY <1>6 DEF SlashForNoFacts
  <2> QED
      BY <1>3, <1>4, <2>1
<1>7. ASSUME NEW p, NEW question, NEW price, OpenChallenge(p, question, price)
      PROVE  ChallengersWait'
    BY <1>5, <1>7 DEF OpenChallenge
<1>8. ASSUME NEW p, SettleSuccessful(p) \/ SettleFailed(p)
      PROVE  ChallengersWait'
    BY <1>5, <1>8 DEF SettleSuccessful, CanSettleSuccessful, SettleFailed, SettleableMarket
<1>9. CASE PhaseMove
  <2>1. kass' = kass \/ \E amount : Burn(amount)
      BY <1>9
      DEF PhaseMove, FinalizeProposals, FinalizeAgreedProposals, FinalizeDisputedProposals,
          AdvancePhase, FinalizeOracle, Resolve, DeadEnd, ResolveDeadend, Tick, vars
  <2> QED
      BY <1>3, <1>4, <2>1
<1> QED
    BY <1>3, <1>4, <1>6, <1>7, <1>8, <1>9, StepCases
    DEF Propose, SubmitFact, VoteFact, SettleFacts, SubmitAiClaim, FinalizeAiClaims

\* The dispute begins with the total that the proposers staked, and nobody
\* joins it.
LEMMA BondsInDisputeStep ==
    ASSUME TypeInv, SlashesOrdered, TotalsMatch, FactsByPhase, BondsInDispute,
           ~Terminal, [Next]_vars
    PROVE  BondsInDispute'
<1>1. /\ TypeOK /\ oracle \in OracleAccount
    BY DEF TypeInv, TypeOK
<1> SUFFICES ASSUME oracle'.phase \in {"FactProposal", "FactVoting"}
             PROVE  oracle'.dispute_bond_total = SumFunction(BondBy)'
    BY DEF BondsInDispute
<1>2. ASSUME Proposed' = Proposed
      PROVE  SumFunction(BondBy)' = SumFunction(BondBy)
  <2>1. BondBy' = BondBy
      BY <1>2, BondsKept DEF BondBy
  <2> QED
      BY <2>1
<1>3. CASE FinalizeDisputedProposals
  <2>1. /\ oracle.phase = "Proposal"
        /\ oracle'.dispute_bond_total = oracle.total_oracle_stake
        /\ Proposed' = Proposed
      BY <1>1, <1>3
      DEF FinalizeDisputedProposals, CanFinalizeDisputed, ProposalsClosed, OracleAccount,
          Proposed
  <2>2. SumFunction(HeldBy) = 0
    <3>1. DOMAIN fact = {}
        BY <2>1 DEF FactsByPhase
    <3> QED
        BY <1>1, <3>1, TotalSums, SumEmpty
  <2>3. SumFunction(BondBy) \in Int
      BY <1>1, TotalSums
  <2> QED
      BY <1>2, <2>1, <2>2, <2>3 DEF TotalsMatch
<1>4. CASE /\ oracle.phase \in {"FactProposal", "FactVoting"}
           /\ oracle'.dispute_bond_total = oracle.dispute_bond_total
  <2>1. Proposed' = Proposed
      BY <1>4, FinalizedStep
  <2> QED
      BY <1>2, <1>4, <2>1 DEF BondsInDispute
<1>5. CASE oracle.phase \notin {"FactProposal", "FactVoting"}
  <2>1. oracle.phase = "Proposal" /\ oracle'.phase = "FactProposal"
      BY <1>5, PhaseStep DEF Terminal, TerminalPhases
  <2>2. FinalizeDisputedProposals
    <3>1. ~\E p, bond, option : Propose(p, bond, option)
        BY <1>1, <2>1 DEF Propose, OracleAccount
    <3>2. ~(\E f, stake : SubmitFact(f, stake)) /\ ~(\E f, v, kind, stake : VoteFact(f, v, kind, stake))
        BY <2>1 DEF SubmitFact, VoteFact
    <3>3. ~(\E S : SlashForNoFacts(S)) /\ ~(\E F : SettleFacts(F))
        BY <2>1 DEF SlashForNoFacts, CanSlashForNoFacts, SettleFacts, CanSettleFacts,
                    FactVotingClosed
    <3>4. ~(\E p, option : SubmitAiClaim(p, option)) /\ ~(\E S : FinalizeAiClaims(S))
        BY <2>1 DEF SubmitAiClaim, FinalizeAiClaims, CanFinalizeAiClaims
    <3>5. ~(\E p, question, price : OpenChallenge(p, question, price))
        BY <2>1 DEF OpenChallenge
    <3>6. ~(\E p : SettleSuccessful(p)) /\ ~(\E p : SettleFailed(p))
        BY <2>1 DEF SettleSuccessful, CanSettleSuccessful, SettleFailed, SettleableMarket
    <3>7. PhaseMove
        BY <3>1, <3>2, <3>3, <3>4, <3>5, <3>6, StepCases
    <3>8. ~\E option \in Options : FinalizeAgreedProposals(option)
        BY <1>1, <2>1 DEF FinalizeAgreedProposals, OracleAccount
    <3>9. ~AdvancePhase /\ ~FinalizeOracle
        BY <2>1 DEF AdvancePhase, CanAdvancePhase, FinalizeOracle, Resolve, CanResolve,
                    DeadEnd, CanDeadEnd, ChallengesClosed
    <3>10. ~\E option \in Options : ResolveDeadend(option)
        BY <2>1 DEF ResolveDeadend
    <3>11. ~Tick /\ ~UNCHANGED vars
        BY <2>1 DEF Tick, vars
    <3> QED
        BY <3>7, <3>8, <3>9, <3>10, <3>11 DEF PhaseMove, FinalizeProposals
  <2> QED
      BY <1>3, <2>2
<1>6. CASE ~FinalizeDisputedProposals /\ oracle.phase \in {"FactProposal", "FactVoting"}
  <2> SUFFICES oracle'.dispute_bond_total = oracle.dispute_bond_total
      BY <1>4, <1>6
  <2>1. ASSUME NEW p, NEW bond, NEW option, Propose(p, bond, option) PROVE FALSE
      BY <1>6, <2>1 DEF Propose
  <2>2. ASSUME NEW f, NEW stake, SubmitFact(f, stake)
        PROVE  oracle'.dispute_bond_total = oracle.dispute_bond_total
      BY <1>1, <2>2 DEF SubmitFact, OracleAccount
  <2>3. ASSUME NEW f, NEW v, NEW kind, NEW stake, VoteFact(f, v, kind, stake)
        PROVE  oracle'.dispute_bond_total = oracle.dispute_bond_total
      BY <1>1, <2>3 DEF VoteFact, OracleAccount
  <2>4. ASSUME NEW S, SlashForNoFacts(S)
        PROVE  oracle'.dispute_bond_total = oracle.dispute_bond_total
      BY <1>1, <2>4 DEF SlashForNoFacts, OracleAccount
  <2>5. ASSUME NEW F, SettleFacts(F)
        PROVE  oracle'.dispute_bond_total = oracle.dispute_bond_total
      BY <1>1, <2>5 DEF SettleFacts, OracleAccount
  <2>6. ASSUME NEW S, FinalizeAiClaims(S) PROVE FALSE
      BY <1>6, <2>6 DEF FinalizeAiClaims, CanFinalizeAiClaims
  <2>7. ASSUME NEW p, NEW question, NEW price, OpenChallenge(p, question, price) PROVE FALSE
      BY <1>6, <2>7 DEF OpenChallenge
  <2>8. ASSUME NEW p, SettleSuccessful(p) \/ SettleFailed(p) PROVE FALSE
      BY <1>6, <2>8 DEF SettleSuccessful, CanSettleSuccessful, SettleFailed, SettleableMarket
  <2>9. CASE PhaseMove
    <3>1. ~FinalizeProposals /\ ~FinalizeOracle /\ ~\E option \in Options : ResolveDeadend(option)
        BY <1>6
        DEF FinalizeProposals, FinalizeAgreedProposals, CanFinalizeAgreed, ProposalsClosed,
            FinalizeOracle, Resolve, CanResolve, DeadEnd, CanDeadEnd, ChallengesClosed,
            ResolveDeadend
    <3>2. CASE AdvancePhase
        BY <1>1, <3>2 DEF AdvancePhase, OracleAccount
    <3>3. CASE Tick \/ UNCHANGED vars
        BY <3>3 DEF Tick, vars
    <3> QED
        BY <2>9, <3>1, <3>2, <3>3 DEF PhaseMove
  <2> QED
      BY <2>1, <2>2, <2>3, <2>4, <2>5, <2>6, <2>7, <2>8, <2>9, StepCases DEF SubmitAiClaim
<1> QED
    BY <1>3, <1>5, <1>6

\* What the vault holds while no bond is behind a challenge.
LEMMA VaultBetweenChallenges ==
    ASSUME BooksInv, PoolsByPhase, ~Terminal, OpenMarkets = {}
    PROVE  /\ kass.stake_vault + kass.challengers
                = oracle.total_oracle_stake + RewardEmission
           /\ kass.stake_vault \in U64
<1>1. /\ TypeOK /\ kass \in KassLedger /\ KassConserved /\ VaultsBackChallenges
      /\ kass.burned = 0
    BY DEF BooksInv, DisputeInv, TypeInv, TypeOK, Books, PoolsByPhase
<1>2. \A q \in Questions : kass.conditional[q] = 0
    BY <1>1 DEF VaultsBackChallenges
<1>3. SumFunction(kass.conditional) = 0
  <2>1. SumFunctionOnSet(kass.conditional, Questions) = 0
      BY <1>2, SumZero, DisputeAssumption
  <2> QED
      BY <1>1, <2>1, ConditionalSums
<1>4. kass.stake_vault \in U64 /\ kass.stake_vault \in Nat /\ kass.challengers \in Nat
    BY <1>1, KassTypes, U64MaxAssumption DEF U64
<1> QED
    BY <1>1, <1>3, <1>4 DEF KassConserved

\* Whoever stakes finds all the KASS in the vault, and the deposit checked.
LEMMA SupplyFitsStep ==
    ASSUME BooksInv, StakesInv, ProgressInv, ~Terminal, [Next]_vars
    PROVE  SupplyFits'
<1>1. /\ TypeInv /\ TypeOK /\ oracle \in OracleAccount /\ PhasesOrdered /\ PoolsByPhase
      /\ ChallengersWait /\ SupplyFits
    BY DEF BooksInv, DisputeInv, TypeInv, TypeOK, StakesInv, ProgressInv
<1>2. oracle.total_oracle_stake \in Nat /\ RewardEmission \in Nat
    BY <1>1, DisputeAssumption, U64MaxAssumption DEF OracleAccount, U64
<1>3. CASE oracle'.total_oracle_stake = oracle.total_oracle_stake
    BY <1>1, <1>3 DEF SupplyFits
<1>4. ASSUME NEW amount \in Nat, Deposit(amount), oracle.phase \in Voting,
             oracle'.total_oracle_stake = oracle.total_oracle_stake + amount
      PROVE  SupplyFits'
  <2>1. OpenMarkets = {} /\ kass.challengers = 0
      BY <1>1, <1>4
      DEF Voting, PhasesOrdered, OpenMarkets, ChallengersWait, TerminalPhases
  <2>2. /\ kass.stake_vault + 0 = oracle.total_oracle_stake + RewardEmission
        /\ kass.stake_vault \in Nat
      BY <1>1, <2>1, VaultBetweenChallenges, U64MaxAssumption DEF U64
  <2>3. kass.stake_vault + amount \in U64
      BY <1>4 DEF Deposit
  <2>4. (oracle.total_oracle_stake + amount) + RewardEmission = kass.stake_vault + amount
      BY <1>2, <1>4, <2>2
  <2> QED
      BY <1>4, <2>3, <2>4 DEF SupplyFits
<1>5. Bonds \subseteq Nat /\ Stakes \subseteq Nat
    BY DisputeAssumption, U64MaxAssumption DEF U64
<1>6. ASSUME NEW p, NEW bond \in Bonds, NEW option, Propose(p, bond, option)
      PROVE  SupplyFits'
  <2>1. /\ Deposit(bond) /\ oracle.phase \in Voting
        /\ oracle'.total_oracle_stake = oracle.total_oracle_stake + bond
      BY <1>1, <1>6 DEF Propose, OracleAccount, Voting
  <2> QED
      BY <1>4, <1>5, <2>1
<1>7. ASSUME NEW f, NEW stake \in Stakes, SubmitFact(f, stake)
      PROVE  SupplyFits'
  <2>1. /\ Deposit(stake) /\ oracle.phase \in Voting
        /\ oracle'.total_oracle_stake = oracle.total_oracle_stake + stake
      BY <1>1, <1>7 DEF SubmitFact, OracleAccount, Voting
  <2> QED
      BY <1>4, <1>5, <2>1
<1>8. ASSUME NEW f, NEW v, NEW kind, NEW stake \in Stakes, VoteFact(f, v, kind, stake)
      PROVE  SupplyFits'
  <2>1. /\ Deposit(stake) /\ oracle.phase \in Voting
        /\ oracle'.total_oracle_stake = oracle.total_oracle_stake + stake
      BY <1>1, <1>8 DEF VoteFact, OracleAccount, Voting
  <2> QED
      BY <1>4, <1>5, <2>1
<1>9. ASSUME NEW F, SettleFacts(F)
      PROVE  SupplyFits'
    BY <1>1, <1>3, <1>9 DEF SettleFacts, OracleAccount
<1> QED
    BY <1>1, <1>3, <1>6, <1>7, <1>8, <1>9, StakeCases DEF Quiet

\* A challenge adds its bond to its question's vault, and the settlement that
\* empties the vault resolves the question.
LEMMA BondsInVaultsStep ==
    ASSUME TypeInv, SlashesOrdered, BondsInVaults, [Next]_vars
    PROVE  BondsInVaults'
<1>1. /\ TypeOK /\ kass \in KassLedger /\ kass.conditional \in [Questions -> Nat]
      /\ OpenMarkets \subseteq DOMAIN market /\ DOMAIN market \subseteq Proposed
      /\ \A p \in DOMAIN market : market[p].question \in Questions
      /\ \A p \in Proposed : proposer[p].bond \in Nat
    BY KassTypes, AccountNats
    DEF TypeInv, TypeOK, AccountsLinked, OpenMarkets, AccountsOf, MarketAccount
<1>2. \A p \in Proposed : proposer'[p].bond = proposer[p].bond
    BY BondsKept
<1>3. CASE /\ market' = market /\ resolved_question' = resolved_question
           /\ kass'.conditional = kass.conditional
  <2>1. OpenMarkets' = OpenMarkets
      BY <1>3 DEF OpenMarkets
  <2> QED
      BY <1>1, <1>2, <1>3, <2>1 DEF BondsInVaults
<1>4. ASSUME NEW p \in DOMAIN ai_claim, NEW question \in Questions, NEW price,
             OpenChallenge(p, question, price)
      PROVE  BondsInVaults'
  <2> SUFFICES ASSUME NEW bond, bond = proposer[p].bond,
                      NEW m, m = [question |-> question,
                                  challenger_usdc |-> RequiredUsdc(bond, price),
                                  twap_end |-> now + TwapWindow, settled |-> FALSE]
               PROVE  BondsInVaults'
      OBVIOUS
  <2>1. p \in Proposed /\ bond \in Nat
      BY <1>1 DEF TypeInv, AccountsLinked
  <2>2. /\ kass'.conditional = [kass.conditional EXCEPT ![question] = @ + bond]
        /\ market' = Create(market, p, m) /\ p \notin DOMAIN market
        /\ resolved_question' = resolved_question
      BY <1>1, <1>4 DEF OpenChallenge, KassLedger
  <2>3. /\ OpenMarkets' = OpenMarkets \cup {p}
        /\ market'[p].question = question
        /\ \A other \in OpenMarkets : market'[other] = market[other]
      BY <2>2 DEF OpenMarkets, Create
  <2>4. /\ kass'.conditional[question] = kass.conditional[question] + bond
        /\ \A q \in Questions \ {question} : kass'.conditional[q] = kass.conditional[q]
        /\ \A q \in Questions : kass.conditional[q] \in Nat
      BY <1>1, <2>2
  <2>5. \A q \in Questions : kass.conditional[q] <= kass'.conditional[q]
      BY <2>1, <2>4
  <2>6. proposer'[p].bond <= kass'.conditional[market'[p].question]
      BY <1>2, <2>1, <2>3, <2>4
  <2>7. ASSUME NEW o \in OpenMarkets, market'[o].question \notin resolved_question'
        PROVE  proposer'[o].bond <= kass'.conditional[market'[o].question]
    <3>1. /\ proposer[o].bond <= kass.conditional[market[o].question]
          /\ market'[o].question = market[o].question /\ market[o].question \in Questions
          /\ proposer'[o].bond = proposer[o].bond /\ proposer[o].bond \in Nat
        BY <1>1, <1>2, <2>2, <2>3, <2>7 DEF BondsInVaults
    <3>2. /\ kass.conditional[market[o].question] \in Nat
          /\ kass.conditional[market[o].question] <= kass'.conditional[market[o].question]
          /\ kass'.conditional[market[o].question] \in Int
        BY <2>1, <2>4, <2>5, <3>1
    <3> QED
        BY <3>1, <3>2
  <2> QED
      BY <2>3, <2>6, <2>7 DEF BondsInVaults
<1>5. ASSUME NEW p \in OpenMarkets, CloseMarket(p),
             kass'.conditional = [kass.conditional EXCEPT ![market[p].question] = 0]
      PROVE  BondsInVaults'
  <2>1. /\ OpenMarkets' = OpenMarkets \ {p}
        /\ \A other \in OpenMarkets \ {p} : market'[other] = market[other]
        /\ resolved_question' = resolved_question \cup {market[p].question}
      BY <1>1, <1>5, ClosedMarket DEF CloseMarket
  <2>2. \A q \in Questions \ {market[p].question} : kass'.conditional[q] = kass.conditional[q]
      BY <1>1, <1>5
  <2> QED
      BY <1>1, <1>2, <2>1, <2>2 DEF BondsInVaults
<1>6. ASSUME NEW p, SettleSuccessful(p)
      PROVE  BondsInVaults'
  <2>1. /\ p \in OpenMarkets /\ CloseMarket(p) /\ market[p].question \in Questions
        /\ RedeemedAt(market[p].question).stake_vault \in U64
      BY <1>1, <1>6 DEF SettleSuccessful, CanSettleSuccessful, SettleableMarket
  <2> SUFFICES ASSUME NEW r, r = RedeemedAt(market[p].question)
               PROVE  BondsInVaults'
      OBVIOUS
  <2>2. /\ r \in KassLedger
        /\ r.conditional = [kass.conditional EXCEPT ![market[p].question] = 0]
      BY <1>1, <2>1, RedeemedTypes
  <2>3. kass'.conditional = r.conditional
      BY <1>6, <2>2 DEF SettleSuccessful, KassLedger
  <2> QED
      BY <1>5, <2>1, <2>2, <2>3
<1>7. ASSUME NEW p, SettleFailed(p)
      PROVE  BondsInVaults'
  <2>1. /\ p \in OpenMarkets /\ CloseMarket(p) /\ market[p].question \in Questions
        /\ RedeemedAt(market[p].question).stake_vault \in U64
        /\ kass' = RedeemedAt(market[p].question)
      BY <1>1, <1>7 DEF SettleFailed, SettleableMarket
  <2> QED
      BY <1>1, <1>5, <2>1, RedeemedTypes
<1>8. ASSUME NEW amount, Deposit(amount) \/ Burn(amount)
      PROVE  kass'.conditional = kass.conditional
    BY <1>1, <1>8 DEF Deposit, Burn, KassLedger
<1>9. ASSUME NEW S, SlashForNoFacts(S)
      PROVE  kass'.conditional = kass.conditional
    BY <1>8, <1>9 DEF SlashForNoFacts
<1>10. PhaseMove => /\ market' = market /\ resolved_question' = resolved_question
                    /\ kass'.conditional = kass.conditional
  <2>1. PhaseMove => resolved_question' = resolved_question
      BY DEF PhaseMove, FinalizeProposals, FinalizeAgreedProposals, FinalizeDisputedProposals,
             AdvancePhase, FinalizeOracle, Resolve, DeadEnd, ResolveDeadend, Tick, vars
  <2> QED
      BY <1>1, <2>1, PhaseMoveKeeps
<1> QED
    BY <1>3, <1>4, <1>6, <1>7, <1>8, <1>9, <1>10, StepCases
    DEF Propose, SubmitFact, VoteFact, SlashForNoFacts, SettleFacts, SubmitAiClaim,
        FinalizeAiClaims

LEMMA ProgressStep ==
    ASSUME BooksInv, StakesInv, ProgressInv, ~Terminal, [Next]_vars
    PROVE  ProgressInv'
<1>1. /\ TypeInv /\ CountersAccurate /\ SlashesOrdered /\ TotalsMatch /\ FactsByPhase
      /\ CountsByPhase /\ SlashedAreOut /\ ChallengersWait /\ BondsInDispute /\ BondsInVaults
    BY DEF BooksInv, DisputeInv, StakesInv, ProgressInv
<1> QED
    BY <1>1, CountsStep, SlashedAreOutStep, ChallengersWaitStep, BondsInDisputeStep,
       SupplyFitsStep, BondsInVaultsStep DEF ProgressInv

-----------------------------------------------------------------------------
\* No finalizer overflows the pool

\* What the proposers in S may still lose, beyond what they lost.
LEMMA SlashesWithin ==
    ASSUME TypeOK, SlashesOrdered, NEW S \in SUBSET Proposed, NEW d,
           \A p \in S : d[p] \in Nat /\ proposer[p].slashed_amount + d[p] <= proposer[p].bond
    PROVE  /\ SumFunctionOnSet(d, S) \in Nat
           /\ SumFunction(SlashedBy) + SumFunctionOnSet(d, S) <= SumFunction(BondBy)
<1>1. IsFiniteSet(Proposed) /\ IsFiniteSet(S)
    BY FiniteAccounts, FS_Subset
<1>2. \A p \in Proposed : /\ proposer[p].bond \in Nat /\ proposer[p].slashed_amount \in Nat
                          /\ proposer[p].slashed_amount <= proposer[p].bond
    BY AccountNats DEF SlashesOrdered
<1> DEFINE g == [p \in Proposed |-> SlashedBy[p] + IF p \in S THEN d[p] ELSE 0]
<1>3. IntOn(SlashedBy, Proposed) /\ IntOn(BondBy, Proposed) /\ IntOn(d, S) /\ NatOn(d, S)
    BY BookSums, StakeSums DEF IntOn, NatOn
<1>4. /\ \A p \in S : g[p] = SlashedBy[p] + d[p]
      /\ \A p \in Proposed \ S : g[p] = SlashedBy[p]
    BY <1>2 DEF SlashedBy
<1>5. \A p \in Proposed : g[p] \in Int /\ g[p] <= BondBy[p]
    BY <1>2 DEF SlashedBy, BondBy
<1> HIDE DEF g
<1>6. SumFunctionOnSet(g, Proposed)
        = SumFunctionOnSet(SlashedBy, Proposed) + SumFunctionOnSet(d, S)
    BY <1>1, <1>3, <1>4, SumBatch
<1>7. SumFunctionOnSet(g, Proposed) <= SumFunctionOnSet(BondBy, Proposed)
  <2>1. IntOn(g, Proposed)
      BY <1>5 DEF IntOn
  <2> QED
      BY <1>1, <1>3, <1>5, <2>1, SumMonotone
<1>8. SumFunctionOnSet(d, S) \in Nat
    BY <1>1, <1>3, SumNat
<1> QED
    BY <1>6, <1>7, <1>8, BookSums, TotalSums

\* And what may still be taken, or counted, of the stakes on the facts in F,
\* where b says what was already.
LEMMA HeldWithin ==
    ASSUME TypeOK, NEW b, \A f \in DOMAIN fact : b[f] \in Nat /\ b[f] <= HeldBy[f],
           NEW F \in SUBSET DOMAIN fact, NEW e,
           \A f \in F : e[f] \in Nat /\ b[f] + e[f] <= HeldBy[f]
    PROVE  /\ SumFunctionOnSet(e, F) \in Nat
           /\ SumFunctionOnSet(b, DOMAIN fact) + SumFunctionOnSet(e, F) <= SumFunction(HeldBy)
<1>1. IsFiniteSet(DOMAIN fact) /\ IsFiniteSet(F)
    BY FiniteAccounts, FS_Subset
<1> DEFINE g == [f \in DOMAIN fact |-> b[f] + IF f \in F THEN e[f] ELSE 0]
<1>2. /\ IntOn(b, DOMAIN fact) /\ IntOn(HeldBy, DOMAIN fact)
      /\ IntOn(e, F) /\ NatOn(e, F)
    BY StakeSums DEF IntOn, NatOn
<1>3. /\ \A f \in F : g[f] = b[f] + e[f]
      /\ \A f \in DOMAIN fact \ F : g[f] = b[f]
    OBVIOUS
<1>4. \A f \in DOMAIN fact : g[f] \in Int /\ g[f] <= HeldBy[f]
    OBVIOUS
<1> HIDE DEF g
<1>5. SumFunctionOnSet(g, DOMAIN fact)
        = SumFunctionOnSet(b, DOMAIN fact) + SumFunctionOnSet(e, F)
    BY <1>1, <1>2, <1>3, SumBatch
<1>6. SumFunctionOnSet(g, DOMAIN fact) <= SumFunctionOnSet(HeldBy, DOMAIN fact)
  <2>1. IntOn(g, DOMAIN fact)
      BY <1>4 DEF IntOn
  <2> QED
      BY <1>1, <1>2, <1>4, <2>1, SumMonotone
<1>7. SumFunctionOnSet(e, F) \in Nat
    BY <1>1, <1>2, SumNat
<1> QED
    BY <1>5, <1>6, <1>7, TotalSums

LEMMA ForfeitsWithin ==
    ASSUME TypeOK, NEW F \in SUBSET DOMAIN fact, NEW e,
           \A f \in F : e[f] \in Nat /\ ForfeitedBy[f] + e[f] <= HeldBy[f]
    PROVE  /\ SumFunctionOnSet(e, F) \in Nat
           /\ SumFunction(ForfeitedBy) + SumFunctionOnSet(e, F) <= SumFunction(HeldBy)
<1>1. ASSUME NEW f \in DOMAIN fact
      PROVE  ForfeitedBy[f] \in Nat /\ ForfeitedBy[f] <= HeldBy[f]
  <2>1. /\ fact[f].stake \in Nat /\ fact[f].approve_stake \in Nat
        /\ fact[f].duplicate_stake \in Nat
      BY AccountNats
  <2>2. /\ FloorFrac(fact[f].approve_stake, FactVoteSlash) \in Nat
        /\ FloorFrac(fact[f].approve_stake, FactVoteSlash) <= fact[f].approve_stake
      BY <2>1, FloorFracBounds, SlashIsProper
  <2> QED
      BY <2>1, <2>2 DEF HeldBy, ForfeitedBy, Forfeited
<1> QED
    BY <1>1, HeldWithin, BookSums

\* A pool that grows by no more than that stays below all that was staked, and
\* so does the pool with the emission below what a token account holds.
Within(amount) ==
    /\ oracle.bond_pool + amount \in Nat
    /\ oracle.bond_pool + amount \in U64
    /\ oracle.bond_pool + amount <= oracle.total_oracle_stake
    /\ oracle.bond_pool + amount + RewardEmission \in U64

LEMMA PoolTakes ==
    ASSUME BooksInv, TotalsMatch, SupplyFits, NEW S \in SUBSET Proposed, NEW d,
           \A p \in S : d[p] \in Nat /\ proposer[p].slashed_amount + d[p] <= proposer[p].bond,
           NEW F \in SUBSET DOMAIN fact, NEW e,
           \A f \in F : e[f] \in Nat /\ ForfeitedBy[f] + e[f] <= HeldBy[f]
    PROVE  Within(SumFunctionOnSet(d, S) + SumFunctionOnSet(e, F))
<1>1. /\ TypeOK /\ SlashesOrdered /\ Books
    BY DEF BooksInv, DisputeInv, TypeInv
<1>2. /\ oracle.bond_pool \in Nat /\ oracle.total_oracle_stake \in Nat
      /\ RewardEmission \in Nat /\ U64_MAX \in Nat
    BY <1>1, DisputeAssumption, U64MaxAssumption DEF TypeOK, OracleAccount, U64
<1>3. /\ SumFunctionOnSet(d, S) \in Nat /\ SumFunctionOnSet(e, F) \in Nat
      /\ SumFunction(SlashedBy) + SumFunctionOnSet(d, S) <= SumFunction(BondBy)
      /\ SumFunction(ForfeitedBy) + SumFunctionOnSet(e, F) <= SumFunction(HeldBy)
    BY <1>1, SlashesWithin, ForfeitsWithin
<1>4. /\ SumFunction(SlashedBy) \in Int /\ SumFunction(ForfeitedBy) \in Int
      /\ SumFunction(BondBy) \in Int /\ SumFunction(HeldBy) \in Int
    BY <1>1, BookSums, TotalSums
<1>5. /\ oracle.bond_pool = SumFunction(SlashedBy) + SumFunction(ForfeitedBy)
      /\ oracle.total_oracle_stake = SumFunction(BondBy) + SumFunction(HeldBy)
    BY <1>1 DEF Books, TotalsMatch
<1> DEFINE amount == SumFunctionOnSet(d, S) + SumFunctionOnSet(e, F)
<1>6. amount \in Nat /\ oracle.bond_pool + amount <= oracle.total_oracle_stake
    BY <1>3, <1>4, <1>5
<1>7. oracle.total_oracle_stake + RewardEmission <= U64_MAX
    BY <1>2 DEF SupplyFits, U64
<1> HIDE DEF amount
<1>8. Within(amount)
    BY <1>2, <1>6, <1>7 DEF Within, U64
<1> QED
    BY <1>8 DEF amount

\* The pool as it is.
LEMMA PoolFits ==
    ASSUME BooksInv, TotalsMatch, SupplyFits
    PROVE  Within(0)
<1> DEFINE none == [x \in {} |-> 0]
<1>1. SumFunctionOnSet(none, {}) = 0
    BY SumEmpty
<1>2. /\ {} \in SUBSET Proposed /\ {} \in SUBSET DOMAIN fact
      /\ \A p \in {} : none[p] \in Nat /\ proposer[p].slashed_amount + none[p] <= proposer[p].bond
      /\ \A f \in {} : none[f] \in Nat /\ ForfeitedBy[f] + none[f] <= HeldBy[f]
    OBVIOUS
<1> HIDE DEF none
<1>3. Within(SumFunctionOnSet(none, {}) + SumFunctionOnSet(none, {}))
    BY <1>2, PoolTakes
<1> QED
    BY <1>1, <1>3

-----------------------------------------------------------------------------
\* Which finalizers the program accepts

\* A dispute that is not over.
OpenInv == BooksInv /\ StakesInv /\ ProgressInv /\ ~Terminal

LEMMA OpenFacts ==
    ASSUME OpenInv
    PROVE  /\ TypeOK /\ TypeInv /\ CountersAccurate /\ ClaimsMatch /\ SlashesOrdered
           /\ PhasesOrdered /\ VaultsBackChallenges /\ BooksInv
           /\ SlashesMarked /\ ChallengedStand /\ FactsInOrder /\ Books
           /\ TotalsMatch /\ FactsByPhase /\ PoolsByPhase
           /\ CountsByPhase /\ SlashedAreOut /\ ChallengersWait
           /\ BondsInDispute /\ SupplyFits /\ BondsInVaults /\ ~Terminal
BY DEF OpenInv, BooksInv, DisputeInv, OrderInv, TypeInv, StakesInv, ProgressInv

LEMMA ProposalsFinalize ==
    ASSUME OpenInv, oracle.phase = "Proposal", AfterEnd, oracle.proposer_count > 0
    PROVE  CanFinalizeProposals
<1>1. ProposalsClosed
    BY OpenFacts DEF ProposalsClosed, CountersAccurate
<1>2. oracle.bond_pool + RewardEmission \in U64
  <2>1. Within(0) /\ oracle.bond_pool \in Nat
      BY OpenFacts, PoolFits, U64MaxAssumption DEF TypeOK, OracleAccount, U64
  <2> QED
      BY <2>1 DEF Within
<1> QED
    BY <1>1, <1>2 DEF CanFinalizeProposals, CanFinalizeDisputed, CanFinalizeAgreed

\* Of a dispute without facts all that still stand can be slashed at once.
LEMMA SlashAccepted ==
    ASSUME OpenInv, FactVotingClosed, oracle.fact_count = 0,
           NEW S \in SUBSET Proposed, Survivors \subseteq S,
           \A p \in S : ~proposer[p].slashed
    PROVE  CanSlashForNoFacts(S)
<1>1. /\ TypeOK /\ BooksInv /\ TotalsMatch /\ SupplyFits /\ SlashesMarked
      /\ CountersAccurate /\ PoolsByPhase /\ ~Terminal /\ oracle.phase = "FactVoting"
    BY OpenFacts DEF FactVotingClosed
<1>2. NotDisqualified(S) = Survivors /\ Survivors \in SUBSET Proposed
    BY DEF NotDisqualified, Survivors
<1> DEFINE d == [p \in Survivors |-> proposer[p].bond]
           none == [x \in {} |-> 0]
<1>3. \A p \in Survivors :
          d[p] \in Nat /\ proposer[p].slashed_amount + d[p] <= proposer[p].bond
    BY <1>1, <1>2, AccountNats DEF SlashesMarked
<1>4. SumFunctionOnSet(d, Survivors) = BondsOf(Survivors) /\ SumFunctionOnSet(none, {}) = 0
    BY SumOver, SumEmpty DEF BondsOf
<1>5. {} \in SUBSET DOMAIN fact /\ \A f \in {} : none[f] \in Nat /\ ForfeitedBy[f] + none[f] <= HeldBy[f]
    OBVIOUS
<1> HIDE DEF d, none
<1>6. SumFunctionOnSet(d, Survivors) \in Nat
    BY <1>1, <1>2, <1>3, SlashesWithin, OpenFacts
<1>7. Within(BondsOf(Survivors))
  <2>1. Within(SumFunctionOnSet(d, Survivors) + SumFunctionOnSet(none, {}))
      BY <1>1, <1>2, <1>3, <1>5, PoolTakes
  <2> QED
      BY <1>4, <1>6, <2>1
<1>8. PoolWithout(S) = oracle.bond_pool + BondsOf(Survivors)
    BY <1>2 DEF PoolWithout
<1>9. SurvivingWithout(S) = 0
  <2>1. oracle.surviving_count = Cardinality(Survivors) /\ oracle.surviving_count \in Nat
      BY <1>1 DEF CountersAccurate, TypeOK, OracleAccount
  <2> QED
      BY <1>2, <2>1 DEF SurvivingWithout
<1>10. CanBurn(PoolWithout(S) + RewardEmission)
  <2>1. OpenMarkets = {} /\ kass.challengers = 0
      BY <1>1, OpenFacts DEF PhasesOrdered, OpenMarkets, ChallengersWait, TerminalPhases
  <2>2. /\ kass.stake_vault + 0 = oracle.total_oracle_stake + RewardEmission
        /\ kass.stake_vault \in Nat
      BY <1>1, <2>1, VaultBetweenChallenges, U64MaxAssumption DEF U64
  <2>3. oracle.total_oracle_stake \in Nat /\ RewardEmission \in Nat
      BY <1>1, DisputeAssumption, U64MaxAssumption DEF TypeOK, OracleAccount, U64
  <2>4. /\ PoolWithout(S) \in Nat /\ PoolWithout(S) <= oracle.total_oracle_stake
        /\ PoolWithout(S) + RewardEmission \in U64
      BY <1>7, <1>8 DEF Within
  <2>5. PoolWithout(S) + RewardEmission <= kass.stake_vault
      BY <2>2, <2>3, <2>4
  <2> QED
      BY <2>4, <2>5 DEF CanBurn
<1> QED
    BY <1>7, <1>8, <1>9, <1>10 DEF CanSlashForNoFacts, Within

\* Any facts that are not settled yet can be, all together.
LEMMA SettleAccepted ==
    ASSUME OpenInv, FactVotingClosed, oracle.fact_count # 0,
           NEW F \in SUBSET DOMAIN fact, \A f \in F : ~fact[f].settled
    PROVE  CanSettleFacts(F)
<1>1. /\ TypeOK /\ BooksInv /\ TotalsMatch /\ SupplyFits /\ FactsInOrder
    BY OpenFacts
<1> DEFINE none == [x \in {} |-> 0]
           forfeits == [f \in F |-> ForfeitedStake(fact[f])]
           approved == [f \in F |-> ApprovedStake(fact[f])]
<1>2. ASSUME NEW f \in DOMAIN fact
      PROVE  /\ fact[f].stake \in Nat /\ fact[f].approve_stake \in Nat
             /\ fact[f].duplicate_stake \in Nat
             /\ FloorFrac(fact[f].approve_stake, FactVoteSlash) \in Nat
             /\ FloorFrac(fact[f].approve_stake, FactVoteSlash) <= fact[f].approve_stake
  <2>1. /\ fact[f].stake \in Nat /\ fact[f].approve_stake \in Nat
        /\ fact[f].duplicate_stake \in Nat
      BY <1>1, AccountNats
  <2> QED
      BY <2>1, FloorFracBounds, SlashIsProper
<1>3. \A f \in F : forfeits[f] \in Nat /\ ForfeitedBy[f] + forfeits[f] <= HeldBy[f]
    BY <1>2 DEF ForfeitedBy, Forfeited, ForfeitedStake, HeldBy
<1>4. \A f \in F : approved[f] \in Nat /\ ApprovedBy[f] + approved[f] <= HeldBy[f]
    BY <1>1, <1>2 DEF ApprovedBy, ApprovedStake, FactsInOrder, HeldBy
<1>5. /\ SumFunctionOnSet(forfeits, F) = ForfeitedIn(F)
      /\ SumFunctionOnSet(approved, F) = ApprovedIn(F)
      /\ SumFunctionOnSet(none, {}) = 0
    BY SumOver, SumEmpty DEF ForfeitedIn, ApprovedIn
<1>6. {} \in SUBSET Proposed /\ \A p \in {} : none[p] \in Nat /\ proposer[p].slashed_amount + none[p] <= proposer[p].bond
    OBVIOUS
<1>7. \A f \in DOMAIN fact : ApprovedBy[f] \in Nat /\ ApprovedBy[f] <= HeldBy[f]
    BY <1>2 DEF ApprovedBy, HeldBy
<1> HIDE DEF none, forfeits, approved
<1>8. SumFunctionOnSet(forfeits, F) \in Nat
    BY <1>1, <1>3, ForfeitsWithin
<1>9. oracle.bond_pool + ForfeitedIn(F) \in U64
  <2>1. Within(SumFunctionOnSet(none, {}) + SumFunctionOnSet(forfeits, F))
      BY <1>1, <1>3, <1>6, PoolTakes
  <2>2. Within(ForfeitedIn(F))
      BY <1>5, <1>8, <2>1
  <2> QED
      BY <2>2 DEF Within
<1>10. oracle.total_approved_fact_stake + ApprovedIn(F) \in U64
  <2>1. /\ SumFunctionOnSet(approved, F) \in Nat
        /\ SumFunctionOnSet(ApprovedBy, DOMAIN fact) + SumFunctionOnSet(approved, F)
             <= SumFunction(HeldBy)
      BY <1>1, <1>4, <1>7, HeldWithin
  <2>2. /\ oracle.total_approved_fact_stake = SumFunctionOnSet(ApprovedBy, DOMAIN fact)
        /\ oracle.total_oracle_stake = SumFunction(BondBy) + SumFunction(HeldBy)
      BY <1>1, TotalSums DEF TotalsMatch
  <2>3. SumFunction(BondBy) \in Nat
    <3>1. SumFunctionOnSet(BondBy, Proposed) \in Nat
        BY <1>1, FiniteAccounts, StakeSums, SumNat
    <3> QED
        BY <1>1, <3>1, TotalSums
  <2>4. /\ SumFunction(HeldBy) \in Int /\ oracle.total_oracle_stake \in U64
        /\ oracle.total_approved_fact_stake \in Nat /\ U64_MAX \in Nat
      BY <1>1, TotalSums, U64MaxAssumption DEF TypeOK, OracleAccount, U64
  <2>5. oracle.total_approved_fact_stake + ApprovedIn(F) <= oracle.total_oracle_stake
      BY <1>5, <2>1, <2>2, <2>3, <2>4 DEF U64
  <2> QED
      BY <1>5, <2>1, <2>4, <2>5 DEF U64
<1> QED
    BY <1>9, <1>10 DEF CanSettleFacts

\* Any proposers that are not finalized yet can be, all together.
LEMMA AiClaimsAccepted ==
    ASSUME OpenInv, oracle.phase = "AiClaim", AfterEnd, NEW S \in SUBSET Proposed,
           \A p \in S : ~proposer[p].ai_finalized
    PROVE  CanFinalizeAiClaims(S)
<1>1. /\ TypeOK /\ BooksInv /\ TotalsMatch /\ SupplyFits /\ SlashesOrdered
      /\ CountersAccurate
    BY OpenFacts
<1> DEFINE none == [x \in {} |-> 0]
           slashes == [p \in S |-> AiSlash(proposer[p])]
<1>2. ASSUME NEW p \in S
      PROVE  slashes[p] \in Nat /\ proposer[p].slashed_amount + slashes[p] <= proposer[p].bond
  <2>1. /\ proposer[p] \in ProposerAccount
        /\ proposer[p].bond \in Nat /\ proposer[p].slashed_amount \in Nat
      BY <1>1, AccountNats DEF TypeOK, AccountsOf, Proposed
  <2>2. AiSlash(proposer[p]) \in Nat /\ AiSlash(proposer[p]) <= proposer[p].bond
      BY <2>1, AiSlashTypes, U64MaxAssumption DEF U64
  <2>3. CASE proposer[p].disqualified
    <3>1. AiSlash(proposer[p]) = 0
        BY <2>3 DEF AiSlash, Penalised
    <3> QED
        BY <1>1, <2>1, <3>1 DEF SlashesOrdered
  <2>4. CASE ~proposer[p].disqualified
    <3>1. proposer[p].slashed_amount = 0
        BY <1>1, <2>4 DEF SlashesOrdered
    <3> QED
        BY <2>1, <2>2, <3>1
  <2> QED
      BY <2>3, <2>4
<1>3. SumFunctionOnSet(slashes, S) = AiSlashesOf(S) /\ SumFunctionOnSet(none, {}) = 0
    BY SumOver, SumEmpty DEF AiSlashesOf
<1>4. {} \in SUBSET DOMAIN fact /\ \A f \in {} : none[f] \in Nat /\ ForfeitedBy[f] + none[f] <= HeldBy[f]
    OBVIOUS
<1> HIDE DEF none, slashes
<1>5. SumFunctionOnSet(slashes, S) \in Nat
    BY <1>1, <1>2, SlashesWithin
<1>6. Within(AiSlashesOf(S))
  <2>1. Within(SumFunctionOnSet(slashes, S) + SumFunctionOnSet(none, {}))
      BY <1>1, <1>2, <1>4, PoolTakes
  <2> QED
      BY <1>3, <1>5, <2>1
<1>7. oracle.surviving_count >= Cardinality(NoShowsIn(S))
  <2>1. NoShowsIn(S) \subseteq Survivors
      BY DEF NoShowsIn, NotDisqualified, Survivors
  <2>2. Cardinality(NoShowsIn(S)) <= Cardinality(Survivors)
      BY <1>1, <2>1, FiniteAccounts, FS_Subset
  <2>3. Cardinality(NoShowsIn(S)) \in Nat /\ Cardinality(Survivors) \in Nat
      BY <1>1, <2>1, FiniteAccounts, FS_Subset, FS_CardinalityType
  <2> QED
      BY <1>1, <2>2, <2>3 DEF CountersAccurate
<1> QED
    BY <1>6, <1>7 DEF CanFinalizeAiClaims, Within

\* With no challenge open the verdict can be drawn, or the dead end burned: all
\* but what challengers were paid of the bonds is in the vault.
LEMMA OracleFinalizes ==
    ASSUME OpenInv, oracle.phase = "Challenge", AfterEnd, OpenMarkets = {}
    PROVE  CanFinalizeOracle
<1>1. /\ TypeOK /\ BooksInv /\ TotalsMatch /\ SupplyFits /\ SlashesOrdered /\ Books
      /\ CountersAccurate /\ ClaimsMatch /\ PhasesOrdered /\ CountsByPhase
      /\ PoolsByPhase /\ ~Terminal
    BY OpenFacts
<1>2. ChallengesClosed
  <2>1. oracle.open_challenge_count = 0
      BY <1>1, FS_EmptySet DEF CountersAccurate
  <2>2. \A p \in Survivors : ~NoShow(proposer[p])
      BY <1>1 DEF PhasesOrdered, Finalized, Survivors, ClaimsMatch
  <2> QED
      BY <1>1, <2>1, <2>2 DEF ChallengesClosed, CountersAccurate, CountsByPhase
<1>3. /\ oracle.bond_pool \in Nat /\ oracle.total_oracle_stake \in U64
      /\ oracle.total_oracle_stake \in Nat /\ RewardEmission \in Nat /\ U64_MAX \in Nat
    BY <1>1, DisputeAssumption, U64MaxAssumption DEF TypeOK, OracleAccount, U64
<1>4. oracle.bond_pool + RewardEmission \in U64
  <2>1. Within(0)
      BY <1>1, PoolFits
  <2> QED
      BY <1>3, <2>1 DEF Within
<1>5. ASSUME NEW option PROVE BondsFor(option) \in U64
  <2> DEFINE T == { p \in Survivors : Claims[p] = option }
             bonds == [p \in T |-> proposer[p].bond]
  <2>1. T \in SUBSET Proposed /\ IsFiniteSet(T)
      BY <1>1, FiniteAccounts, FS_Subset DEF Survivors
  <2>2. BondsFor(option) = SumFunctionOnSet(bonds, T)
      BY SumOver DEF BondsFor, BondsOf
  <2>3. \A p \in T : bonds[p] = BondBy[p]
      BY <2>1 DEF BondBy
  <2> HIDE DEF T, bonds
  <2>4. SumFunctionOnSet(bonds, T) = SumFunctionOnSet(BondBy, T)
      BY <2>1, <2>3, SumCongruence
  <2>5. /\ SumFunctionOnSet(BondBy, T) <= SumFunctionOnSet(BondBy, Proposed)
        /\ SumFunctionOnSet(BondBy, T) \in Nat
    <3>1. IsFiniteSet(Proposed) /\ NatOn(BondBy, Proposed) /\ NatOn(BondBy, T)
        BY <1>1, <2>1, FiniteAccounts, StakeSums DEF NatOn
    <3> QED
        BY <2>1, <3>1, SumSubset, SumNat
  <2>6. SumFunction(HeldBy) \in Nat
    <3>1. SumFunctionOnSet(HeldBy, DOMAIN fact) \in Nat
        BY <1>1, FiniteAccounts, StakeSums, SumNat
    <3> QED
        BY <1>1, <3>1, TotalSums
  <2>7. /\ oracle.total_oracle_stake = SumFunctionOnSet(BondBy, Proposed) + SumFunction(HeldBy)
        /\ SumFunctionOnSet(BondBy, Proposed) \in Int
      BY <1>1, TotalSums DEF TotalsMatch
  <2> QED
      BY <1>3, <2>2, <2>4, <2>5, <2>6, <2>7 DEF U64
<1>6. oracle.bond_pool + RewardEmission <= kass.stake_vault
  <2>1. SumFunction(SlashedBy) + SumFunction(PaidOutBy) <= SumFunction(BondBy)
    <3>1. \A p \in Proposed :
              /\ PaidOutBy[p] \in Nat
              /\ proposer[p].slashed_amount + PaidOutBy[p] <= proposer[p].bond
        BY <1>1, AccountNats DEF PaidOutBy, PaidOut, SlashesOrdered
    <3> QED
        BY <1>1, <3>1, SlashesWithin, BookSums
  <2>2. SumFunction(ForfeitedBy) <= SumFunction(HeldBy)
    <3> DEFINE none == [x \in {} |-> 0]
    <3>1. SumFunctionOnSet(none, {}) = 0
        BY SumEmpty
    <3>2. {} \in SUBSET DOMAIN fact /\ \A f \in {} : none[f] \in Nat /\ ForfeitedBy[f] + none[f] <= HeldBy[f]
        OBVIOUS
    <3> HIDE DEF none
    <3>3. SumFunction(ForfeitedBy) + SumFunctionOnSet(none, {}) <= SumFunction(HeldBy)
        BY <1>1, <3>2, ForfeitsWithin
    <3> QED
        BY <1>1, <3>1, <3>3, BookSums
  <2>3. /\ SumFunction(SlashedBy) \in Int /\ SumFunction(PaidOutBy) \in Int
        /\ SumFunction(ForfeitedBy) \in Int /\ SumFunction(BondBy) \in Int
        /\ SumFunction(HeldBy) \in Int
      BY <1>1, BookSums, TotalSums
  <2>4. /\ kass.stake_vault + kass.challengers = oracle.total_oracle_stake + RewardEmission
        /\ kass.stake_vault \in Int
      BY <1>1, VaultBetweenChallenges, U64MaxAssumption DEF U64
  <2> QED
      BY <1>1, <1>3, <2>1, <2>2, <2>3, <2>4 DEF Books, TotalsMatch
<1> QED
    BY <1>2, <1>4, <1>5, <1>6
    DEF CanFinalizeOracle, CanResolve, CanDeadEnd, CanBurn

\* An open challenge whose question nobody resolved can be settled once its
\* pools were watched: the vault of the question holds the bond, and the pool
\* grows by what is left of it.
LEMMA MarketSettles ==
    ASSUME OpenInv, NEW p \in OpenMarkets, oracle.phase = "Challenge",
           now >= market[p].twap_end, ~Stranded(p)
    PROVE  CanSettleMarket(p)
<1> DEFINE a == proposer[p]
           q == market[p].question
           fee == KassFee(a)
<1>1. /\ TypeOK /\ BooksInv /\ TotalsMatch /\ SupplyFits /\ SlashesOrdered
      /\ CountersAccurate /\ ChallengedStand /\ BondsInVaults /\ PoolsByPhase /\ ~Terminal
      /\ kass \in KassLedger /\ KassConserved
    BY OpenFacts DEF TypeOK, Books
<1>2. /\ p \in Proposed /\ q \in Questions /\ q \notin resolved_question
      /\ a \in ProposerAccount
      /\ a.bond \in Nat /\ a.slashed_amount \in Nat /\ a.slashed_amount <= a.bond
  <2>1. p \in DOMAIN market /\ DOMAIN market \subseteq Proposed
      BY OpenFacts DEF OpenMarkets, TypeInv, AccountsLinked
  <2> QED
      BY <1>1, <2>1, AccountNats
      DEF TypeOK, AccountsOf, MarketAccount, Stranded, Proposed, SlashesOrdered
<1>3. /\ fee \in Nat /\ fee <= a.bond /\ fee <= a.bond - a.slashed_amount
      /\ a.bond - fee \in U64
    BY <1>2, KassFeeTypes
<1> HIDE DEF a, q, fee
<1>4. /\ kass.stake_vault \in Nat /\ kass.burned \in Nat /\ kass.challengers \in Nat
      /\ kass.conditional \in [Questions -> Nat] /\ kass.conditional[q] \in Nat
      /\ oracle.bond_pool \in Nat /\ RewardEmission \in Nat
      /\ oracle.total_oracle_stake \in Nat /\ U64_MAX \in Nat
    BY <1>1, <1>2, KassTypes, DisputeAssumption, U64MaxAssumption
    DEF TypeOK, OracleAccount, U64
<1>5. /\ RedeemedAt(q).stake_vault \in U64
      /\ RedeemedAt(q).stake_vault = kass.stake_vault + kass.conditional[q]
  <2>1. RedeemedAt(q).stake_vault = kass.stake_vault + kass.conditional[q]
      BY <1>1, <1>2 DEF RedeemedAt, KassLedger
  <2>2. kass.conditional[q] <= SumFunction(kass.conditional)
    <3>1. IsFiniteSet(Questions) /\ NatOn(kass.conditional, Questions)
        BY <1>4, DisputeAssumption DEF NatOn
    <3> QED
        BY <1>1, <1>2, <3>1, SumOneOf, ConditionalSums
  <2>3. SumFunction(kass.conditional) \in Int
      BY <1>1, ConditionalSums
  <2> DEFINE split == SumFunction(kass.conditional)
  <2>4. /\ kass.stake_vault + split + kass.burned + kass.challengers
              = oracle.total_oracle_stake + RewardEmission
        /\ split \in Int /\ kass.conditional[q] <= split
      BY <1>1, <2>2, <2>3 DEF KassConserved
  <2> HIDE DEF split
  <2>5. kass.stake_vault + kass.conditional[q] <= oracle.total_oracle_stake + RewardEmission
      BY <1>4, <2>4
  <2>6. oracle.total_oracle_stake + RewardEmission <= U64_MAX
      BY <1>1, <1>4 DEF SupplyFits, U64
  <2> QED
      BY <1>4, <2>1, <2>5, <2>6 DEF U64
<1>6. SettleableMarket(p)
  <2>1. oracle.open_challenge_count > 0
    <3>1. Cardinality(OpenMarkets) \in Nat /\ Cardinality(OpenMarkets) # 0
        BY <1>1, FiniteAccounts, FS_CardinalityType, FS_EmptySet
    <3> QED
        BY <1>1, <3>1 DEF CountersAccurate
  <2> QED
      BY <1>2, <1>5, <2>1 DEF SettleableMarket, q
<1>7. CanSettleSuccessful(p)
  <2>1. fee <= RedeemedAt(q).stake_vault
    <3>1. a.bond <= kass.conditional[q]
        BY <1>1, <1>2 DEF BondsInVaults, a, q
    <3> QED
        BY <1>2, <1>3, <1>4, <1>5, <3>1
  <2>2. ToppedUp(a) \in U64
    <3> DEFINE none == [x \in {} |-> 0]
               d == [x \in {p} |-> a.bond - fee - a.slashed_amount]
    <3>1. d[p] \in Nat /\ a.slashed_amount + d[p] <= a.bond
        BY <1>2, <1>3
    <3>2. /\ {p} \in SUBSET Proposed
          /\ \A x \in {p} : d[x] \in Nat /\ proposer[x].slashed_amount + d[x] <= proposer[x].bond
        BY <1>2, <3>1 DEF a
    <3>3. {} \in SUBSET DOMAIN fact /\ \A f \in {} : none[f] \in Nat /\ ForfeitedBy[f] + none[f] <= HeldBy[f]
        OBVIOUS
    <3>4. d[p] = a.bond - fee - a.slashed_amount
        OBVIOUS
    <3> HIDE DEF none, d
    <3>5. Within(SumFunctionOnSet(d, {p}) + SumFunctionOnSet(none, {}))
        BY <1>1, <3>2, <3>3, PoolTakes
    <3>6. SumFunctionOnSet(none, {}) = 0 /\ SumFunctionOnSet(d, {p}) = d[p]
      <4>1. d[p] \in Int
          BY <3>1
      <4>2. SumFunctionOnSet(d, {p}) = d[p]
          BY <4>1, SumSingle, Zenon
      <4>3. SumFunctionOnSet(none, {}) = 0
          BY SumEmpty
      <4> QED
          BY <4>2, <4>3
    <3>7. oracle.bond_pool + (a.bond - fee - a.slashed_amount) \in U64
        BY <3>1, <3>4, <3>5, <3>6 DEF Within
    <3>8. SaturatingSub(a.bond - fee, a.slashed_amount) = a.bond - fee - a.slashed_amount
        BY <1>2, <1>3 DEF SaturatingSub
    <3> QED
        BY <3>7, <3>8 DEF ToppedUp, fee
  <2>3. oracle.surviving_count > 0
    <3>1. p \in Survivors
        BY <1>1, <1>2 DEF ChallengedStand, Survivors
    <3>2. Cardinality(Survivors) \in Nat /\ Cardinality(Survivors) # 0
        BY <1>1, <3>1, FiniteAccounts, FS_CardinalityType, FS_EmptySet
    <3> QED
        BY <1>1, <3>2 DEF CountersAccurate
  <2> QED
      BY <1>6, <2>1, <2>2, <2>3 DEF CanSettleSuccessful, a, q, fee
<1> QED
    BY <1>6, <1>7 DEF CanSettleMarket

-----------------------------------------------------------------------------
\* An overdue dispute moves

\* One of the voters' or the finalizers' batches is what is left of a phase.
LEMMA UnsettledLeft ==
    ASSUME OpenInv, oracle.phase = "FactVoting", oracle.fact_count # 0
    PROVE  DOMAIN fact \ Settled # {}
<1>1. /\ oracle.settled_count # oracle.fact_count
      /\ oracle.fact_count = Cardinality(DOMAIN fact)
      /\ oracle.settled_count = Cardinality(Settled)
    BY OpenFacts DEF CountsByPhase, CountersAccurate
<1> SUFFICES ASSUME DOMAIN fact \ Settled = {}
             PROVE  FALSE
    OBVIOUS
<1>2. Settled = DOMAIN fact
    BY DEF Settled
<1> QED
    BY <1>1, <1>2

LEMMA UnfinalizedLeft ==
    ASSUME OpenInv, oracle.phase = "AiClaim"
    PROVE  Proposed \ Finalized # {}
<1>1. /\ oracle.ai_finalized_count # oracle.proposer_count
      /\ oracle.proposer_count = Cardinality(Proposed)
      /\ oracle.ai_finalized_count = Cardinality(Finalized)
    BY OpenFacts DEF CountsByPhase, CountersAccurate
<1> SUFFICES ASSUME Proposed \ Finalized = {}
             PROVE  FALSE
    OBVIOUS
<1>2. Finalized = Proposed
    BY DEF Finalized
<1> QED
    BY <1>1, <1>2

LEMMA SurvivorsLeft ==
    ASSUME OpenInv, oracle.phase = "FactVoting"
    PROVE  Survivors # {} /\ \A p \in Survivors : ~proposer[p].slashed
<1>1. oracle.surviving_count > 0 /\ oracle.surviving_count = Cardinality(Survivors)
    BY OpenFacts DEF CountsByPhase, CountersAccurate
<1>2. Survivors # {}
    BY <1>1, FS_EmptySet
<1> QED
    BY <1>2, OpenFacts DEF SlashedAreOut, Voting, Survivors, Proposed

\* Unless nobody bonded anything, the bonds that finalize_facts divides by are
\* there.
LEMMA BondsToWeigh ==
    ASSUME OpenInv, oracle.phase = "FactVoting", AfterEnd, ~Weightless
    PROVE  FactVotingClosed
<1>1. PICK p \in Proposed : proposer[p].bond # 0
    BY DEF Weightless
<1>2. TypeOK /\ oracle.dispute_bond_total = SumFunction(BondBy)
    BY OpenFacts DEF BondsInDispute
<1>3. SumFunction(BondBy) = SumFunctionOnSet(BondBy, Proposed)
    BY <1>2, TotalSums
<1>4. IsFiniteSet(Proposed) /\ NatOn(BondBy, Proposed)
    BY <1>2, FiniteAccounts, StakeSums
<1>5. BondBy[p] <= SumFunctionOnSet(BondBy, Proposed)
    BY <1>1, <1>4, SumOneOf
<1>6. BondBy[p] = proposer[p].bond /\ proposer[p].bond \in Nat
    BY <1>1, <1>2, AccountNats DEF BondBy
<1>7. SumFunctionOnSet(BondBy, Proposed) \in Nat
    BY <1>4, SumNat
<1> QED
    BY <1>1, <1>2, <1>3, <1>5, <1>6, <1>7 DEF FactVotingClosed

LEMMA OverdueMoves ==
    ASSUME OpenInv, Overdue
    PROVE  \/ CanCrank
           \/ \E p \in OpenMarkets : Stranded(p)
           \/ oracle.phase = "FactVoting" /\ Weightless
<1>1. /\ AfterEnd /\ oracle.proposer_count > 0
      /\ \A p \in OpenMarkets : now >= market[p].twap_end
    BY DEF Overdue
<1>2. oracle.phase \in {"Proposal", "FactProposal", "FactVoting", "AiClaim", "Challenge"}
    BY OpenFacts DEF TypeOK, OracleAccount, Phases, Terminal, TerminalPhases
<1>3. CASE oracle.phase = "Proposal"
    BY <1>1, <1>3, ProposalsFinalize DEF CanCrank
<1>4. CASE oracle.phase = "FactProposal"
    BY <1>1, <1>4 DEF CanCrank, CanAdvancePhase
<1>5. CASE oracle.phase = "FactVoting" /\ ~Weightless
  <2>1. FactVotingClosed
      BY <1>1, <1>5, BondsToWeigh
  <2>2. CASE oracle.fact_count = 0
    <3>1. Survivors \in (SUBSET Proposed) \ {{}} /\ \A p \in Survivors : ~proposer[p].slashed
        BY <1>5, SurvivorsLeft DEF Survivors
    <3>2. CanSlashForNoFacts(Survivors)
        BY <2>1, <2>2, <3>1, SlashAccepted
    <3> QED
        BY <3>1, <3>2 DEF CanCrank
  <2>3. CASE oracle.fact_count # 0
    <3> DEFINE F == DOMAIN fact \ Settled
    <3>1. F \in (SUBSET DOMAIN fact) \ {{}} /\ \A f \in F : ~fact[f].settled
        BY <1>5, <2>3, UnsettledLeft DEF Settled
    <3> HIDE DEF F
    <3>2. CanSettleFacts(F)
        BY <2>1, <2>3, <3>1, SettleAccepted
    <3> QED
        BY <3>1, <3>2 DEF CanCrank
  <2> QED
      BY <2>2, <2>3
<1>6. CASE oracle.phase = "AiClaim"
  <2> DEFINE S == Proposed \ Finalized
  <2>1. S \in (SUBSET Proposed) \ {{}} /\ \A p \in S : ~proposer[p].ai_finalized
      BY <1>6, UnfinalizedLeft DEF Finalized
  <2> HIDE DEF S
  <2>2. CanFinalizeAiClaims(S)
      BY <1>1, <1>6, <2>1, AiClaimsAccepted
  <2> QED
      BY <2>1, <2>2 DEF CanCrank
<1>7. CASE oracle.phase = "Challenge"
  <2>1. CASE OpenMarkets = {}
      BY <1>1, <1>7, <2>1, OracleFinalizes DEF CanCrank
  <2>2. CASE \E p \in OpenMarkets : ~Stranded(p)
    <3>1. PICK p \in OpenMarkets : ~Stranded(p)
        BY <2>2
    <3>2. CanSettleMarket(p) /\ p \in DOMAIN market
        BY <1>1, <1>7, <3>1, MarketSettles DEF OpenMarkets
    <3> QED
        BY <3>2 DEF CanCrank
  <2> QED
      BY <2>1, <2>2
<1> QED
    BY <1>2, <1>3, <1>4, <1>5, <1>6, <1>7

\* NeverStuck for every value of the constants.
THEOREM DisputeNeverStuck == Spec => []NeverStuck
<1> DEFINE Inv == BooksInv /\ (~Terminal => StakesInv /\ ProgressInv)
<1>1. Init => Inv
    BY BooksInvInit, StakesInvInit, ProgressInit
<1>2. Inv /\ [Next]_vars => Inv'
  <2> SUFFICES ASSUME Inv, [Next]_vars PROVE Inv'
      OBVIOUS
  <2>1. BooksInv'
      BY BooksInvStep
  <2>2. CASE Terminal
    <3>1. Terminal'
      <4>1. CASE Next
        <5>1. PICK option \in Options : ResolveDeadend(option)
            BY <2>2, <4>1, TerminalStep
        <5>2. oracle \in OracleAccount
            BY OracleNats DEF BooksInv, DisputeInv, TypeInv
        <5> QED
            BY <5>1, <5>2 DEF ResolveDeadend, Terminal, TerminalPhases, OracleAccount
      <4>2. CASE UNCHANGED vars
          BY <2>2, <4>2 DEF vars, Terminal
      <4> QED
          BY <4>1, <4>2
    <3> QED
        BY <2>1, <3>1
  <2>3. CASE ~Terminal
      BY <2>1, <2>3, StakesInvStep, ProgressStep
  <2> QED
      BY <2>2, <2>3
<1>3. Inv => NeverStuck
    BY OverdueMoves DEF NeverStuck, Overdue, OpenInv
<1> QED
    BY <1>1, <1>2, <1>3, PTL DEF Spec

-----------------------------------------------------------------------------
\* The cranks and the cards of the page

\* No challenge and no escrow outlives the verdict.
ChallengesOver == \A p \in DOMAIN market : market[p].settled /\ usdc.escrow[p] = 0

PagesInv ==
    /\ LifeInv
    /\ ~Terminal => ProgressInv
    /\ Terminal => ChallengesOver

LEMMA VerdictEndsChallenges == BooksInv /\ Terminal => ChallengesOver
<1> SUFFICES ASSUME BooksInv, Terminal PROVE ChallengesOver
    OBVIOUS
<1>1. OpenMarkets = {} /\ EscrowBacksOpenMarkets /\ DOMAIN market \subseteq Proposers
    BY DEF BooksInv, DisputeInv, PhasesOrdered, TypeInv, TypeOK, AccountsOf
<1> QED
    BY <1>1 DEF EscrowBacksOpenMarkets, OpenMarkets, ChallengesOver

LEMMA PagesInvStep == PagesInv /\ [SettlementNext]_allVars => PagesInv'
<1> SUFFICES ASSUME PagesInv, [SettlementNext]_allVars PROVE PagesInv'
    OBVIOUS
<1>1. LifeInv /\ LifeInv'
    BY LifeInvStep DEF PagesInv
<1>2. CASE ~Terminal
  <2>1. [Next]_vars
      BY <1>2
      DEF SettlementNext, DisputeStep, Claim, ClaimProposer, ClaimFact, ClaimFactVote, Pay,
          CanPay, CloseAiClaim, CloseChallengeMarket, CanCloseChallenge, SweepOracle,
          CanSweep, DonateUsdc, GraceTick, SetGovernance, allVars, vars
  <2>2. BooksInv /\ StakesInv /\ ProgressInv
      BY <1>2 DEF PagesInv, LifeInv
  <2>3. BooksInv' /\ ProgressInv'
      BY <1>2, <2>1, <2>2, BooksInvStep, ProgressStep
  <2>4. BooksInv' /\ Terminal' => ChallengesOver'
      BY VerdictEndsChallenges, PTL
  <2> QED
      BY <1>1, <2>3, <2>4 DEF PagesInv
<1>3. CASE Terminal
  <2>1. ChallengesOver
      BY <1>3 DEF PagesInv
  <2>2. ASSUME UNCHANGED <<oracle, market, usdc>>
        PROVE  Terminal' /\ ChallengesOver'
      BY <1>3, <2>1, <2>2 DEF Terminal, ChallengesOver
  <2>3. CASE DisputeStep
    <3>1. PICK option \in Options : ResolveDeadend(option)
        BY <1>3, <2>3, TerminalStep DEF DisputeStep
    <3>2. oracle \in OracleAccount
        BY <1>1 DEF LifeInv, SettleInv, SettlementTypeOK, TypeOK
    <3> QED
        BY <1>1, <2>1, <3>1, <3>2
        DEF ResolveDeadend, PagesInv, ChallengesOver, Terminal, TerminalPhases,
            OracleAccount
  <2>4. ASSUME NEW p \in DOMAIN market, CloseChallengeMarket(p)
        PROVE  PagesInv'
    <3>1. Terminal' /\ ChallengesOver'
        BY <1>3, <2>1, <2>4
        DEF CloseChallengeMarket, ChallengesOver, Close, Terminal
    <3> QED
        BY <1>1, <3>1 DEF PagesInv
  <2>5. CASE \/ Claim \/ SetGovernance \/ GraceTick \/ SweepOracle
             \/ \E p \in DOMAIN ai_claim : CloseAiClaim(p)
             \/ \E p \in DOMAIN market : DonateUsdc(p)
             \/ UNCHANGED allVars
    <3>1. UNCHANGED <<oracle, market, usdc>>
        BY <2>5
        DEF Claim, ClaimProposer, ClaimFact, ClaimFactVote, SetGovernance, GraceTick,
            SweepOracle, CloseAiClaim, DonateUsdc, allVars, vars
    <3> QED
        BY <1>1, <2>2, <3>1 DEF PagesInv
  <2> QED
      BY <2>3, <2>4, <2>5 DEF SettlementNext
<1> QED
    BY <1>2, <1>3

LEMMA PagesInvHolds == SettlementSpec => []PagesInv
<1>1. SettlementInit => PagesInv
  <2>1. SettlementInit => ~Terminal
      BY DEF SettlementInit, Init, Terminal, TerminalPhases
  <2> QED
      BY <2>1, LifeInvInit, ProgressInit DEF PagesInv, SettlementInit
<1> QED
    BY <1>1, PagesInvStep, PTL DEF SettlementSpec

\* Every amount that is due is one that the vault can pay.
LEMMA DueIsPayable ==
    ASSUME LifeInv, Terminal, oracle_open
    PROVE  /\ \A p \in Proposed : CanPay(ProposerClaimBy[p])
           /\ \A f \in DOMAIN fact : CanPay(SubmitterClaimBy[f])
           /\ \A fv \in ClaimableVotes : CanPay(VoterClaimBy[fv])
<1>1. /\ TypeOK /\ Entitled <= kass.stake_vault
      /\ kass.stake_vault \in Nat /\ kass.stake_vault <= U64_MAX /\ U64_MAX \in Nat
  <2>1. TypeOK /\ Entitled <= kass.stake_vault
      BY DEF LifeInv, SettleInv, SettlementTypeOK, ClaimsInv
  <2>2. kass.stake_vault \in U64
      BY <2>1 DEF TypeOK, KassLedger
  <2> QED
      BY <2>1, <2>2, U64MaxAssumption DEF U64
<1>2. ClaimsAreNats /\ EntitledIsDue
    BY <1>1, ClaimNats, DueSums
<1>3. ProposersDue \in Nat /\ SubmittersDue \in Nat /\ VotersDue \in Nat
    BY <1>2, SumNat DEF ClaimsAreNats, ProposersDue, SubmittersDue, VotersDue
<1>4. /\ ProposersDue <= kass.stake_vault /\ SubmittersDue <= kass.stake_vault
      /\ VotersDue <= kass.stake_vault
    BY <1>1, <1>2, <1>3 DEF EntitledIsDue
<1>5. ASSUME NEW amount \in Nat, amount <= kass.stake_vault
      PROVE  CanPay(amount)
    BY <1>1, <1>5 DEF CanPay, U64
<1>6. ASSUME NEW p \in Proposed PROVE CanPay(ProposerClaimBy[p])
  <2>1. ProposerClaimBy[p] \in Nat /\ ProposerClaimBy[p] <= ProposersDue
      BY <1>2, SumOneOf DEF ClaimsAreNats, ProposersDue, NatOn
  <2> QED
      BY <1>1, <1>3, <1>4, <1>5, <2>1
<1>7. ASSUME NEW f \in DOMAIN fact PROVE CanPay(SubmitterClaimBy[f])
  <2>1. SubmitterClaimBy[f] \in Nat /\ SubmitterClaimBy[f] <= SubmittersDue
      BY <1>2, SumOneOf DEF ClaimsAreNats, SubmittersDue, NatOn
  <2> QED
      BY <1>1, <1>3, <1>4, <1>5, <2>1
<1>8. ASSUME NEW fv \in ClaimableVotes PROVE CanPay(VoterClaimBy[fv])
  <2>1. VoterClaimBy[fv] \in Nat /\ VoterClaimBy[fv] <= VotersDue
      BY <1>2, SumOneOf DEF ClaimsAreNats, VotersDue, NatOn
  <2> QED
      BY <1>1, <1>3, <1>4, <1>5, <2>1
<1> QED
    BY <1>6, <1>7, <1>8

LEMMA CardsPay ==
    ASSUME PagesInv
    PROVE  PayoutsServed
<1> SUFFICES ASSUME oracle_open, Terminal, NEW page \in Pages, page.nonce
             PROVE  /\ \A p \in Proposed : ProposerCard(page, p)
                    /\ \A f \in DOMAIN fact :
                        fact[f].approve_stake + fact[f].duplicate_stake > 0
                            \/ FactCard(page, f)
                    /\ \A fv \in DOMAIN fact_vote :
                        fv[1] \in DOMAIN fact => FactVoteClaim(page, fv[1], fv[2])
                    /\ \A p \in DOMAIN ai_claim : AiClaimCard(p)
                    /\ \A p \in page.market : p \in donated \/ MarketCard(page, p)
                    /\ SweepDue /\ governance_set => SweepControl(page)
    BY DEF PayoutsServed
<1>1. TypeOK /\ LifeInv /\ ChallengesOver /\ settleOpen
    BY DEF PagesInv, LifeInv, SettleInv, SettlementTypeOK, settleOpen, Terminal
<1>2. ASSUME NEW p \in Proposed PROVE ProposerCard(page, p)
    BY <1>1, DueIsPayable DEF ProposerCard, ProposerClaimBy
<1>3. ASSUME NEW f \in DOMAIN fact
      PROVE  fact[f].approve_stake + fact[f].duplicate_stake > 0 \/ FactCard(page, f)
  <2>1. CanPay(SubmitterEntitlement(fact[f]))
      BY <1>1, DueIsPayable DEF SubmitterClaimBy
  <2>2. fact[f].approve_stake \in Nat /\ fact[f].duplicate_stake \in Nat
      BY <1>1, AccountNats
  <2>3. CASE fact[f].approve_stake = 0 /\ fact[f].duplicate_stake = 0
      BY <1>1, <2>1, <2>3 DEF FactCard, VotersPaid
  <2>4. CASE ~(fact[f].approve_stake = 0 /\ fact[f].duplicate_stake = 0)
      BY <2>2, <2>4
  <2> QED
      BY <2>3, <2>4
<1>4. ASSUME NEW fv \in DOMAIN fact_vote, fv[1] \in DOMAIN fact
      PROVE  FactVoteClaim(page, fv[1], fv[2])
  <2>1. fv \in Facts \X Voters
      BY <1>1 DEF TypeOK, AccountsOf
  <2>2. fv = <<fv[1], fv[2]>>
      BY <2>1
  <2>3. CanPay(VoterEntitlement(fact_vote[fv], fact[fv[1]]))
      BY <1>1, <1>4, DueIsPayable DEF VoterClaimBy, ClaimableVotes
  <2> QED
      BY <1>1, <1>4, <2>2, <2>3 DEF FactVoteClaim
<1>5. \A p \in DOMAIN ai_claim : AiClaimCard(p)
    BY <1>1 DEF AiClaimCard
<1>6. ASSUME NEW p \in page.market PROVE p \in donated \/ MarketCard(page, p)
  <2>1. p \in DOMAIN market
      BY DEF Pages, fetchOracleDetail
  <2> QED
      BY <1>1, <2>1 DEF MarketCard, CanCloseChallenge, EscrowEmpty, ChallengesOver
<1>7. SweepDue /\ governance_set => SweepControl(page)
    BY <1>1 DEF SweepControl, CanSweep
<1> QED
    BY <1>2, <1>3, <1>4, <1>5, <1>6, <1>7

\* Whoever the page has not to leave waiting can send what the phase waits for:
\* a whole set where nobody began a batch is as good as any part of it.
LEMMA WholeSetsAccepted ==
    ASSUME OpenInv, ~BatchBegun
    PROVE  /\ FactVotingClosed /\ oracle.fact_count = 0 => CanSlashForNoFacts(Proposed)
           /\ FactVotingClosed /\ oracle.fact_count # 0 => CanSettleFacts(DOMAIN fact)
           /\ oracle.phase = "AiClaim" /\ AfterEnd => CanFinalizeAiClaims(Proposed)
<1>1. /\ TypeOK /\ CountersAccurate
      /\ IsFiniteSet(Settled) /\ IsFiniteSet(Finalized)
      /\ oracle.settled_count \in Nat /\ oracle.ai_finalized_count \in Nat
    BY OpenFacts, OracleNats, FiniteAccounts
<1>2. ASSUME FactVotingClosed, oracle.fact_count = 0
      PROVE  CanSlashForNoFacts(Proposed)
  <2>1. \A p \in Proposed : ~proposer[p].slashed
      BY <1>2 DEF BatchBegun, FactVotingClosed
  <2>2. Survivors \subseteq Proposed
      BY DEF Survivors
  <2> QED
      BY <1>2, <2>1, <2>2, SlashAccepted
<1>3. ASSUME FactVotingClosed, oracle.fact_count # 0
      PROVE  CanSettleFacts(DOMAIN fact)
  <2>1. oracle.settled_count = 0
      BY <1>1, <1>3 DEF BatchBegun, FactVotingClosed
  <2>2. Settled = {}
      BY <1>1, <2>1, FS_EmptySet DEF CountersAccurate
  <2>3. \A f \in DOMAIN fact : ~fact[f].settled
      BY <2>2 DEF Settled
  <2> QED
      BY <1>3, <2>3, SettleAccepted
<1>4. ASSUME oracle.phase = "AiClaim", AfterEnd
      PROVE  CanFinalizeAiClaims(Proposed)
  <2>1. oracle.ai_finalized_count = 0
      BY <1>1, <1>4 DEF BatchBegun
  <2>2. Finalized = {}
      BY <1>1, <2>1, FS_EmptySet DEF CountersAccurate
  <2>3. \A p \in Proposed : ~proposer[p].ai_finalized
      BY <2>2 DEF Finalized
  <2> QED
      BY <1>4, <2>3, AiClaimsAccepted
<1> QED
    BY <1>2, <1>3, <1>4

\* A crank that the program accepts belongs to its phase.
LEMMA CrankOfPhase ==
    ASSUME CanCrank
    PROVE  \/ oracle.phase = "Proposal" /\ CanFinalizeProposals /\ ProposalsClosed
           \/ oracle.phase = "FactProposal" /\ CanAdvancePhase
           \/ oracle.phase = "FactVoting" /\ FactVotingClosed
           \/ oracle.phase = "AiClaim" /\ AfterEnd
           \/ oracle.phase = "Challenge" /\ CanFinalizeOracle
           \/ /\ oracle.phase = "Challenge"
              /\ \E p \in OpenMarkets : CanSettleMarket(p) /\ now >= market[p].twap_end
<1>1. CanFinalizeProposals => ProposalsClosed /\ oracle.phase = "Proposal"
    BY DEF CanFinalizeProposals, CanFinalizeAgreed, CanFinalizeDisputed, ProposalsClosed
<1>2. ASSUME NEW S, CanSlashForNoFacts(S) \/ CanSettleFacts(S)
      PROVE  oracle.phase = "FactVoting" /\ FactVotingClosed
    BY <1>2 DEF CanSlashForNoFacts, CanSettleFacts, FactVotingClosed
<1>3. ASSUME NEW S, CanFinalizeAiClaims(S)
      PROVE  oracle.phase = "AiClaim" /\ AfterEnd
    BY <1>3 DEF CanFinalizeAiClaims
<1>4. ASSUME NEW p, CanSettleMarket(p)
      PROVE  oracle.phase = "Challenge" /\ p \in OpenMarkets /\ now >= market[p].twap_end
    BY <1>4 DEF CanSettleMarket, CanSettleSuccessful, SettleableMarket
<1>5. CanFinalizeOracle => oracle.phase = "Challenge"
    BY DEF CanFinalizeOracle, CanResolve, CanDeadEnd, ChallengesClosed
<1> QED
    BY <1>1, <1>2, <1>3, <1>4, <1>5 DEF CanCrank, CanAdvancePhase

LEMMA CranksOffered ==
    ASSUME PagesInv
    PROVE  AppKeepsUp
<1> SUFFICES ASSUME oracle_open, ~Terminal, NEW page \in Pages, CanCrank,
                    ~NonceMissing(page), ~SetTooLarge, ~BatchBegun, ~MarketHidden(page)
             PROVE  AppCrank(page)
    BY DEF AppKeepsUp
<1>1. /\ OpenInv /\ TypeOK /\ CountersAccurate /\ CountsByPhase
      /\ DOMAIN market \subseteq Proposed
      /\ IsFiniteSet(Proposed) /\ IsFiniteSet(DOMAIN fact)
  <2>1. OpenInv
      BY DEF PagesInv, LifeInv, OpenInv
  <2> QED
      BY <2>1, OpenFacts, FiniteAccounts DEF TypeInv, AccountsLinked
<1>2. Cardinality(Proposed) <= PACKET_TAIL /\ Cardinality(DOMAIN fact) <= PACKET_TAIL
  <2>1. Cardinality(Proposed) \in Nat /\ Cardinality(DOMAIN fact) \in Nat
      BY <1>1, FS_CardinalityType
  <2> QED
      BY <2>1, TailAssumption DEF SetTooLarge
<1>3. oracle.phase # "Proposal" \/ ProposalsClosed => requireTail(Proposed)
  <2>1. oracle.phase # "Proposal" \/ ProposalsClosed => oracle.proposer_count > 0
      BY <1>1 DEF CountsByPhase, ProposalsClosed, Terminal
  <2>2. Proposed = {} => oracle.proposer_count = 0
      BY <1>1, FS_EmptySet DEF CountersAccurate
  <2> QED
      BY <1>2, <2>1, <2>2 DEF requireTail
<1>4. CASE oracle.phase = "Proposal" /\ CanFinalizeProposals /\ ProposalsClosed
    BY <1>3, <1>4 DEF AppCrank, FinalizeControl, buildFinalizeProposals, SetTooLarge
<1>5. CASE oracle.phase = "FactProposal" /\ CanAdvancePhase
    BY <1>5 DEF AppCrank, FinalizeControl
<1>6. CASE oracle.phase = "FactVoting" /\ FactVotingClosed
  <2>1. page.nonce
      BY <1>6 DEF NonceMissing
  <2>2. oracle.fact_count = 0 <=> DOMAIN fact = {}
      BY <1>1, FS_EmptySet DEF CountersAccurate
  <2>3. buildFinalizeFacts(page)
    <3>1. CASE oracle.fact_count = 0
        BY <1>1, <1>3, <1>6, <2>1, <2>2, <3>1, WholeSetsAccepted DEF buildFinalizeFacts
    <3>2. CASE oracle.fact_count # 0
        BY <1>1, <1>2, <1>6, <2>1, <2>2, <3>2, WholeSetsAccepted
        DEF buildFinalizeFacts, requireTail
    <3> QED
        BY <3>1, <3>2
  <2> QED
      BY <1>6, <2>3 DEF AppCrank, FinalizeControl
<1>7. CASE oracle.phase = "AiClaim" /\ AfterEnd
    BY <1>1, <1>3, <1>7, WholeSetsAccepted
    DEF AppCrank, FinalizeControl, buildFinalizeAiClaims
<1>8. CASE oracle.phase = "Challenge" /\ CanFinalizeOracle
    BY <1>3, <1>8
    DEF AppCrank, FinalizeControl, buildFinalizeOracle, SetTooLarge, NonceMissing
<1>9. ASSUME oracle.phase = "Challenge", NEW p \in OpenMarkets, CanSettleMarket(p),
             now >= market[p].twap_end
      PROVE  AppCrank(page)
  <2>1. p \in page.market /\ p \in Proposed /\ page.nonce /\ ~market[p].settled /\ tradeOpen
      BY <1>1, <1>9 DEF MarketHidden, OpenMarkets, NonceMissing, tradeOpen
  <2> QED
      BY <1>9, <2>1 DEF AppCrank, SettleButton, buildSettleFromMarket
<1> QED
    BY <1>4, <1>5, <1>6, <1>7, <1>8, <1>9, CrankOfPhase

\* The oracle page for any number of proposers, facts, voters and challenges:
\* an open dispute that the program would move the page can move, but for the
\* exceptions that AppKeepsUp names; it serves every party, pays every claimant
\* of a finished oracle, and takes back nothing it showed.
THEOREM PageServes == SettlementSpec => PageServesEverybody
<1>1. PagesInv => AppKeepsUp /\ PayoutsServed
    BY CranksOffered, CardsPay
<1> QED
    BY <1>1, PagesInvHolds, PartiesStayServed, PageKeepsItsWord, PTL
    DEF PageServesEverybody
=============================================================================
