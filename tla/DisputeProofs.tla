----------------------------- MODULE DisputeProofs -----------------------------
(* The safety of the dispute, for every choice of the parameters: every       *)
(* instruction leaves accounts of the declared shape, the counters count,     *)
(* survivors have claimed, slashes stand, no verdict falls while a challenge  *)
(* is open, and the books of the bond pool and of the KASS balance.  The last *)
(* part is about the loops of plurality().                                    *)
EXTENDS Dispute, PluralityScan, Sums

\* An AI claim belongs to a proposer, and a market to an AI claim.
AccountsLinked ==
    /\ DOMAIN ai_claim \subseteq Proposed
    /\ DOMAIN market \subseteq DOMAIN ai_claim

\* The accounts an instruction is given must exist for the record it updates to
\* be one, and an escrow must hold what a settlement takes out of it.
TypeInv == TypeOK /\ AccountsLinked /\ EscrowBacksOpenMarkets

-----------------------------------------------------------------------------
\* Fractions

\* A fraction of at most one takes no more than the whole.
LEMMA FloorFracBounds ==
    ASSUME NEW v \in Nat, NEW r \in ProperRatio
    PROVE  FloorFrac(v, r) \in Nat /\ FloorFrac(v, r) <= v
<1>1. r.num \in Nat /\ r.den \in Nat /\ r.den > 0 /\ r.num <= r.den
    BY U64MaxAssumption DEF ProperRatio, Ratio, U64
<1> DEFINE x == v * r.num
<1> DEFINE d == r.den
<1>2. x \in Nat /\ x <= v * d
    BY <1>1
<1>3. d \in Nat /\ d > 0 /\ v * d \in Nat
    BY <1>1
<1> HIDE DEF x, d
<1>4. x \div d \in Nat /\ x \div d <= v
    BY <1>2, <1>3
<1> QED
    BY <1>4 DEF FloorFrac, x, d

-----------------------------------------------------------------------------
\* Records.  An updated account has the fields it had, so it is an account
\* when each field has its type.

OracleFields(o) ==
    [phase |-> o.phase,
     phase_ends_at |-> o.phase_ends_at,
     proposer_count |-> o.proposer_count,
     surviving_count |-> o.surviving_count,
     fact_count |-> o.fact_count,
     settled_count |-> o.settled_count,
     ai_finalized_count |-> o.ai_finalized_count,
     open_challenge_count |-> o.open_challenge_count,
     total_oracle_stake |-> o.total_oracle_stake,
     bond_pool |-> o.bond_pool,
     dispute_bond_total |-> o.dispute_bond_total,
     total_correct_proposer_stake |-> o.total_correct_proposer_stake,
     total_approved_fact_stake |-> o.total_approved_fact_stake,
     reward_pool |-> o.reward_pool,
     resolved_option |-> o.resolved_option]

OracleFieldsTyped(o) ==
    /\ o.phase \in Phases
    /\ o.phase_ends_at \in Nat
    /\ o.proposer_count \in Nat
    /\ o.surviving_count \in Nat
    /\ o.fact_count \in Nat
    /\ o.settled_count \in Nat
    /\ o.ai_finalized_count \in Nat
    /\ o.open_challenge_count \in Nat
    /\ o.total_oracle_stake \in U64
    /\ o.bond_pool \in U64
    /\ o.dispute_bond_total \in U64
    /\ o.total_correct_proposer_stake \in U64
    /\ o.total_approved_fact_stake \in U64
    /\ o.reward_pool \in U64
    /\ o.resolved_option \in Options \cup {CLAIM_OPTION_NONE}

LEMMA OracleRecord ==
    ASSUME NEW o, o = OracleFields(o), OracleFieldsTyped(o)
    PROVE  o \in OracleAccount
BY DEF OracleFields, OracleFieldsTyped, OracleAccount

LEMMA OracleTypes ==
    ASSUME NEW o \in OracleAccount
    PROVE  o = OracleFields(o) /\ OracleFieldsTyped(o)
BY DEF OracleFields, OracleFieldsTyped, OracleAccount

ProposerFields(a) ==
    [bond |-> a.bond,
     original_option |-> a.original_option,
     claim_option |-> a.claim_option,
     disqualified |-> a.disqualified,
     slashed |-> a.slashed,
     flipped |-> a.flipped,
     ai_finalized |-> a.ai_finalized,
     slashed_amount |-> a.slashed_amount]

ProposerFieldsTyped(a) ==
    /\ a.bond \in U64
    /\ a.original_option \in Options
    /\ a.claim_option \in Options \cup {CLAIM_OPTION_NONE}
    /\ a.disqualified \in BOOLEAN
    /\ a.slashed \in BOOLEAN
    /\ a.flipped \in BOOLEAN
    /\ a.ai_finalized \in BOOLEAN
    /\ a.slashed_amount \in U64

LEMMA ProposerRecord ==
    ASSUME NEW a, a = ProposerFields(a), ProposerFieldsTyped(a)
    PROVE  a \in ProposerAccount
BY DEF ProposerFields, ProposerFieldsTyped, ProposerAccount

LEMMA ProposerTypes ==
    ASSUME NEW a \in ProposerAccount
    PROVE  a = ProposerFields(a) /\ ProposerFieldsTyped(a)
BY DEF ProposerFields, ProposerFieldsTyped, ProposerAccount

FactFields(a) ==
    [stake |-> a.stake, approve_stake |-> a.approve_stake,
     duplicate_stake |-> a.duplicate_stake,
     agreed |-> a.agreed, duplicate |-> a.duplicate, settled |-> a.settled]

FactFieldsTyped(a) ==
    /\ a.stake \in U64 /\ a.approve_stake \in U64 /\ a.duplicate_stake \in U64
    /\ a.agreed \in BOOLEAN /\ a.duplicate \in BOOLEAN /\ a.settled \in BOOLEAN

LEMMA FactRecord ==
    ASSUME NEW a, a = FactFields(a), FactFieldsTyped(a)
    PROVE  a \in FactAccount
BY DEF FactFields, FactFieldsTyped, FactAccount

LEMMA FactTypes ==
    ASSUME NEW a \in FactAccount
    PROVE  a = FactFields(a) /\ FactFieldsTyped(a)
BY DEF FactFields, FactFieldsTyped, FactAccount

KassFields(k) ==
    [stake_vault |-> k.stake_vault, conditional |-> k.conditional,
     burned |-> k.burned, challengers |-> k.challengers]

LEMMA KassRecord ==
    ASSUME NEW k, k = KassFields(k),
           k.stake_vault \in U64, k.conditional \in [Questions -> Nat],
           k.burned \in Nat, k.challengers \in Nat
    PROVE  k \in KassLedger
BY DEF KassFields, KassLedger

LEMMA KassTypes ==
    ASSUME NEW k \in KassLedger
    PROVE  /\ k = KassFields(k)
           /\ k.stake_vault \in U64 /\ k.conditional \in [Questions -> Nat]
           /\ k.burned \in Nat /\ k.challengers \in Nat
BY DEF KassFields, KassLedger

UsdcFields(u) ==
    [escrow |-> u.escrow, proposers |-> u.proposers,
     challengers |-> u.challengers]

LEMMA UsdcRecord ==
    ASSUME NEW u, u = UsdcFields(u),
           u.escrow \in [Proposers -> Nat], u.proposers \in Nat,
           u.challengers \in Nat
    PROVE  u \in UsdcLedger
BY DEF UsdcFields, UsdcLedger

-----------------------------------------------------------------------------
\* Accounts

\* Creating an account leaves the others as they are.
LEMMA CreateAccount ==
    ASSUME NEW f, NEW keys, NEW type, AccountsOf(f, keys, type),
           NEW k \in keys, NEW a \in type
    PROVE  /\ AccountsOf(Create(f, k, a), keys, type)
           /\ DOMAIN Create(f, k, a) = DOMAIN f \cup {k}
           /\ Create(f, k, a)[k] = a
           /\ \A other \in DOMAIN f \ {k} : Create(f, k, a)[other] = f[other]
BY DEF AccountsOf, Create

\* Updating one does too.
LEMMA UpdateAccount ==
    ASSUME NEW f, NEW keys, NEW type, AccountsOf(f, keys, type),
           NEW k \in DOMAIN f, NEW a \in type
    PROVE  /\ AccountsOf([f EXCEPT ![k] = a], keys, type)
           /\ DOMAIN [f EXCEPT ![k] = a] = DOMAIN f
           /\ [f EXCEPT ![k] = a][k] = a
           /\ \A other \in DOMAIN f \ {k} : [f EXCEPT ![k] = a][other] = f[other]
BY DEF AccountsOf

\* A stake goes into the vault, and both stay u64.
LEMMA DepositTypes ==
    ASSUME kass \in KassLedger, NEW amount \in U64, Deposit(amount)
    PROVE  /\ kass' \in KassLedger
           /\ oracle.total_oracle_stake + amount \in U64
<1>1. /\ kass'.stake_vault = kass.stake_vault + amount
      /\ kass'.conditional = kass.conditional
      /\ kass'.burned = kass.burned /\ kass'.challengers = kass.challengers
      /\ kass' = KassFields(kass')
    BY DEF Deposit, KassLedger, KassFields
<1> QED
    BY <1>1, KassTypes, KassRecord DEF Deposit

LEMMA BurnTypes ==
    ASSUME kass \in KassLedger, NEW amount, Burn(amount)
    PROVE  kass' \in KassLedger
<1>1. /\ kass'.stake_vault = kass.stake_vault - amount
      /\ kass'.conditional = kass.conditional
      /\ kass'.burned = kass.burned + amount /\ kass'.challengers = kass.challengers
      /\ kass' = KassFields(kass')
    BY DEF Burn, CanBurn, KassLedger, KassFields
<1>2. kass'.stake_vault \in U64 /\ kass'.burned \in Nat
    BY <1>1, KassTypes, U64MaxAssumption DEF Burn, CanBurn, U64
<1> QED
    BY <1>1, <1>2, KassTypes, KassRecord

-----------------------------------------------------------------------------
\* The Proposal phase

LEMMA ProposeOracle ==
    ASSUME TypeOK, NEW p \in Proposers, NEW bond \in Bonds, NEW option \in Options,
           Propose(p, bond, option)
    PROVE  oracle' \in OracleAccount
<1>1. oracle \in OracleAccount /\ now \in Nat
    BY DEF TypeOK
<1>2. OracleFieldsTyped(oracle)
    BY <1>1, OracleTypes
<1>3. oracle' = OracleFields(oracle')
    BY <1>1 DEF OracleFields, OracleAccount, Propose
<1>4. OracleFieldsTyped(oracle')
  <2>1. ProposalWindowEnd \in Nat
      BY <1>1, <1>2, DisputeAssumption DEF ProposalWindowEnd, OracleFieldsTyped
  <2>2. bond \in U64
      BY DisputeAssumption
  <2> QED
      BY <1>1, <1>2, <2>1, <2>2 DEF OracleFieldsTyped, OracleAccount, Propose, Deposit
<1> QED
    BY <1>3, <1>4, OracleRecord

LEMMA ProposeTypes ==
    ASSUME TypeOK, NEW p \in Proposers, NEW bond \in Bonds, NEW option \in Options,
           Propose(p, bond, option)
    PROVE  TypeOK'
<1>1. bond \in U64
    BY DisputeAssumption
<1>2. oracle' \in OracleAccount
    BY ProposeOracle
<1>3. kass' \in KassLedger
    BY <1>1, DepositTypes DEF Propose, TypeOK
<1>4. AccountsOf(proposer', Proposers, ProposerAccount)
  <2> DEFINE a == [bond |-> bond, original_option |-> option,
                   claim_option |-> CLAIM_OPTION_NONE, disqualified |-> FALSE,
                   slashed |-> FALSE, flipped |-> FALSE, ai_finalized |-> FALSE,
                   slashed_amount |-> 0]
  <2>1. a \in ProposerAccount
      BY <1>1, U64MaxAssumption DEF ProposerAccount, U64
  <2>2. proposer' = Create(proposer, p, a)
      BY DEF Propose
  <2> HIDE DEF a
  <2> QED
      BY <2>1, <2>2, CreateAccount DEF TypeOK
<1> QED
    BY <1>2, <1>3, <1>4 DEF Propose, TypeOK

LEMMA FinalizeProposalsTypes ==
    ASSUME TypeOK, FinalizeProposals
    PROVE  TypeOK'
<1>1. oracle \in OracleAccount /\ now \in Nat
    BY DEF TypeOK
<1>2. OracleFieldsTyped(oracle)
    BY <1>1, OracleTypes
<1>3. oracle' = OracleFields(oracle')
    BY <1>1 DEF OracleFields, OracleAccount, FinalizeProposals,
                FinalizeAgreedProposals, CanFinalizeAgreed, FinalizeDisputedProposals,
                CanFinalizeDisputed
<1>4. CASE \E option \in Options : FinalizeAgreedProposals(option)
  <2>1. PICK option \in Options : FinalizeAgreedProposals(option)
      BY <1>4
  <2>2. OracleFieldsTyped(oracle')
      BY <1>1, <1>2, <2>1
      DEF OracleFieldsTyped, OracleAccount, FinalizeAgreedProposals, CanFinalizeAgreed,
          Phases
  <2> QED
      BY <1>3, <2>1, <2>2, OracleRecord DEF FinalizeAgreedProposals, CanFinalizeAgreed,
          TypeOK
<1>5. CASE FinalizeDisputedProposals
  <2>1. now + PhaseWindow \in Nat
      BY <1>1, DisputeAssumption
  <2>2. OracleFieldsTyped(oracle')
      BY <1>1, <1>2, <1>5, <2>1
      DEF OracleFieldsTyped, OracleAccount, FinalizeDisputedProposals,
          CanFinalizeDisputed, Phases
  <2> QED
      BY <1>3, <1>5, <2>2, OracleRecord DEF FinalizeDisputedProposals,
          CanFinalizeDisputed, TypeOK
<1> QED
    BY <1>4, <1>5 DEF FinalizeProposals

-----------------------------------------------------------------------------
\* The fact phases

LEMMA SubmitFactTypes ==
    ASSUME TypeOK, NEW f \in Facts, NEW stake \in Stakes, SubmitFact(f, stake)
    PROVE  TypeOK'
<1>1. stake \in U64
    BY DisputeAssumption
<1>2. kass' \in KassLedger /\ oracle.total_oracle_stake + stake \in U64
    BY <1>1, DepositTypes DEF SubmitFact, TypeOK
<1>3. oracle' \in OracleAccount
  <2>1. oracle \in OracleAccount /\ OracleFieldsTyped(oracle)
      BY OracleTypes DEF TypeOK
  <2>2. oracle' = OracleFields(oracle')
      BY <2>1 DEF OracleFields, OracleAccount, SubmitFact
  <2>3. OracleFieldsTyped(oracle')
      BY <1>2, <2>1 DEF OracleFieldsTyped, OracleAccount, SubmitFact
  <2> QED
      BY <2>2, <2>3, OracleRecord
<1>4. AccountsOf(fact', Facts, FactAccount)
  <2> DEFINE a == [stake |-> stake, approve_stake |-> 0, duplicate_stake |-> 0,
                   agreed |-> FALSE, duplicate |-> FALSE, settled |-> FALSE]
  <2>1. a \in FactAccount
      BY <1>1, U64MaxAssumption DEF FactAccount, U64
  <2>2. fact' = Create(fact, f, a)
      BY DEF SubmitFact
  <2> HIDE DEF a
  <2> QED
      BY <2>1, <2>2, CreateAccount DEF TypeOK
<1> QED
    BY <1>2, <1>3, <1>4 DEF SubmitFact, TypeOK

LEMMA AdvancePhaseTypes ==
    ASSUME TypeOK, AdvancePhase
    PROVE  TypeOK'
<1>1. oracle \in OracleAccount /\ OracleFieldsTyped(oracle) /\ now \in Nat
    BY OracleTypes DEF TypeOK
<1>2. oracle' = OracleFields(oracle')
    BY <1>1 DEF OracleFields, OracleAccount, AdvancePhase, CanAdvancePhase
<1>3. OracleFieldsTyped(oracle')
    BY <1>1, DisputeAssumption
    DEF OracleFieldsTyped, OracleAccount, AdvancePhase, CanAdvancePhase, Phases
<1> QED
    BY <1>2, <1>3, OracleRecord DEF AdvancePhase, CanAdvancePhase, TypeOK

LEMMA VoteFactTypes ==
    ASSUME TypeOK, NEW f \in Facts, NEW v \in Voters,
           NEW kind \in {"approve", "duplicate"}, NEW stake \in Stakes,
           VoteFact(f, v, kind, stake)
    PROVE  TypeOK'
<1>1. stake \in U64
    BY DisputeAssumption
<1>2. kass' \in KassLedger /\ oracle.total_oracle_stake + stake \in U64
    BY <1>1, DepositTypes DEF VoteFact, TypeOK
<1>3. oracle' \in OracleAccount
  <2>1. oracle \in OracleAccount /\ OracleFieldsTyped(oracle)
      BY OracleTypes DEF TypeOK
  <2>2. oracle' = OracleFields(oracle')
      BY <2>1 DEF OracleFields, OracleAccount, VoteFact
  <2>3. OracleFieldsTyped(oracle')
      BY <1>2, <2>1 DEF OracleFieldsTyped, OracleAccount, VoteFact
  <2> QED
      BY <2>2, <2>3, OracleRecord
<1>4. AccountsOf(fact', Facts, FactAccount)
    BY UpdateAccount DEF VoteFact, TypeOK
<1>5. AccountsOf(fact_vote', Facts \X Voters, FactVoteAccount)
  <2> DEFINE a == [kind |-> kind, stake |-> stake]
  <2>1. a \in FactVoteAccount
      BY <1>1 DEF FactVoteAccount
  <2>2. fact_vote' = Create(fact_vote, <<f, v>>, a)
      BY DEF VoteFact
  <2> HIDE DEF a
  <2> QED
      BY <2>1, <2>2, CreateAccount DEF TypeOK
<1> QED
    BY <1>2, <1>3, <1>4, <1>5 DEF VoteFact, TypeOK

\* What finalize_facts makes of a proposer when there are no facts.
LEMMA NoFactsSlashTypes ==
    ASSUME NEW a \in ProposerAccount
    PROVE  NoFactsSlash(a) \in ProposerAccount
<1>1. ProposerFieldsTyped(a)
    BY ProposerTypes
<1> SUFFICES ASSUME NEW b, b = NoFactsSlash(a) PROVE b \in ProposerAccount
    OBVIOUS
<1>2. b = ProposerFields(b)
    BY <1>1 DEF NoFactsSlash, ProposerFields, ProposerAccount
<1>3. ProposerFieldsTyped(b)
    BY <1>1 DEF NoFactsSlash, ProposerFieldsTyped, ProposerAccount
<1> QED
    BY <1>2, <1>3, ProposerRecord

LEMMA SlashForNoFactsTypes ==
    ASSUME TypeOK, NEW S \in SUBSET Proposed, SlashForNoFacts(S)
    PROVE  TypeOK'
<1>1. oracle \in OracleAccount /\ OracleFieldsTyped(oracle)
    BY OracleTypes DEF TypeOK
<1>2. oracle' \in OracleAccount
  <2>1. oracle' = OracleFields(oracle')
      BY <1>1 DEF OracleFields, OracleAccount, SlashForNoFacts, CanSlashForNoFacts,
          PoolWithout, SurvivingWithout
  <2>2. OracleFieldsTyped(oracle')
      BY <1>1 DEF OracleFieldsTyped, OracleAccount, SlashForNoFacts,
          CanSlashForNoFacts, PoolWithout, SurvivingWithout, Phases
  <2> QED
      BY <2>1, <2>2, OracleRecord
<1>3. kass' \in KassLedger
    BY BurnTypes DEF SlashForNoFacts, CanSlashForNoFacts, PoolWithout,
        SurvivingWithout, TypeOK
<1>4. AccountsOf(proposer', Proposers, ProposerAccount)
    BY NoFactsSlashTypes DEF AccountsOf, UpdateAll, SlashForNoFacts,
        CanSlashForNoFacts, PoolWithout, SurvivingWithout, TypeOK
<1> QED
    BY <1>2, <1>3, <1>4 DEF SlashForNoFacts, CanSlashForNoFacts, PoolWithout,
        SurvivingWithout, TypeOK

\* What finalize_facts makes of a fact.
LEMMA SettledFactTypes ==
    ASSUME NEW a \in FactAccount
    PROVE  SettledFact(a) \in FactAccount
<1>1. FactFieldsTyped(a) /\ IsAgreed(a) \in BOOLEAN
    BY FactTypes DEF IsAgreed
<1> SUFFICES ASSUME NEW b, b = SettledFact(a) PROVE b \in FactAccount
    OBVIOUS
<1>2. b = FactFields(b)
    BY <1>1 DEF SettledFact, FactFields, FactAccount
<1>3. FactFieldsTyped(b)
    BY <1>1 DEF SettledFact, FactFieldsTyped, FactAccount
<1> QED
    BY <1>2, <1>3, FactRecord

LEMMA SettleFactsTypes ==
    ASSUME TypeOK, NEW F \in SUBSET DOMAIN fact, SettleFacts(F)
    PROVE  TypeOK'
<1>1. oracle \in OracleAccount /\ OracleFieldsTyped(oracle) /\ now \in Nat
    BY OracleTypes DEF TypeOK
<1>2. Cardinality(F) \in Nat
    BY DisputeAssumption, FS_Subset, FS_CardinalityType DEF TypeOK, AccountsOf
<1>3. oracle' \in OracleAccount
  <2>1. oracle' = OracleFields(oracle')
      BY <1>1 DEF OracleFields, OracleAccount, SettleFacts, CanSettleFacts
  <2>2. OracleFieldsTyped(oracle')
      BY <1>1, <1>2, DisputeAssumption
      DEF OracleFieldsTyped, OracleAccount, SettleFacts, CanSettleFacts, Phases
  <2> QED
      BY <2>1, <2>2, OracleRecord
<1>4. AccountsOf(fact', Facts, FactAccount)
    BY SettledFactTypes DEF AccountsOf, UpdateAll, SettleFacts, CanSettleFacts, TypeOK
<1> QED
    BY <1>3, <1>4 DEF SettleFacts, CanSettleFacts, TypeOK

-----------------------------------------------------------------------------
\* The AI-claim phase

LEMMA ClaimedTypes ==
    ASSUME NEW a \in ProposerAccount, NEW option \in Options
    PROVE  Claimed(a, option) \in ProposerAccount
<1>1. ProposerFieldsTyped(a)
    BY ProposerTypes
<1> SUFFICES ASSUME NEW b, b = Claimed(a, option) PROVE b \in ProposerAccount
    OBVIOUS
<1>2. b = ProposerFields(b)
    BY <1>1 DEF Claimed, ProposerFields, ProposerAccount
<1>3. ProposerFieldsTyped(b)
    BY <1>1 DEF Claimed, ProposerFieldsTyped, ProposerAccount
<1> QED
    BY <1>2, <1>3, ProposerRecord

LEMMA SubmitAiClaimTypes ==
    ASSUME TypeOK, NEW p \in Proposed, NEW option \in Options,
           SubmitAiClaim(p, option)
    PROVE  TypeOK'
<1>1. p \in Proposers /\ proposer[p] \in ProposerAccount
    BY DEF TypeOK, AccountsOf, Proposed
<1>2. AccountsOf(proposer', Proposers, ProposerAccount)
    BY <1>1, ClaimedTypes, UpdateAccount DEF SubmitAiClaim, TypeOK, Proposed
<1>3. AccountsOf(ai_claim', Proposers, AiClaimAccount)
  <2> DEFINE a == [option |-> option, challenged |-> FALSE]
  <2>1. a \in AiClaimAccount
      BY DEF AiClaimAccount
  <2>2. ai_claim' = Create(ai_claim, p, a)
      BY DEF SubmitAiClaim
  <2> HIDE DEF a
  <2> QED
      BY <1>1, <2>1, <2>2, CreateAccount DEF TypeOK
<1> QED
    BY <1>2, <1>3 DEF SubmitAiClaim, TypeOK

\* What finalize_ai_claims takes of a bond is part of it.
LEMMA AiSlashTypes ==
    ASSUME NEW a \in ProposerAccount
    PROVE  AiSlash(a) \in U64 /\ AiSlash(a) <= a.bond
<1>1. a.bond \in U64
    BY DEF ProposerAccount
<1>2. FlipSlash \in ProperRatio
    BY DisputeAssumption
<1>3. /\ FloorFrac(a.bond, FlipSlash) \in Nat
      /\ FloorFrac(a.bond, FlipSlash) <= a.bond
    BY <1>1, <1>2, FloorFracBounds, U64MaxAssumption DEF U64
<1> QED
    BY <1>1, <1>3, U64MaxAssumption DEF AiSlash, U64

LEMMA AiFinalizedTypes ==
    ASSUME NEW a \in ProposerAccount
    PROVE  AiFinalized(a) \in ProposerAccount
<1>1. ProposerFieldsTyped(a) /\ NoShow(a) \in BOOLEAN
    BY ProposerTypes DEF NoShow
<1> SUFFICES ASSUME NEW b, b = AiFinalized(a) PROVE b \in ProposerAccount
    OBVIOUS
<1>2. b = ProposerFields(b)
  <2>1. CASE Penalised(a)
    <3>1. b = [a EXCEPT !.ai_finalized = TRUE, !.slashed = TRUE,
                        !.disqualified = NoShow(a),
                        !.slashed_amount = AiSlash(a)]
        BY <2>1 DEF AiFinalized
    <3> QED
        BY <3>1 DEF ProposerFields, ProposerAccount
  <2>2. CASE ~Penalised(a)
      BY <2>2 DEF AiFinalized, ProposerFields, ProposerAccount
  <2> QED
      BY <2>1, <2>2
<1>3. ProposerFieldsTyped(b)
    BY <1>1, AiSlashTypes DEF AiFinalized, ProposerFieldsTyped, ProposerAccount
<1> QED
    BY <1>2, <1>3, ProposerRecord

LEMMA FinalizeAiClaimsTypes ==
    ASSUME TypeOK, NEW S \in SUBSET Proposed, FinalizeAiClaims(S)
    PROVE  TypeOK'
<1>1. oracle \in OracleAccount /\ OracleFieldsTyped(oracle) /\ now \in Nat
    BY OracleTypes DEF TypeOK
<1> DEFINE no_shows == { p \in NotDisqualified(S) : NoShow(proposer[p]) }
<1>2. Cardinality(S) \in Nat /\ Cardinality(no_shows) \in Nat
  <2>1. IsFiniteSet(S)
      BY DisputeAssumption, FS_Subset DEF TypeOK, AccountsOf, Proposed
  <2>2. no_shows \subseteq S
      BY DEF NotDisqualified
  <2> QED
      BY <2>1, <2>2, FS_Subset, FS_CardinalityType
<1>3. oracle' \in OracleAccount
  <2>1. oracle' = OracleFields(oracle')
      BY <1>1 DEF OracleFields, OracleAccount, FinalizeAiClaims, CanFinalizeAiClaims,
          NoShowsIn
  <2>2. OracleFieldsTyped(oracle')
    <3>1. oracle.surviving_count - Cardinality(no_shows) \in Nat
        BY <1>1, <1>2 DEF FinalizeAiClaims, CanFinalizeAiClaims, NoShowsIn,
            OracleFieldsTyped
    <3>2. oracle'.surviving_count = oracle.surviving_count - Cardinality(no_shows)
        BY <1>1 DEF FinalizeAiClaims, CanFinalizeAiClaims, NoShowsIn, OracleAccount
    <3> HIDE DEF no_shows
    <3> QED
        BY <1>1, <1>2, <3>1, <3>2, DisputeAssumption
        DEF OracleFieldsTyped, OracleAccount, FinalizeAiClaims, CanFinalizeAiClaims,
            NoShowsIn, Phases
  <2> QED
      BY <2>1, <2>2, OracleRecord
<1>4. AccountsOf(proposer', Proposers, ProposerAccount)
    BY AiFinalizedTypes DEF AccountsOf, UpdateAll, FinalizeAiClaims,
        CanFinalizeAiClaims, NoShowsIn, TypeOK
<1> QED
    BY <1>3, <1>4 DEF FinalizeAiClaims, CanFinalizeAiClaims, NoShowsIn, TypeOK

-----------------------------------------------------------------------------
\* The Challenge phase

LEMMA OpenChallengeTypes ==
    ASSUME TypeInv, NEW p \in DOMAIN ai_claim, NEW question \in QuestionsFor[p],
           NEW price \in Prices, OpenChallenge(p, question, price)
    PROVE  TypeOK'
<1> USE DEF TypeInv
<1>1. /\ p \in Proposers /\ proposer[p] \in ProposerAccount
      /\ ai_claim[p] \in AiClaimAccount
      /\ question \in Questions
    BY DisputeAssumption DEF TypeOK, AccountsOf, Proposed, AccountsLinked
<1>2. /\ oracle \in OracleAccount /\ OracleFieldsTyped(oracle)
      /\ now \in Nat /\ kass \in KassLedger /\ usdc \in UsdcLedger
    BY OracleTypes DEF TypeOK
<1> DEFINE required_usdc == RequiredUsdc(proposer[p].bond, price)
<1>3. required_usdc \in U64 /\ required_usdc \in Nat
    BY U64MaxAssumption DEF OpenChallenge, U64
<1>4. oracle' \in OracleAccount
  <2>1. oracle' = OracleFields(oracle')
      BY <1>2 DEF OracleFields, OracleAccount, OpenChallenge
  <2>2. OracleFieldsTyped(oracle')
      BY <1>2 DEF OracleFieldsTyped, OracleAccount, OpenChallenge
  <2> QED
      BY <2>1, <2>2, OracleRecord
<1>5. kass' \in KassLedger
  <2> DEFINE bond == proposer[p].bond
  <2>1. bond \in U64 /\ bond <= kass.stake_vault
      BY <1>1 DEF ProposerAccount, OpenChallenge
  <2>2. kass' = [kass EXCEPT !.stake_vault = @ - bond,
                             !.conditional[question] = @ + bond]
      BY DEF OpenChallenge
  <2> HIDE DEF bond
  <2>3. /\ kass'.stake_vault = kass.stake_vault - bond
        /\ kass'.conditional =
              [kass.conditional EXCEPT ![question] = kass.conditional[question] + bond]
        /\ kass'.burned = kass.burned /\ kass'.challengers = kass.challengers
        /\ kass' = KassFields(kass')
      BY <1>2, <2>2 DEF KassLedger, KassFields
  <2>4. kass'.stake_vault \in U64
      BY <1>2, <2>1, <2>3, KassTypes, U64MaxAssumption DEF U64
  <2>5. bond \in Nat
      BY <2>1, U64MaxAssumption DEF U64
  <2>6. kass'.conditional \in [Questions -> Nat]
      BY <1>1, <1>2, <2>3, <2>5, KassTypes
  <2> QED
      BY <1>2, <2>3, <2>4, <2>6, KassTypes, KassRecord
<1>6. usdc' \in UsdcLedger
  <2>1. usdc' = [usdc EXCEPT !.escrow[p] = required_usdc]
      BY DEF OpenChallenge
  <2> HIDE DEF required_usdc
  <2>2. /\ usdc'.escrow = [usdc.escrow EXCEPT ![p] = required_usdc]
        /\ usdc'.proposers = usdc.proposers /\ usdc'.challengers = usdc.challengers
        /\ usdc' = UsdcFields(usdc')
      BY <1>2, <2>1 DEF UsdcLedger, UsdcFields
  <2>3. usdc.escrow \in [Proposers -> Nat]
        /\ usdc.proposers \in Nat /\ usdc.challengers \in Nat
      BY <1>2 DEF UsdcLedger
  <2>4. usdc'.escrow \in [Proposers -> Nat]
      BY <1>3, <2>2, <2>3
  <2> QED
      BY <2>2, <2>3, <2>4, UsdcRecord
<1>7. AccountsOf(market', Proposers, MarketAccount)
  <2> DEFINE a == [question |-> question, challenger_usdc |-> required_usdc,
                   twap_end |-> now + TwapWindow, settled |-> FALSE]
  <2>1. a \in MarketAccount
      BY <1>1, <1>2, <1>3, DisputeAssumption DEF MarketAccount
  <2>2. market' = Create(market, p, a)
      BY DEF OpenChallenge
  <2> HIDE DEF a
  <2> QED
      BY <1>1, <2>1, <2>2, CreateAccount DEF TypeOK
<1>8. AccountsOf(ai_claim', Proposers, AiClaimAccount)
  <2>1. [ai_claim[p] EXCEPT !.challenged = TRUE] \in AiClaimAccount
      BY <1>1 DEF AiClaimAccount
  <2> QED
      BY <2>1, UpdateAccount DEF OpenChallenge, TypeOK
<1> QED
    BY <1>4, <1>5, <1>6, <1>7, <1>8 DEF OpenChallenge, TypeOK

\* Redeeming leaves a ledger, when the vault does not overflow.
LEMMA RedeemedTypes ==
    ASSUME kass \in KassLedger, NEW question \in Questions,
           RedeemedAt(question).stake_vault \in U64
    PROVE  /\ RedeemedAt(question) \in KassLedger
           /\ RedeemedAt(question).stake_vault
                = kass.stake_vault + kass.conditional[question]
           /\ RedeemedAt(question).conditional
                = [kass.conditional EXCEPT ![question] = 0]
           /\ RedeemedAt(question).challengers = kass.challengers
<1>1. /\ RedeemedAt(question).stake_vault = kass.stake_vault + kass.conditional[question]
      /\ RedeemedAt(question).conditional = [kass.conditional EXCEPT ![question] = 0]
      /\ RedeemedAt(question).burned = kass.burned
      /\ RedeemedAt(question).challengers = kass.challengers
    BY DEF RedeemedAt, KassLedger
<1>2. RedeemedAt(question) = KassFields(RedeemedAt(question))
  <2> SUFFICES ASSUME NEW k, k = RedeemedAt(question) PROVE k = KassFields(k)
      OBVIOUS
  <2> QED
      BY DEF RedeemedAt, KassLedger, KassFields
<1>3. RedeemedAt(question).conditional \in [Questions -> Nat]
    BY <1>1, KassTypes
<1>4. RedeemedAt(question) \in KassLedger
    BY <1>1, <1>2, <1>3, KassTypes, KassRecord
<1> QED
    BY <1>1, <1>4

\* The market that a settlement closes, and the question it resolves.
LEMMA CloseMarketTypes ==
    ASSUME TypeOK, NEW p \in DOMAIN market, CloseMarket(p)
    PROVE  /\ AccountsOf(market', Proposers, MarketAccount)
           /\ resolved_question' \subseteq Questions
<1>1. market[p] \in MarketAccount
    BY DEF TypeOK, AccountsOf
<1>2. [market[p] EXCEPT !.settled = TRUE] \in MarketAccount
    BY <1>1 DEF MarketAccount
<1>3. market[p].question \in Questions
    BY <1>1 DEF MarketAccount
<1> QED
    BY <1>2, <1>3, UpdateAccount DEF CloseMarket, TypeOK

\* A challenger's fee is part of what the bond has left.
LEMMA KassFeeTypes ==
    ASSUME NEW a \in ProposerAccount
    PROVE  /\ KassFee(a) \in Nat /\ KassFee(a) <= a.bond
           /\ a.slashed_amount <= a.bond => KassFee(a) <= a.bond - a.slashed_amount
           /\ a.bond - KassFee(a) \in U64
<1>1. a.bond \in Nat /\ a.slashed_amount \in Nat /\ a.bond <= U64_MAX
    BY U64MaxAssumption DEF ProposerAccount, U64
<1>2. ChallengeSuccessKassFee \in ProperRatio
    BY DisputeAssumption
<1>3. FloorFrac(a.bond, ChallengeSuccessKassFee) \in Nat
    BY <1>1, <1>2, FloorFracBounds
<1> DEFINE left == SaturatingSub(a.bond, a.slashed_amount)
<1>4. left \in Nat /\ left <= a.bond
      /\ (a.slashed_amount <= a.bond => left = a.bond - a.slashed_amount)
    BY <1>1 DEF SaturatingSub
<1> HIDE DEF left
<1>5. KassFee(a) = AtMost(FloorFrac(a.bond, ChallengeSuccessKassFee), left)
    BY DEF KassFee, left
<1>6. KassFee(a) \in Nat /\ KassFee(a) <= left
    BY <1>3, <1>4, <1>5 DEF AtMost
<1> QED
    BY <1>1, <1>4, <1>6, U64MaxAssumption DEF U64

LEMMA DisqualifiedTypes ==
    ASSUME NEW a \in ProposerAccount
    PROVE  Disqualified(a) \in ProposerAccount
<1>1. ProposerFieldsTyped(a)
    BY ProposerTypes
<1> SUFFICES ASSUME NEW b, b = Disqualified(a) PROVE b \in ProposerAccount
    OBVIOUS
<1>2. b = ProposerFields(b)
    BY <1>1 DEF Disqualified, ProposerFields, ProposerAccount
<1>3. ProposerFieldsTyped(b)
    BY <1>1, KassFeeTypes DEF Disqualified, ProposerFieldsTyped, ProposerAccount
<1> QED
    BY <1>2, <1>3, ProposerRecord

LEMMA SettleSuccessfulTypes ==
    ASSUME TypeInv, NEW p \in DOMAIN market, SettleSuccessful(p)
    PROVE  TypeOK'
<1> USE DEF TypeInv
<1>1. /\ p \in Proposed /\ p \in Proposers /\ proposer[p] \in ProposerAccount
      /\ market[p] \in MarketAccount
    BY DEF TypeOK, AccountsOf, Proposed, AccountsLinked
<1>2. /\ oracle \in OracleAccount /\ OracleFieldsTyped(oracle)
      /\ kass \in KassLedger /\ usdc \in UsdcLedger
    BY OracleTypes DEF TypeOK
<1>3. oracle' \in OracleAccount
  <2>1. oracle' = OracleFields(oracle')
    <3>1. CASE proposer[p].disqualified
        BY <1>2, <3>1 DEF OracleFields, OracleAccount, SettleSuccessful,
            CanSettleSuccessful, ToppedUp
    <3>2. CASE ~proposer[p].disqualified
        BY <1>2, <3>2 DEF OracleFields, OracleAccount, SettleSuccessful,
            CanSettleSuccessful, ToppedUp
    <3> QED
        BY <3>1, <3>2
  <2>2. OracleFieldsTyped(oracle')
    <3>1. /\ oracle.open_challenge_count - 1 \in Nat
          /\ oracle.surviving_count > 0 => oracle.surviving_count - 1 \in Nat
        BY <1>2 DEF SettleSuccessful, CanSettleSuccessful, ToppedUp, SettleableMarket,
            OracleFieldsTyped
    <3>2. CASE proposer[p].disqualified
        BY <1>2, <3>1, <3>2 DEF OracleFieldsTyped, OracleAccount, SettleSuccessful,
            CanSettleSuccessful, ToppedUp
    <3>3. CASE ~proposer[p].disqualified
        BY <1>2, <3>1, <3>3 DEF OracleFieldsTyped, OracleAccount, SettleSuccessful,
            CanSettleSuccessful, ToppedUp
    <3> QED
        BY <3>2, <3>3
  <2> QED
      BY <2>1, <2>2, OracleRecord
<1>4. AccountsOf(proposer', Proposers, ProposerAccount)
  <2>1. Disqualified(proposer[p]) \in ProposerAccount
      BY <1>1, DisqualifiedTypes
  <2>2. AccountsOf(proposer, Proposers, ProposerAccount) /\ p \in DOMAIN proposer
      BY <1>1 DEF TypeOK, Proposed
  <2>3. AccountsOf([proposer EXCEPT ![p] = Disqualified(proposer[p])],
                   Proposers, ProposerAccount)
      BY <2>1, <2>2, UpdateAccount
  <2>4. CASE proposer[p].disqualified
      BY <2>2, <2>4 DEF SettleSuccessful, CanSettleSuccessful, ToppedUp
  <2>5. CASE ~proposer[p].disqualified
      BY <2>3, <2>5 DEF SettleSuccessful, CanSettleSuccessful, ToppedUp
  <2> QED
      BY <2>4, <2>5
<1>5. kass' \in KassLedger
  <2> SUFFICES ASSUME NEW fee, fee = KassFee(proposer[p]),
                      NEW r, r = RedeemedAt(market[p].question)
               PROVE  kass' \in KassLedger
      OBVIOUS
  <2>1. fee \in Nat /\ fee <= r.stake_vault
      BY <1>1, KassFeeTypes DEF SettleSuccessful, CanSettleSuccessful, ToppedUp
  <2>2. r \in KassLedger
      BY <1>1, <1>2, RedeemedTypes
      DEF SettleSuccessful, CanSettleSuccessful, ToppedUp, SettleableMarket,
          MarketAccount
  <2>3. kass' = [r EXCEPT !.stake_vault = @ - fee, !.challengers = @ + fee]
      BY DEF SettleSuccessful, CanSettleSuccessful, ToppedUp
  <2>4. /\ kass'.stake_vault = r.stake_vault - fee
        /\ kass'.conditional = r.conditional
        /\ kass'.burned = r.burned /\ kass'.challengers = r.challengers + fee
        /\ kass' = KassFields(kass')
      BY <2>2, <2>3 DEF KassLedger, KassFields
  <2>5. kass'.stake_vault \in U64 /\ kass'.challengers \in Nat
      BY <2>1, <2>2, <2>4, KassTypes, U64MaxAssumption DEF U64
  <2> QED
      BY <2>2, <2>4, <2>5, KassTypes, KassRecord
<1>6. usdc' \in UsdcLedger
  <2> SUFFICES ASSUME NEW x, x = market[p].challenger_usdc
               PROVE  usdc' \in UsdcLedger
      OBVIOUS
  <2>1. x \in Nat
      BY <1>1, U64MaxAssumption DEF MarketAccount, U64
  <2>2. usdc' = [usdc EXCEPT !.escrow[p] = @ - x, !.challengers = @ + x]
      BY DEF SettleSuccessful, CanSettleSuccessful, ToppedUp
  <2>3. usdc.escrow \in [Proposers -> Nat]
        /\ usdc.proposers \in Nat /\ usdc.challengers \in Nat
      BY <1>2 DEF UsdcLedger
  <2>4. /\ usdc'.escrow = [usdc.escrow EXCEPT ![p] = usdc.escrow[p] - x]
        /\ usdc'.proposers = usdc.proposers
        /\ usdc'.challengers = usdc.challengers + x
        /\ usdc' = UsdcFields(usdc')
      BY <1>2, <2>2 DEF UsdcLedger, UsdcFields
  <2>5. usdc.escrow[p] - x \in Nat
      BY <1>1, <2>1
      DEF EscrowBacksOpenMarkets, SettleSuccessful, CanSettleSuccessful, ToppedUp,
          SettleableMarket
  <2>6. usdc'.escrow \in [Proposers -> Nat]
      BY <2>3, <2>4, <2>5
  <2> QED
      BY <2>1, <2>3, <2>4, <2>6, UsdcRecord
<1>7. /\ AccountsOf(market', Proposers, MarketAccount)
      /\ resolved_question' \subseteq Questions
    BY CloseMarketTypes DEF SettleSuccessful, CanSettleSuccessful, ToppedUp
<1> QED
    BY <1>3, <1>4, <1>5, <1>6, <1>7 DEF SettleSuccessful, CanSettleSuccessful,
        ToppedUp, TypeOK

LEMMA SettleFailedTypes ==
    ASSUME TypeInv, NEW p \in DOMAIN market, SettleFailed(p)
    PROVE  TypeOK'
<1> USE DEF TypeInv
<1>1. p \in Proposers /\ market[p] \in MarketAccount
    BY DEF TypeOK, AccountsOf
<1>2. /\ oracle \in OracleAccount /\ OracleFieldsTyped(oracle)
      /\ kass \in KassLedger /\ usdc \in UsdcLedger
    BY OracleTypes DEF TypeOK
<1>3. oracle' \in OracleAccount
  <2>1. oracle' = OracleFields(oracle')
      BY <1>2 DEF OracleFields, OracleAccount, SettleFailed
  <2>2. oracle.open_challenge_count - 1 \in Nat
      BY <1>2 DEF SettleFailed, SettleableMarket, OracleFieldsTyped
  <2>3. OracleFieldsTyped(oracle')
      BY <1>2, <2>2 DEF OracleFieldsTyped, OracleAccount, SettleFailed
  <2> QED
      BY <2>1, <2>3, OracleRecord
<1>4. kass' \in KassLedger
    BY <1>1, <1>2, RedeemedTypes DEF SettleFailed, SettleableMarket, MarketAccount
<1>5. usdc' \in UsdcLedger
  <2> SUFFICES ASSUME NEW x, x = market[p].challenger_usdc,
                      NEW fee, fee = FloorFrac(x, ChallengeFailUsdcFee)
               PROVE  usdc' \in UsdcLedger
      OBVIOUS
  <2>1. x \in Nat
      BY <1>1, U64MaxAssumption DEF MarketAccount, U64
  <2>2. ChallengeFailUsdcFee \in ProperRatio
      BY DisputeAssumption
  <2>3. fee \in Nat /\ fee <= x
      BY <2>1, <2>2, FloorFracBounds
  <2>4. usdc' = [usdc EXCEPT !.escrow[p] = @ - x, !.proposers = @ + fee,
                             !.challengers = @ + (x - fee)]
      BY DEF SettleFailed
  <2>5. usdc.escrow \in [Proposers -> Nat]
        /\ usdc.proposers \in Nat /\ usdc.challengers \in Nat
      BY <1>2 DEF UsdcLedger
  <2>6. /\ usdc'.escrow = [usdc.escrow EXCEPT ![p] = usdc.escrow[p] - x]
        /\ usdc'.proposers = usdc.proposers + fee
        /\ usdc'.challengers = usdc.challengers + (x - fee)
        /\ usdc' = UsdcFields(usdc')
      BY <1>2, <2>4 DEF UsdcLedger, UsdcFields
  <2>7. usdc.escrow[p] - x \in Nat
      BY <1>1, <2>1
      DEF EscrowBacksOpenMarkets, SettleFailed, SettleableMarket
  <2>8. usdc'.escrow \in [Proposers -> Nat]
      BY <2>5, <2>6, <2>7
  <2>9. usdc'.proposers \in Nat /\ usdc'.challengers \in Nat
      BY <2>1, <2>3, <2>5, <2>6
  <2> QED
      BY <2>6, <2>8, <2>9, UsdcRecord
<1>6. /\ AccountsOf(market', Proposers, MarketAccount)
      /\ resolved_question' \subseteq Questions
    BY CloseMarketTypes DEF SettleFailed
<1> QED
    BY <1>3, <1>4, <1>5, <1>6 DEF SettleFailed, TypeOK

-----------------------------------------------------------------------------
\* The verdict

LEMMA ResolveTypes ==
    ASSUME TypeOK, Resolve
    PROVE  TypeOK'
<1>1. oracle \in OracleAccount /\ OracleFieldsTyped(oracle)
    BY OracleTypes DEF TypeOK
<1>2. Plurality(Claims) \in Options \cup {CLAIM_OPTION_NONE}
    BY DEF Plurality
<1>3. oracle' = OracleFields(oracle')
    BY <1>1 DEF OracleFields, OracleAccount, Resolve, CanResolve, BondsFor
<1>4. OracleFieldsTyped(oracle')
    BY <1>1, <1>2 DEF OracleFieldsTyped, OracleAccount, Resolve, CanResolve, BondsFor,
        Phases
<1> QED
    BY <1>3, <1>4, OracleRecord DEF Resolve, CanResolve, BondsFor, TypeOK

LEMMA DeadEndTypes ==
    ASSUME TypeOK, DeadEnd
    PROVE  TypeOK'
<1>1. oracle \in OracleAccount /\ OracleFieldsTyped(oracle)
    BY OracleTypes DEF TypeOK
<1>2. kass' \in KassLedger
    BY BurnTypes DEF DeadEnd, CanDeadEnd, TypeOK
<1>3. oracle' = OracleFields(oracle')
    BY <1>1 DEF OracleFields, OracleAccount, DeadEnd, CanDeadEnd
<1>4. OracleFieldsTyped(oracle')
    BY <1>1 DEF OracleFieldsTyped, OracleAccount, DeadEnd, CanDeadEnd, Phases
<1> QED
    BY <1>2, <1>3, <1>4, OracleRecord DEF DeadEnd, CanDeadEnd, TypeOK

LEMMA ResolveDeadendTypes ==
    ASSUME TypeOK, NEW option \in Options, ResolveDeadend(option)
    PROVE  TypeOK'
<1>1. oracle \in OracleAccount /\ OracleFieldsTyped(oracle)
    BY OracleTypes DEF TypeOK
<1>2. oracle' = OracleFields(oracle')
    BY <1>1 DEF OracleFields, OracleAccount, ResolveDeadend
<1>3. OracleFieldsTyped(oracle')
    BY <1>1 DEF OracleFieldsTyped, OracleAccount, ResolveDeadend, Phases
<1> QED
    BY <1>2, <1>3, OracleRecord DEF ResolveDeadend, TypeOK

LEMMA TickTypes ==
    ASSUME TypeOK, Tick
    PROVE  TypeOK'
BY DEF TypeOK, Tick

-----------------------------------------------------------------------------
\* The invariant

LEMMA TypeInvInit == Init => TypeInv
<1> SUFFICES ASSUME Init PROVE TypeInv
    OBVIOUS
<1>1. 0 \in U64 /\ RewardEmission \in U64
    BY U64MaxAssumption, DisputeAssumption DEF U64
<1>2. 0 \in Options
    BY OptionsAssumption DEF Options
<1>3. oracle \in OracleAccount
  <2>1. Deadline + ProposalWindow \in Nat
      BY DisputeAssumption
  <2> QED
      BY <1>1, <1>2, <2>1 DEF Init, OracleAccount, Phases
<1>4. kass \in KassLedger /\ usdc \in UsdcLedger
    BY <1>1 DEF Init, KassLedger, UsdcLedger
<1>5. TypeOK
    BY <1>3, <1>4 DEF Init, TypeOK, AccountsOf
<1>6. AccountsLinked
    BY DEF Init, AccountsLinked, Proposed
<1>7. EscrowBacksOpenMarkets
    BY DEF Init, EscrowBacksOpenMarkets, OpenMarkets
<1> QED
    BY <1>5, <1>6, <1>7 DEF TypeInv

\* No instruction before the claims close an account.
LEMMA LinksStep ==
    ASSUME TypeInv, [Next]_vars
    PROVE  AccountsLinked'
<1> USE DEF AccountsLinked, Proposed
<1>1. AccountsLinked
    BY DEF TypeInv
<1>2. ASSUME NEW p, NEW bond, NEW option, Propose(p, bond, option)
      PROVE  AccountsLinked'
    BY <1>1, <1>2 DEF Propose, Create
<1>3. ASSUME NEW S, SlashForNoFacts(S)
      PROVE  AccountsLinked'
    BY <1>1, <1>3 DEF SlashForNoFacts, CanSlashForNoFacts, PoolWithout,
        SurvivingWithout, UpdateAll
<1>4. ASSUME NEW p \in Proposed, NEW option, SubmitAiClaim(p, option)
      PROVE  AccountsLinked'
    BY <1>1, <1>4 DEF SubmitAiClaim, Create
<1>5. ASSUME NEW S, FinalizeAiClaims(S)
      PROVE  AccountsLinked'
    BY <1>1, <1>5 DEF FinalizeAiClaims, CanFinalizeAiClaims, NoShowsIn, UpdateAll
<1>6. ASSUME NEW p \in DOMAIN ai_claim, NEW question, NEW price,
             OpenChallenge(p, question, price)
      PROVE  AccountsLinked'
    BY <1>1, <1>6 DEF OpenChallenge, Create
<1>7. ASSUME NEW p, SettleSuccessful(p)
      PROVE  AccountsLinked'
    BY <1>1, <1>7 DEF SettleSuccessful, CanSettleSuccessful, ToppedUp, CloseMarket
<1>8. ASSUME NEW p, SettleFailed(p)
      PROVE  AccountsLinked'
    BY <1>1, <1>8 DEF SettleFailed, CloseMarket
<1>9. CASE UNCHANGED <<proposer, ai_claim, market>>
    BY <1>1, <1>9
<1> QED
    BY <1>2, <1>3, <1>4, <1>5, <1>6, <1>7, <1>8, <1>9
    DEF vars, Next, PartyStep, CrankStep, FinalizeProposals,
        FinalizeAgreedProposals, CanFinalizeAgreed, FinalizeDisputedProposals,
        CanFinalizeDisputed, SubmitFact,
        VoteFact, ResolveDeadend, AdvancePhase, CanAdvancePhase, FinalizeFacts,
        SettleFacts, CanSettleFacts,
        FinalizeClaims, SettleMarket, SettleChallenge, FinalizeOracle,
        Resolve, CanResolve, BondsFor, DeadEnd, CanDeadEnd, Tick

\* Opening a challenge fills its escrow, and settling it empties it.
LEMMA EscrowStep ==
    ASSUME TypeInv, [Next]_vars
    PROVE  EscrowBacksOpenMarkets'
<1>1. /\ EscrowBacksOpenMarkets
      /\ DOMAIN market \subseteq Proposers
      /\ market \in [DOMAIN market -> MarketAccount]
      /\ usdc \in UsdcLedger
    BY DEF TypeInv, TypeOK, AccountsOf
<1>2. ASSUME NEW p \in DOMAIN ai_claim, NEW question, NEW price,
             OpenChallenge(p, question, price)
      PROVE  EscrowBacksOpenMarkets'
  <2> SUFFICES ASSUME NEW x, x = RequiredUsdc(proposer[p].bond, price),
                      NEW m, m = [question |-> question, challenger_usdc |-> x,
                                  twap_end |-> now + TwapWindow, settled |-> FALSE]
               PROVE  EscrowBacksOpenMarkets'
      OBVIOUS
  <2>1. usdc'.escrow = [usdc.escrow EXCEPT ![p] = x]
      BY <1>1, <1>2 DEF OpenChallenge, UsdcLedger
  <2>2. market' = Create(market, p, m) /\ p \notin DOMAIN market
      BY <1>2 DEF OpenChallenge
  <2>3. OpenMarkets' = OpenMarkets \cup {p}
      BY <2>2 DEF OpenMarkets, Create
  <2>4. usdc.escrow \in [Proposers -> Nat]
      BY <1>1 DEF UsdcLedger
  <2>5. p \in Proposers
      BY DEF TypeInv, TypeOK, AccountsOf
  <2>6. market'[p] = m /\ \A other \in DOMAIN market : market'[other] = market[other]
      BY <2>2 DEF Create
  <2>7. OpenMarkets \subseteq DOMAIN market
      BY DEF OpenMarkets
  <2>8. market'[p].challenger_usdc = x
      BY <2>6
  <2>9. usdc'.escrow[p] = x /\ \A q \in Proposers \ {p} : usdc'.escrow[q] = usdc.escrow[q]
      BY <2>1, <2>4, <2>5
  <2> QED
      BY <1>1, <2>2, <2>3, <2>5, <2>6, <2>7, <2>8, <2>9 DEF EscrowBacksOpenMarkets
<1>3. ASSUME NEW p \in DOMAIN market, NEW x, x = market[p].challenger_usdc,
             p \in OpenMarkets, usdc'.escrow = [usdc.escrow EXCEPT ![p] = @ - x],
             CloseMarket(p)
      PROVE  EscrowBacksOpenMarkets'
  <2>1. usdc.escrow \in [Proposers -> Nat] /\ p \in Proposers
      BY <1>1 DEF UsdcLedger
  <2>2. usdc.escrow[p] = x /\ x \in Nat
      BY <1>1, <1>3, <2>1 DEF EscrowBacksOpenMarkets
  <2>3. usdc'.escrow[p] = 0
      BY <1>3, <2>1, <2>2
  <2>4. \A other \in Proposers \ {p} : usdc'.escrow[other] = usdc.escrow[other]
      BY <1>3, <2>1
  <2>5. [market[p] EXCEPT !.settled = TRUE].settled = TRUE
      BY <1>1 DEF MarketAccount
  <2>6. /\ DOMAIN market' = DOMAIN market
        /\ market'[p].settled = TRUE
        /\ \A other \in DOMAIN market \ {p} : market'[other] = market[other]
      BY <1>3, <2>5 DEF CloseMarket
  <2>7. OpenMarkets' = OpenMarkets \ {p}
      BY <2>6 DEF OpenMarkets
  <2>8. OpenMarkets \subseteq DOMAIN market
      BY DEF OpenMarkets
  <2> QED
      BY <1>1, <2>3, <2>4, <2>6, <2>7, <2>8 DEF EscrowBacksOpenMarkets
<1>4. ASSUME NEW p \in DOMAIN market, SettleSuccessful(p)
      PROVE  EscrowBacksOpenMarkets'
  <2>1. usdc'.escrow = [usdc.escrow EXCEPT ![p] = @ - market[p].challenger_usdc]
      BY <1>1, <1>4 DEF SettleSuccessful, CanSettleSuccessful, ToppedUp, UsdcLedger
  <2> QED
      BY <1>3, <1>4, <2>1 DEF SettleSuccessful, CanSettleSuccessful, ToppedUp,
          SettleableMarket
<1>5. ASSUME NEW p \in DOMAIN market, SettleFailed(p)
      PROVE  EscrowBacksOpenMarkets'
  <2>1. usdc'.escrow = [usdc.escrow EXCEPT ![p] = @ - market[p].challenger_usdc]
      BY <1>1, <1>5 DEF SettleFailed, UsdcLedger
  <2> QED
      BY <1>3, <1>5, <2>1 DEF SettleFailed, SettleableMarket
<1>6. CASE UNCHANGED <<market, usdc>>
    BY <1>1, <1>6 DEF EscrowBacksOpenMarkets, OpenMarkets
<1> QED
    BY <1>2, <1>4, <1>5, <1>6
    DEF vars, Next, PartyStep, CrankStep, Propose, FinalizeProposals,
        FinalizeAgreedProposals, CanFinalizeAgreed, FinalizeDisputedProposals,
        CanFinalizeDisputed, SubmitFact,
        VoteFact, SubmitAiClaim, ResolveDeadend, AdvancePhase, CanAdvancePhase,
        FinalizeFacts,
        SlashForNoFacts, CanSlashForNoFacts, PoolWithout, SurvivingWithout,
        SettleFacts, CanSettleFacts, FinalizeClaims, FinalizeAiClaims,
        CanFinalizeAiClaims, NoShowsIn,
        SettleMarket, SettleChallenge, FinalizeOracle, Resolve, CanResolve, BondsFor,
        DeadEnd, CanDeadEnd, Tick

LEMMA TypeStep ==
    ASSUME TypeInv, [Next]_vars
    PROVE  TypeOK'
<1>1. TypeOK
    BY DEF TypeInv
<1>2. CASE PartyStep
    BY <1>1, <1>2, ProposeTypes, SubmitFactTypes, VoteFactTypes,
       SubmitAiClaimTypes, OpenChallengeTypes, ResolveDeadendTypes DEF PartyStep
<1>3. CASE CrankStep
  <2>1. CASE FinalizeProposals
      BY <1>1, <2>1, FinalizeProposalsTypes
  <2>2. CASE AdvancePhase
      BY <1>1, <2>2, AdvancePhaseTypes
  <2>3. CASE FinalizeFacts
      BY <1>1, <2>3, SlashForNoFactsTypes, SettleFactsTypes DEF FinalizeFacts
  <2>4. CASE FinalizeClaims
      BY <1>1, <2>4, FinalizeAiClaimsTypes DEF FinalizeClaims
  <2>5. CASE \E p \in DOMAIN market : SettleMarket(p)
      BY <2>5, SettleSuccessfulTypes, SettleFailedTypes
      DEF SettleMarket, SettleChallenge
  <2>6. CASE FinalizeOracle
      BY <1>1, <2>6, ResolveTypes, DeadEndTypes DEF FinalizeOracle
  <2> QED
      BY <1>3, <2>1, <2>2, <2>3, <2>4, <2>5, <2>6 DEF CrankStep
<1>4. CASE Tick
    BY <1>1, <1>4, TickTypes
<1>5. CASE UNCHANGED vars
    BY <1>1, <1>5 DEF vars, TypeOK
<1> QED
    BY <1>2, <1>3, <1>4, <1>5 DEF Next

LEMMA TypeInvStep == TypeInv /\ [Next]_vars => TypeInv'
BY TypeStep, LinksStep, EscrowStep DEF TypeInv

LEMMA TypeInvHolds == Spec => []TypeInv
BY TypeInvInit, TypeInvStep, PTL DEF Spec

\* No instruction leaves an account out of its type: no u64 wraps, and no
\* counter goes below zero.
THEOREM DisputeTypeCorrect == Spec => []TypeOK
BY TypeInvHolds, PTL DEF TypeInv

\* The escrow of an open challenge holds the challenger's USDC, and a settled
\* one nothing (settle_challenge, close_market).
THEOREM EscrowIsBacked == Spec => []EscrowBacksOpenMarkets
BY TypeInvHolds, PTL DEF TypeInv

-----------------------------------------------------------------------------
\* The inductive invariant

\* A proposer that has a vote has published it as an AI claim, and one that
\* finalize_ai_claims left standing has a vote.
ClaimsMatch ==
    \A p \in Proposed :
        /\ ~NoShow(proposer[p]) =>
              /\ p \in DOMAIN ai_claim
              /\ proposer[p].claim_option = ai_claim[p].option
        /\ proposer[p].ai_finalized /\ ~proposer[p].disqualified =>
              ~NoShow(proposer[p])

\* Nobody is slashed twice but for a flip and a lost challenge, in that order.
SlashesOrdered ==
    \A p \in Proposed :
        /\ proposer[p].slashed_amount <= proposer[p].bond
        /\ ~proposer[p].disqualified /\ ~proposer[p].ai_finalized =>
              proposer[p].slashed_amount = 0

\* Challenges open only after every AI claim is finalized, and only then.
PhasesOrdered ==
    /\ oracle.phase = "Challenge" => Finalized = Proposed
    /\ oracle.phase \notin {"Challenge"} \cup TerminalPhases => DOMAIN market = {}
    /\ Terminal => OpenMarkets = {}

\* A question's vault holds something only for an open challenge on it.
VaultsBackChallenges ==
    \A q \in Questions :
        kass.conditional[q] # 0 => \E p \in OpenMarkets : market[p].question = q

DisputeInv ==
    /\ TypeInv
    /\ CountersAccurate
    /\ ClaimsMatch
    /\ SlashesOrdered
    /\ PhasesOrdered
    /\ VaultsBackChallenges

-----------------------------------------------------------------------------
\* The counters

LEMMA FiniteAccounts ==
    ASSUME TypeOK
    PROVE  /\ IsFiniteSet(Proposed) /\ IsFiniteSet(DOMAIN fact)
           /\ IsFiniteSet(Survivors) /\ IsFiniteSet(Finalized)
           /\ IsFiniteSet(Settled) /\ IsFiniteSet(OpenMarkets)
<1>1. IsFiniteSet(Proposed) /\ IsFiniteSet(DOMAIN fact) /\ IsFiniteSet(DOMAIN market)
    BY DisputeAssumption, FS_Subset DEF TypeOK, AccountsOf, Proposed
<1>2. /\ Survivors \subseteq Proposed /\ Finalized \subseteq Proposed
      /\ Settled \subseteq DOMAIN fact /\ OpenMarkets \subseteq DOMAIN market
    BY DEF Survivors, Finalized, Settled, OpenMarkets
<1> QED
    BY <1>1, <1>2, FS_Subset

\* A batch taken out of a set, or added to one, moves its size by its own.
LEMMA BatchOut ==
    ASSUME NEW S, IsFiniteSet(S), NEW B \in SUBSET S
    PROVE  Cardinality(S \ B) = Cardinality(S) - Cardinality(B)
<1>1. IsFiniteSet(B)
    BY FS_Subset
<1>2. Cardinality(S \ B) = Cardinality(S) - Cardinality(S \cap B)
    BY <1>1, FS_Difference
<1>3. S \cap B = B
    OBVIOUS
<1> QED
    BY <1>2, <1>3

LEMMA BatchIn ==
    ASSUME NEW S, IsFiniteSet(S), NEW B, IsFiniteSet(B), S \cap B = {}
    PROVE  Cardinality(S \cup B) = Cardinality(S) + Cardinality(B)
<1>1. Cardinality(S \cap B) = 0
    BY FS_EmptySet
<1>2. Cardinality(S \cup B) = Cardinality(S) + Cardinality(B) - Cardinality(S \cap B)
    BY FS_Union
<1>3. Cardinality(S) \in Nat /\ Cardinality(B) \in Nat
    BY FS_CardinalityType
<1> QED
    BY <1>1, <1>2, <1>3

LEMMA ProposeCounts ==
    ASSUME TypeOK, CountersAccurate, NEW p, NEW bond, NEW option,
           Propose(p, bond, option)
    PROVE  CountersAccurate'
<1>1. oracle \in OracleAccount
    BY DEF TypeOK
<1>2. /\ oracle'.proposer_count = oracle.proposer_count + 1
      /\ oracle'.surviving_count = oracle.surviving_count + 1
      /\ oracle'.fact_count = oracle.fact_count
      /\ oracle'.settled_count = oracle.settled_count
      /\ oracle'.ai_finalized_count = oracle.ai_finalized_count
      /\ oracle'.open_challenge_count = oracle.open_challenge_count
    BY <1>1 DEF Propose, OracleAccount
<1>3. /\ p \notin Proposed
      /\ Proposed' = Proposed \cup {p}
      /\ Survivors' = Survivors \cup {p} /\ p \notin Survivors
      /\ Finalized' = Finalized
    BY DEF Propose, Create, Proposed, Survivors, Finalized
<1>4. /\ Cardinality(Proposed)' = Cardinality(Proposed) + 1
      /\ Cardinality(Survivors)' = Cardinality(Survivors) + 1
    BY <1>3, FiniteAccounts, FS_AddElement
<1>5. fact' = fact /\ market' = market
    BY DEF Propose
<1> QED
    BY <1>2, <1>3, <1>4, <1>5 DEF CountersAccurate, Settled, OpenMarkets

LEMMA SubmitFactCounts ==
    ASSUME TypeOK, CountersAccurate, NEW f, NEW stake, SubmitFact(f, stake)
    PROVE  CountersAccurate'
<1>1. oracle \in OracleAccount
    BY DEF TypeOK
<1>2. /\ oracle'.proposer_count = oracle.proposer_count
      /\ oracle'.surviving_count = oracle.surviving_count
      /\ oracle'.fact_count = oracle.fact_count + 1
      /\ oracle'.settled_count = oracle.settled_count
      /\ oracle'.ai_finalized_count = oracle.ai_finalized_count
      /\ oracle'.open_challenge_count = oracle.open_challenge_count
    BY <1>1 DEF SubmitFact, OracleAccount
<1>3. /\ f \notin DOMAIN fact
      /\ DOMAIN fact' = DOMAIN fact \cup {f}
      /\ Settled' = Settled
    BY DEF SubmitFact, Create, Settled
<1>4. Cardinality(DOMAIN fact)' = Cardinality(DOMAIN fact) + 1
    BY <1>3, FiniteAccounts, FS_AddElement
<1>5. proposer' = proposer /\ market' = market
    BY DEF SubmitFact
<1> QED
    BY <1>2, <1>3, <1>4, <1>5
    DEF CountersAccurate, Proposed, Survivors, Finalized, OpenMarkets

\* A vote moves stakes only.
LEMMA VoteFactCounts ==
    ASSUME TypeOK, CountersAccurate, NEW f, NEW v, NEW kind, NEW stake,
           VoteFact(f, v, kind, stake)
    PROVE  CountersAccurate'
<1>1. oracle \in OracleAccount /\ f \in DOMAIN fact /\ fact[f] \in FactAccount
    BY DEF TypeOK, AccountsOf, VoteFact
<1>2. /\ oracle'.proposer_count = oracle.proposer_count
      /\ oracle'.surviving_count = oracle.surviving_count
      /\ oracle'.fact_count = oracle.fact_count
      /\ oracle'.settled_count = oracle.settled_count
      /\ oracle'.ai_finalized_count = oracle.ai_finalized_count
      /\ oracle'.open_challenge_count = oracle.open_challenge_count
    BY <1>1 DEF VoteFact, OracleAccount
<1>3. Tallied(fact[f], kind, stake).settled = fact[f].settled
    BY <1>1 DEF Tallied, FactAccount
<1>4. DOMAIN fact' = DOMAIN fact /\ Settled' = Settled
    BY <1>1, <1>3 DEF VoteFact, Settled
<1>5. proposer' = proposer /\ market' = market
    BY DEF VoteFact
<1> QED
    BY <1>2, <1>4, <1>5
    DEF CountersAccurate, Proposed, Survivors, Finalized, OpenMarkets

LEMMA SlashForNoFactsCounts ==
    ASSUME TypeOK, CountersAccurate, NEW S \in SUBSET Proposed, SlashForNoFacts(S)
    PROVE  CountersAccurate'
<1>1. oracle \in OracleAccount /\ proposer \in [Proposed -> ProposerAccount]
    BY DEF TypeOK, AccountsOf, Proposed
<1>2. /\ oracle'.proposer_count = oracle.proposer_count
      /\ oracle'.surviving_count =
            oracle.surviving_count - Cardinality(NotDisqualified(S))
      /\ oracle'.fact_count = oracle.fact_count
      /\ oracle'.settled_count = oracle.settled_count
      /\ oracle'.ai_finalized_count = oracle.ai_finalized_count
      /\ oracle'.open_challenge_count = oracle.open_challenge_count
    BY <1>1 DEF SlashForNoFacts, CanSlashForNoFacts, PoolWithout, SurvivingWithout,
        OracleAccount
<1>3. ASSUME NEW a \in ProposerAccount
      PROVE  /\ NoFactsSlash(a).disqualified
             /\ NoFactsSlash(a).ai_finalized = a.ai_finalized
    BY DEF NoFactsSlash, ProposerAccount
<1>4. /\ Proposed' = Proposed
      /\ \A p \in Proposed : proposer'[p] = IF p \in S THEN NoFactsSlash(proposer[p])
                                            ELSE proposer[p]
    BY DEF SlashForNoFacts, CanSlashForNoFacts, PoolWithout, SurvivingWithout,
        UpdateAll, Proposed
<1>5. /\ Survivors' = Survivors \ NotDisqualified(S)
      /\ NotDisqualified(S) \subseteq Survivors
      /\ Finalized' = Finalized
    BY <1>1, <1>3, <1>4 DEF Survivors, Finalized, NotDisqualified
<1>6. Cardinality(Survivors)' = Cardinality(Survivors) - Cardinality(NotDisqualified(S))
    BY <1>5, FiniteAccounts, BatchOut
<1>7. fact' = fact /\ market' = market
    BY DEF SlashForNoFacts, CanSlashForNoFacts, PoolWithout, SurvivingWithout
<1> QED
    BY <1>2, <1>4, <1>5, <1>6, <1>7 DEF CountersAccurate, Settled, OpenMarkets

LEMMA SettleFactsCounts ==
    ASSUME TypeOK, CountersAccurate, NEW F \in SUBSET DOMAIN fact, SettleFacts(F)
    PROVE  CountersAccurate'
<1>1. oracle \in OracleAccount /\ fact \in [DOMAIN fact -> FactAccount]
    BY DEF TypeOK, AccountsOf
<1>2. /\ oracle'.proposer_count = oracle.proposer_count
      /\ oracle'.surviving_count = oracle.surviving_count
      /\ oracle'.fact_count = oracle.fact_count
      /\ oracle'.settled_count = oracle.settled_count + Cardinality(F)
      /\ oracle'.ai_finalized_count = oracle.ai_finalized_count
      /\ oracle'.open_challenge_count = oracle.open_challenge_count
    BY <1>1 DEF SettleFacts, CanSettleFacts, OracleAccount
<1>3. ASSUME NEW a \in FactAccount PROVE SettledFact(a).settled
    BY DEF SettledFact, FactAccount
<1>4. /\ DOMAIN fact' = DOMAIN fact
      /\ \A f \in DOMAIN fact : fact'[f] = IF f \in F THEN SettledFact(fact[f])
                                           ELSE fact[f]
    BY DEF SettleFacts, CanSettleFacts, UpdateAll
<1>5. Settled' = Settled \cup F /\ Settled \cap F = {}
    BY <1>1, <1>3, <1>4 DEF Settled, SettleFacts, CanSettleFacts
<1>6. IsFiniteSet(F)
    BY FiniteAccounts, FS_Subset
<1>7. Cardinality(Settled)' = Cardinality(Settled) + Cardinality(F)
    BY <1>5, <1>6, FiniteAccounts, BatchIn
<1>8. proposer' = proposer /\ market' = market
    BY DEF SettleFacts, CanSettleFacts
<1> QED
    BY <1>2, <1>4, <1>7, <1>8
    DEF CountersAccurate, Proposed, Survivors, Finalized, OpenMarkets

LEMMA SubmitAiClaimCounts ==
    ASSUME TypeOK, CountersAccurate, NEW p \in Proposed, NEW option,
           SubmitAiClaim(p, option)
    PROVE  CountersAccurate'
<1>1. proposer[p] \in ProposerAccount /\ proposer \in [Proposed -> ProposerAccount]
    BY DEF TypeOK, AccountsOf, Proposed
<1>2. /\ Claimed(proposer[p], option).disqualified = proposer[p].disqualified
      /\ Claimed(proposer[p], option).ai_finalized = proposer[p].ai_finalized
    BY <1>1 DEF Claimed, ProposerAccount
<1>3. /\ Proposed' = Proposed /\ Survivors' = Survivors /\ Finalized' = Finalized
    BY <1>1, <1>2 DEF SubmitAiClaim, Proposed, Survivors, Finalized
<1>4. oracle' = oracle /\ fact' = fact /\ market' = market
    BY DEF SubmitAiClaim
<1> QED
    BY <1>3, <1>4 DEF CountersAccurate, Settled, OpenMarkets

\* What finalize_ai_claims does to an account, by what it finds there.
LEMMA AiFinalizedEffect ==
    ASSUME NEW a \in ProposerAccount
    PROVE  /\ AiFinalized(a).ai_finalized
           /\ AiFinalized(a).bond = a.bond
           /\ AiFinalized(a).claim_option = a.claim_option
           /\ AiFinalized(a).disqualified <=> (a.disqualified \/ NoShow(a))
           /\ ~AiFinalized(a).disqualified => ~a.disqualified /\ ~NoShow(a)
           /\ AiFinalized(a).slashed_amount =
                  IF Penalised(a) THEN AiSlash(a) ELSE a.slashed_amount
<1>1. CASE Penalised(a)
  <2>1. AiFinalized(a) = [a EXCEPT !.ai_finalized = TRUE, !.slashed = TRUE,
                                   !.disqualified = NoShow(a),
                                   !.slashed_amount = AiSlash(a)]
      BY <1>1 DEF AiFinalized
  <2>2. ~a.disqualified
      BY <1>1 DEF Penalised
  <2> QED
      BY <1>1, <2>1, <2>2 DEF ProposerAccount
<1>2. CASE ~Penalised(a)
  <2>1. AiFinalized(a) = [a EXCEPT !.ai_finalized = TRUE]
      BY <1>2 DEF AiFinalized
  <2>2. a.disqualified \/ ~NoShow(a)
      BY <1>2 DEF Penalised
  <2>3. /\ AiFinalized(a).ai_finalized
        /\ AiFinalized(a).bond = a.bond
        /\ AiFinalized(a).claim_option = a.claim_option
        /\ AiFinalized(a).disqualified = a.disqualified
        /\ AiFinalized(a).slashed_amount = a.slashed_amount
      BY <2>1 DEF ProposerAccount
  <2> QED
      BY <1>2, <2>2, <2>3
<1> QED
    BY <1>1, <1>2

LEMMA FinalizeAiClaimsCounts ==
    ASSUME TypeOK, CountersAccurate, NEW S \in SUBSET Proposed, FinalizeAiClaims(S)
    PROVE  CountersAccurate'
<1> DEFINE no_shows == { p \in NotDisqualified(S) : NoShow(proposer[p]) }
<1>1. oracle \in OracleAccount /\ proposer \in [Proposed -> ProposerAccount]
    BY DEF TypeOK, AccountsOf, Proposed
<1>2. /\ oracle'.proposer_count = oracle.proposer_count
      /\ oracle'.surviving_count = oracle.surviving_count - Cardinality(no_shows)
      /\ oracle'.fact_count = oracle.fact_count
      /\ oracle'.settled_count = oracle.settled_count
      /\ oracle'.ai_finalized_count = oracle.ai_finalized_count + Cardinality(S)
      /\ oracle'.open_challenge_count = oracle.open_challenge_count
    BY <1>1 DEF FinalizeAiClaims, CanFinalizeAiClaims, NoShowsIn, OracleAccount
<1>3. /\ Proposed' = Proposed
      /\ \A p \in Proposed : proposer'[p] = IF p \in S THEN AiFinalized(proposer[p])
                                            ELSE proposer[p]
    BY DEF FinalizeAiClaims, CanFinalizeAiClaims, NoShowsIn, UpdateAll, Proposed
<1>4. \A p \in S :
          /\ proposer'[p].ai_finalized
          /\ proposer'[p].disqualified <=> (proposer[p].disqualified \/ NoShow(proposer[p]))
    BY <1>1, <1>3, AiFinalizedEffect
<1>5. Survivors' = Survivors \ no_shows /\ no_shows \subseteq Survivors
    BY <1>3, <1>4 DEF Survivors, NotDisqualified
<1>6. Finalized' = Finalized \cup S /\ Finalized \cap S = {}
    BY <1>3, <1>4 DEF Finalized, FinalizeAiClaims, CanFinalizeAiClaims, NoShowsIn
<1>7. Cardinality(Survivors)' = Cardinality(Survivors) - Cardinality(no_shows)
    BY <1>5, FiniteAccounts, BatchOut
<1>8. Cardinality(Finalized)' = Cardinality(Finalized) + Cardinality(S)
  <2>1. IsFiniteSet(S)
      BY FiniteAccounts, FS_Subset
  <2> QED
      BY <1>6, <2>1, FiniteAccounts, BatchIn
<1>9. fact' = fact /\ market' = market
    BY DEF FinalizeAiClaims, CanFinalizeAiClaims, NoShowsIn
<1> HIDE DEF no_shows
<1> QED
    BY <1>2, <1>3, <1>7, <1>8, <1>9 DEF CountersAccurate, Settled, OpenMarkets

LEMMA OpenChallengeCounts ==
    ASSUME TypeOK, CountersAccurate, NEW p, NEW question, NEW price,
           OpenChallenge(p, question, price)
    PROVE  CountersAccurate'
<1>1. oracle \in OracleAccount
    BY DEF TypeOK
<1>2. /\ oracle'.proposer_count = oracle.proposer_count
      /\ oracle'.surviving_count = oracle.surviving_count
      /\ oracle'.fact_count = oracle.fact_count
      /\ oracle'.settled_count = oracle.settled_count
      /\ oracle'.ai_finalized_count = oracle.ai_finalized_count
      /\ oracle'.open_challenge_count = oracle.open_challenge_count + 1
    BY <1>1 DEF OpenChallenge, OracleAccount
<1>3. p \notin OpenMarkets /\ OpenMarkets' = OpenMarkets \cup {p}
    BY DEF OpenChallenge, Create, OpenMarkets
<1>4. Cardinality(OpenMarkets)' = Cardinality(OpenMarkets) + 1
    BY <1>3, FiniteAccounts, FS_AddElement
<1>5. proposer' = proposer /\ fact' = fact
    BY DEF OpenChallenge
<1> QED
    BY <1>2, <1>4, <1>5
    DEF CountersAccurate, Proposed, Survivors, Finalized, Settled

\* A settled market is no longer open, and the others are as they were.
LEMMA ClosedMarket ==
    ASSUME TypeOK, NEW p \in OpenMarkets, CloseMarket(p)
    PROVE  /\ DOMAIN market' = DOMAIN market
           /\ OpenMarkets' = OpenMarkets \ {p}
           /\ \A other \in DOMAIN market \ {p} : market'[other] = market[other]
           /\ Cardinality(OpenMarkets)' = Cardinality(OpenMarkets) - 1
<1>1. p \in DOMAIN market /\ market[p] \in MarketAccount
    BY DEF OpenMarkets, TypeOK, AccountsOf
<1>2. [market[p] EXCEPT !.settled = TRUE].settled = TRUE
    BY <1>1 DEF MarketAccount
<1>3. /\ DOMAIN market' = DOMAIN market
      /\ market'[p].settled = TRUE
      /\ \A other \in DOMAIN market \ {p} : market'[other] = market[other]
    BY <1>1, <1>2 DEF CloseMarket
<1>4. OpenMarkets' = OpenMarkets \ {p}
    BY <1>3 DEF OpenMarkets
<1>5. Cardinality(OpenMarkets \ {p}) = Cardinality(OpenMarkets) - 1
    BY FiniteAccounts, FS_RemoveElement
<1> QED
    BY <1>3, <1>4, <1>5

\* What a successful challenge does to the proposer.
LEMMA DisqualifiedEffect ==
    ASSUME NEW a \in ProposerAccount
    PROVE  /\ Disqualified(a).disqualified
           /\ Disqualified(a).bond = a.bond
           /\ Disqualified(a).claim_option = a.claim_option
           /\ Disqualified(a).ai_finalized = a.ai_finalized
           /\ Disqualified(a).slashed_amount = a.bond - KassFee(a)
BY DEF Disqualified, ProposerAccount

LEMMA SettleSuccessfulCounts ==
    ASSUME TypeOK, CountersAccurate, NEW p \in Proposed, SettleSuccessful(p)
    PROVE  CountersAccurate'
<1>1. oracle \in OracleAccount /\ proposer \in [Proposed -> ProposerAccount]
    BY DEF TypeOK, AccountsOf, Proposed
<1>2. p \in OpenMarkets /\ CloseMarket(p) /\ fact' = fact
    BY DEF SettleSuccessful, CanSettleSuccessful, ToppedUp, SettleableMarket
<1>3. Cardinality(OpenMarkets)' = Cardinality(OpenMarkets) - 1
    BY <1>2, ClosedMarket
<1>4. CASE proposer[p].disqualified
  <2>1. /\ oracle'.proposer_count = oracle.proposer_count
        /\ oracle'.surviving_count = oracle.surviving_count
        /\ oracle'.fact_count = oracle.fact_count
        /\ oracle'.settled_count = oracle.settled_count
        /\ oracle'.ai_finalized_count = oracle.ai_finalized_count
        /\ oracle'.open_challenge_count = oracle.open_challenge_count - 1
        /\ proposer' = proposer
      BY <1>1, <1>4 DEF SettleSuccessful, CanSettleSuccessful, ToppedUp, OracleAccount
  <2> QED
      BY <1>2, <1>3, <2>1 DEF CountersAccurate, Proposed, Survivors, Finalized, Settled
<1>5. CASE ~proposer[p].disqualified
  <2>1. /\ oracle'.proposer_count = oracle.proposer_count
        /\ oracle'.surviving_count = oracle.surviving_count - 1
        /\ oracle'.fact_count = oracle.fact_count
        /\ oracle'.settled_count = oracle.settled_count
        /\ oracle'.ai_finalized_count = oracle.ai_finalized_count
        /\ oracle'.open_challenge_count = oracle.open_challenge_count - 1
        /\ proposer' = [proposer EXCEPT ![p] = Disqualified(proposer[p])]
      BY <1>1, <1>5 DEF SettleSuccessful, CanSettleSuccessful, ToppedUp, OracleAccount
  <2>2. /\ Disqualified(proposer[p]).disqualified
        /\ Disqualified(proposer[p]).ai_finalized = proposer[p].ai_finalized
      BY <1>1, DisqualifiedEffect
  <2>3. /\ Proposed' = Proposed
        /\ Survivors' = Survivors \ {p} /\ p \in Survivors
        /\ Finalized' = Finalized
      BY <1>1, <1>5, <2>1, <2>2 DEF Proposed, Survivors, Finalized
  <2>4. Cardinality(Survivors)' = Cardinality(Survivors) - 1
      BY <2>3, FiniteAccounts, FS_RemoveElement
  <2> QED
      BY <1>2, <1>3, <2>1, <2>3, <2>4 DEF CountersAccurate, Settled
<1> QED
    BY <1>4, <1>5

LEMMA SettleFailedCounts ==
    ASSUME TypeOK, CountersAccurate, NEW p, SettleFailed(p)
    PROVE  CountersAccurate'
<1>1. oracle \in OracleAccount
    BY DEF TypeOK
<1>2. /\ oracle'.proposer_count = oracle.proposer_count
      /\ oracle'.surviving_count = oracle.surviving_count
      /\ oracle'.fact_count = oracle.fact_count
      /\ oracle'.settled_count = oracle.settled_count
      /\ oracle'.ai_finalized_count = oracle.ai_finalized_count
      /\ oracle'.open_challenge_count = oracle.open_challenge_count - 1
    BY <1>1 DEF SettleFailed, OracleAccount
<1>3. Cardinality(OpenMarkets)' = Cardinality(OpenMarkets) - 1
    BY ClosedMarket DEF SettleFailed, SettleableMarket
<1>4. proposer' = proposer /\ fact' = fact
    BY DEF SettleFailed
<1> QED
    BY <1>2, <1>3, <1>4 DEF CountersAccurate, Proposed, Survivors, Finalized, Settled

\* The steps that move only the phase, the clock and the totals.
PhaseMove ==
    \/ FinalizeProposals
    \/ AdvancePhase
    \/ FinalizeOracle
    \/ \E option \in Options : ResolveDeadend(option)
    \/ Tick
    \/ UNCHANGED vars

LEMMA PhaseMoveKeeps ==
    ASSUME TypeOK, PhaseMove
    PROVE  /\ UNCHANGED <<proposer, fact, ai_claim, market, kass.conditional>>
           /\ oracle'.proposer_count = oracle.proposer_count
           /\ oracle'.surviving_count = oracle.surviving_count
           /\ oracle'.fact_count = oracle.fact_count
           /\ oracle'.settled_count = oracle.settled_count
           /\ oracle'.ai_finalized_count = oracle.ai_finalized_count
           /\ oracle'.open_challenge_count = oracle.open_challenge_count
<1>1. oracle \in OracleAccount /\ kass \in KassLedger
    BY DEF TypeOK
<1>2. CASE FinalizeProposals
    <2>1. CASE \E option \in Options : FinalizeAgreedProposals(option)
        BY <1>1, <2>1 DEF FinalizeAgreedProposals, CanFinalizeAgreed, OracleAccount
    <2>2. CASE FinalizeDisputedProposals
        BY <1>1, <2>2 DEF FinalizeDisputedProposals, CanFinalizeDisputed, OracleAccount
    <2> QED
        BY <1>2, <2>1, <2>2 DEF FinalizeProposals
<1>3. CASE AdvancePhase
    BY <1>1, <1>3 DEF AdvancePhase, CanAdvancePhase, OracleAccount
<1>4. CASE Resolve
    BY <1>1, <1>4 DEF Resolve, CanResolve, BondsFor, OracleAccount
<1>5. CASE DeadEnd
    BY <1>1, <1>5 DEF DeadEnd, CanDeadEnd, Burn, CanBurn, OracleAccount, KassLedger
<1>6. CASE \E option \in Options : ResolveDeadend(option)
    BY <1>1, <1>6 DEF ResolveDeadend, OracleAccount
<1>7. CASE Tick
    BY <1>7 DEF Tick
<1>8. CASE UNCHANGED vars
    BY <1>8 DEF vars
<1> QED
    BY <1>2, <1>3, <1>4, <1>5, <1>6, <1>7, <1>8 DEF PhaseMove, FinalizeOracle

LEMMA PhaseMoveCounts ==
    ASSUME TypeOK, CountersAccurate, PhaseMove
    PROVE  CountersAccurate'
BY PhaseMoveKeeps
DEF CountersAccurate, Proposed, Survivors, Finalized, Settled, OpenMarkets

\* Every step is one of these.
LEMMA StepCases ==
    ASSUME TypeInv, [Next]_vars
    PROVE  \/ \E p \in Proposers, bond \in Bonds, option \in Options :
                  Propose(p, bond, option)
           \/ \E f \in Facts, stake \in Stakes : SubmitFact(f, stake)
           \/ \E f \in Facts, v \in Voters, kind \in {"approve", "duplicate"},
                 stake \in Stakes : VoteFact(f, v, kind, stake)
           \/ \E S \in SUBSET Proposed : SlashForNoFacts(S)
           \/ \E F \in SUBSET DOMAIN fact : SettleFacts(F)
           \/ \E p \in Proposed, option \in Options : SubmitAiClaim(p, option)
           \/ \E S \in SUBSET Proposed : FinalizeAiClaims(S)
           \/ \E p \in DOMAIN ai_claim, price \in Prices, question \in Questions :
                  OpenChallenge(p, question, price)
           \/ \E p \in Proposed : SettleSuccessful(p)
           \/ \E p \in Proposed : SettleFailed(p)
           \/ PhaseMove
<1>1. CASE PartyStep
  <2>1. DOMAIN ai_claim \subseteq Proposers
      BY DEF TypeInv, TypeOK, AccountsOf
  <2>2. \A p \in DOMAIN ai_claim : QuestionsFor[p] \subseteq Questions
      BY <2>1, DisputeAssumption
  <2> QED
      BY <1>1, <2>2 DEF PartyStep, PhaseMove
<1>2. CASE CrankStep
  <2>1. DOMAIN market \subseteq Proposed
      BY DEF TypeInv, AccountsLinked
  <2>2. CASE \E p \in DOMAIN market : SettleMarket(p)
      BY <2>1, <2>2 DEF SettleMarket, SettleChallenge
  <2> QED
      BY <1>2, <2>2 DEF CrankStep, FinalizeFacts, FinalizeClaims, PhaseMove
<1>3. CASE Tick \/ UNCHANGED vars
    BY <1>3 DEF PhaseMove
<1> QED
    BY <1>1, <1>2, <1>3 DEF Next

LEMMA CountersStep ==
    ASSUME TypeInv, CountersAccurate, [Next]_vars
    PROVE  CountersAccurate'
<1>1. TypeOK
    BY DEF TypeInv
<1> QED
    BY <1>1, StepCases, ProposeCounts, SubmitFactCounts, VoteFactCounts,
       SlashForNoFactsCounts, SettleFactsCounts, SubmitAiClaimCounts,
       FinalizeAiClaimsCounts, OpenChallengeCounts, SettleSuccessfulCounts,
       SettleFailedCounts, PhaseMoveCounts

-----------------------------------------------------------------------------
\* The accounts of the proposers, step by step

\* What submit_ai_claim does to one.
LEMMA ClaimedEffect ==
    ASSUME NEW a \in ProposerAccount, NEW option \in Options
    PROVE  /\ Claimed(a, option).claim_option = option
           /\ ~NoShow(Claimed(a, option))
           /\ Claimed(a, option).bond = a.bond
           /\ Claimed(a, option).disqualified = a.disqualified
           /\ Claimed(a, option).ai_finalized = a.ai_finalized
           /\ Claimed(a, option).slashed_amount = a.slashed_amount
<1>1. option # CLAIM_OPTION_NONE
    BY OptionsAssumption DEF Options, CLAIM_OPTION_NONE
<1> QED
    BY <1>1 DEF Claimed, NoShow, ProposerAccount

LEMMA NoFactsSlashEffect ==
    ASSUME NEW a \in ProposerAccount
    PROVE  /\ NoFactsSlash(a).disqualified
           /\ NoFactsSlash(a).bond = a.bond
           /\ NoFactsSlash(a).claim_option = a.claim_option
           /\ NoFactsSlash(a).ai_finalized = a.ai_finalized
           /\ NoFactsSlash(a).slashed_amount =
                  IF a.disqualified THEN a.slashed_amount ELSE a.bond
BY DEF NoFactsSlash, ProposerAccount

\* The step from a to b is one that a proposer's account may take: it is left
\* alone, it claims, it is finalized, or it is slashed for good.
AccountStep(a, b) ==
    \/ b = a
    \/ \E option \in Options : b = Claimed(a, option) /\ ~a.disqualified
    \/ b = AiFinalized(a) /\ ~a.ai_finalized
    \/ b = NoFactsSlash(a)
    \/ b = Disqualified(a) /\ ~a.disqualified

NewAccount(a) ==
    /\ a.bond \in Nat
    /\ a.claim_option = CLAIM_OPTION_NONE
    /\ ~a.ai_finalized
    /\ a.slashed_amount = 0

\* No step of the dispute takes any other with any of them.
LEMMA ProposersStep ==
    ASSUME TypeInv, [Next]_vars
    PROVE  /\ Proposed \subseteq Proposed'
           /\ \A p \in Proposed : AccountStep(proposer[p], proposer'[p])
           /\ \A p \in Proposed' \ Proposed : NewAccount(proposer'[p])
<1>1. TypeOK /\ DOMAIN proposer = Proposed
    BY DEF TypeInv, Proposed
<1>2. ASSUME NEW p, NEW bond \in Bonds, NEW option, Propose(p, bond, option)
      PROVE  /\ Proposed' = Proposed \cup {p}
             /\ \A q \in Proposed : proposer'[q] = proposer[q]
             /\ NewAccount(proposer'[p])
  <2>1. bond \in Nat
      BY DisputeAssumption, U64MaxAssumption DEF U64
  <2> QED
      BY <1>2, <2>1 DEF Propose, Create, Proposed, NewAccount
<1>3. ASSUME NEW S, SlashForNoFacts(S)
      PROVE  /\ Proposed' = Proposed
             /\ \A q \in Proposed :
                    proposer'[q] \in {proposer[q], NoFactsSlash(proposer[q])}
    BY <1>3 DEF SlashForNoFacts, CanSlashForNoFacts, PoolWithout, SurvivingWithout,
        UpdateAll, Proposed
<1>4. ASSUME NEW p \in Proposed, NEW option \in Options, SubmitAiClaim(p, option)
      PROVE  /\ Proposed' = Proposed /\ ~proposer[p].disqualified
             /\ \A q \in Proposed :
                    proposer'[q] = IF q = p THEN Claimed(proposer[p], option)
                                   ELSE proposer[q]
    BY <1>4, <1>1 DEF SubmitAiClaim, Proposed
<1>5. ASSUME NEW S, FinalizeAiClaims(S)
      PROVE  /\ Proposed' = Proposed
             /\ \A q \in Proposed :
                    \/ proposer'[q] = proposer[q]
                    \/ /\ proposer'[q] = AiFinalized(proposer[q])
                       /\ ~proposer[q].ai_finalized
    BY <1>5 DEF FinalizeAiClaims, CanFinalizeAiClaims, NoShowsIn, UpdateAll, Proposed
<1>6. ASSUME NEW p \in Proposed, SettleSuccessful(p)
      PROVE  /\ Proposed' = Proposed
             /\ \A q \in Proposed :
                    \/ proposer'[q] = proposer[q]
                    \/ /\ proposer'[q] = Disqualified(proposer[q])
                       /\ ~proposer[q].disqualified
  <2>1. CASE proposer[p].disqualified
      BY <1>6, <2>1 DEF SettleSuccessful, CanSettleSuccessful, ToppedUp, Proposed
  <2>2. CASE ~proposer[p].disqualified
    <3>1. proposer' = [proposer EXCEPT ![p] = Disqualified(proposer[p])]
        BY <1>6, <2>2 DEF SettleSuccessful, CanSettleSuccessful, ToppedUp
    <3> QED
        BY <1>1, <2>2, <3>1 DEF Proposed
  <2> QED
      BY <2>1, <2>2
<1>7. CASE proposer' = proposer
    BY <1>7 DEF Proposed, AccountStep
<1>8. PhaseMove => proposer' = proposer
    BY <1>1, PhaseMoveKeeps
<1> QED
    BY <1>2, <1>3, <1>4, <1>5, <1>6, <1>7, <1>8, StepCases
    DEF AccountStep, SubmitFact, VoteFact, SettleFacts, CanSettleFacts, OpenChallenge,
        SettleFailed

-----------------------------------------------------------------------------
\* Slashes

SlashOrdered(a) ==
    /\ a.slashed_amount <= a.bond
    /\ ~a.disqualified /\ ~a.ai_finalized => a.slashed_amount = 0

\* A step takes no more than the bond, and gives nothing back.
LEMMA AccountStepSlashes ==
    ASSUME NEW a \in ProposerAccount, NEW b, AccountStep(a, b), SlashOrdered(a)
    PROVE  /\ SlashOrdered(b)
           /\ b.bond = a.bond
           /\ b.slashed_amount >= a.slashed_amount
           /\ a.disqualified => b.disqualified
<1>1. a.bond \in Nat /\ a.slashed_amount \in Nat
    BY U64MaxAssumption DEF ProposerAccount, U64
<1>2. CASE b = a
    BY <1>1, <1>2 DEF SlashOrdered
<1>3. ASSUME NEW option \in Options, b = Claimed(a, option)
      PROVE  /\ SlashOrdered(b) /\ b.bond = a.bond
             /\ b.slashed_amount >= a.slashed_amount
             /\ a.disqualified => b.disqualified
    BY <1>1, <1>3, ClaimedEffect DEF SlashOrdered
<1>4. CASE b = AiFinalized(a) /\ ~a.ai_finalized
  <2>1. /\ b.ai_finalized /\ b.bond = a.bond
        /\ b.disqualified <=> (a.disqualified \/ NoShow(a))
        /\ b.slashed_amount = IF Penalised(a) THEN AiSlash(a) ELSE a.slashed_amount
      BY <1>4, AiFinalizedEffect
  <2>2. Penalised(a) => a.slashed_amount = 0
      BY <1>4 DEF Penalised, SlashOrdered
  <2>3. AiSlash(a) \in Nat /\ AiSlash(a) <= a.bond
      BY AiSlashTypes, U64MaxAssumption DEF U64
  <2> QED
      BY <1>1, <2>1, <2>2, <2>3 DEF SlashOrdered
<1>5. CASE b = NoFactsSlash(a)
    BY <1>1, <1>5, NoFactsSlashEffect DEF SlashOrdered
<1>6. CASE b = Disqualified(a) /\ ~a.disqualified
  <2>1. /\ KassFee(a) \in Nat /\ KassFee(a) <= a.bond
        /\ KassFee(a) <= a.bond - a.slashed_amount
      BY KassFeeTypes DEF SlashOrdered
  <2> QED
      BY <1>1, <1>6, <2>1, DisqualifiedEffect DEF SlashOrdered
<1> QED
    BY <1>2, <1>3, <1>4, <1>5, <1>6 DEF AccountStep

LEMMA SlashesStep ==
    ASSUME TypeInv, SlashesOrdered, [Next]_vars
    PROVE  SlashesOrdered'
<1>1. \A p \in Proposed : proposer[p] \in ProposerAccount
    BY DEF TypeInv, TypeOK, AccountsOf, Proposed
<1>2. \A p \in Proposed : SlashOrdered(proposer[p])
    BY DEF SlashesOrdered, SlashOrdered
<1>3. \A p \in Proposed : SlashOrdered(proposer'[p])
    BY <1>1, <1>2, ProposersStep, AccountStepSlashes
<1>4. \A p \in Proposed' \ Proposed : SlashOrdered(proposer'[p])
    BY ProposersStep DEF NewAccount, SlashOrdered
<1> QED
    BY <1>3, <1>4 DEF SlashesOrdered, SlashOrdered

-----------------------------------------------------------------------------
\* Claims

\* An account that is finalized and stands has a vote, after every step.
LEMMA AccountStepClaims ==
    ASSUME NEW a \in ProposerAccount, NEW b, AccountStep(a, b),
           a.ai_finalized /\ ~a.disqualified => ~NoShow(a)
    PROVE  b.ai_finalized /\ ~b.disqualified => ~NoShow(b)
<1>1. CASE b = a
    BY <1>1
<1>2. ASSUME NEW option \in Options, b = Claimed(a, option)
      PROVE  ~NoShow(b)
    BY <1>2, ClaimedEffect
<1>3. CASE b = AiFinalized(a)
    BY <1>3, AiFinalizedEffect DEF NoShow
<1>4. CASE b = NoFactsSlash(a)
    BY <1>4, NoFactsSlashEffect
<1>5. CASE b = Disqualified(a)
    BY <1>5, DisqualifiedEffect
<1> QED
    BY <1>1, <1>2, <1>3, <1>4, <1>5 DEF AccountStep

\* An AI claim is never closed in a dispute, nor its option changed.
LEMMA AiClaimsKept ==
    ASSUME TypeInv, [Next]_vars, NEW p \in DOMAIN ai_claim
    PROVE  p \in DOMAIN ai_claim' /\ ai_claim'[p].option = ai_claim[p].option
<1>1. ASSUME NEW q, NEW option, SubmitAiClaim(q, option)
      PROVE  p \in DOMAIN ai_claim' /\ ai_claim'[p] = ai_claim[p]
    BY <1>1 DEF SubmitAiClaim, Create
<1>2. ASSUME NEW q \in DOMAIN ai_claim, NEW question, NEW price,
             OpenChallenge(q, question, price)
      PROVE  p \in DOMAIN ai_claim' /\ ai_claim'[p].option = ai_claim[p].option
  <2>1. ai_claim[p] \in AiClaimAccount
      BY DEF TypeInv, TypeOK, AccountsOf
  <2>2. [ai_claim[p] EXCEPT !.challenged = TRUE].option = ai_claim[p].option
      BY <2>1 DEF AiClaimAccount
  <2> QED
      BY <1>2, <2>2 DEF OpenChallenge
<1>3. CASE ai_claim' = ai_claim
    BY <1>3
<1>4. PhaseMove => ai_claim' = ai_claim
    BY PhaseMoveKeeps DEF TypeInv
<1> QED
    BY <1>1, <1>2, <1>3, <1>4, StepCases
    DEF Propose, SubmitFact, VoteFact, SlashForNoFacts, CanSlashForNoFacts,
        PoolWithout, SurvivingWithout, SettleFacts, CanSettleFacts,
        FinalizeAiClaims, CanFinalizeAiClaims, NoShowsIn, SettleSuccessful,
        CanSettleSuccessful, ToppedUp, SettleFailed

\* A vote is only ever set by the instruction that publishes it.
LEMMA VotesArePublished ==
    ASSUME TypeInv, [Next]_vars, NEW p \in Proposed,
           proposer'[p].claim_option # proposer[p].claim_option
    PROVE  /\ p \in DOMAIN ai_claim'
           /\ proposer'[p].claim_option = ai_claim'[p].option
<1>1. /\ TypeOK
      /\ proposer[p] \in ProposerAccount
      /\ proposer \in [Proposed -> ProposerAccount]
    BY DEF TypeInv, TypeOK, AccountsOf, Proposed
<1>2. ASSUME NEW q \in Proposed, NEW o \in Options, SubmitAiClaim(q, o)
      PROVE  /\ p \in DOMAIN ai_claim'
             /\ proposer'[p].claim_option = ai_claim'[p].option
  <2>1. p = q
      BY <1>1, <1>2 DEF SubmitAiClaim
  <2>2. proposer'[p] = Claimed(proposer[p], o)
      BY <1>1, <1>2, <2>1 DEF SubmitAiClaim
  <2>3. proposer'[p].claim_option = o
      BY <1>1, <2>2, ClaimedEffect
  <2> QED
      BY <1>2, <2>1, <2>3 DEF SubmitAiClaim, Create
<1>3. ASSUME NEW S, SlashForNoFacts(S) PROVE FALSE
    BY <1>1, <1>3, NoFactsSlashEffect DEF SlashForNoFacts, CanSlashForNoFacts,
        PoolWithout, SurvivingWithout, UpdateAll, Proposed
<1>4. ASSUME NEW S, FinalizeAiClaims(S) PROVE FALSE
    BY <1>1, <1>4, AiFinalizedEffect DEF FinalizeAiClaims, CanFinalizeAiClaims,
        NoShowsIn, UpdateAll, Proposed
<1>5. ASSUME NEW q \in Proposed, SettleSuccessful(q) PROVE FALSE
  <2>1. Disqualified(proposer[q]).claim_option = proposer[q].claim_option
      BY <1>1, DisqualifiedEffect
  <2>2. proposer' \in {proposer, [proposer EXCEPT ![q] = Disqualified(proposer[q])]}
      BY <1>5 DEF SettleSuccessful, CanSettleSuccessful, ToppedUp
  <2> QED
      BY <1>1, <2>1, <2>2
<1>6. ASSUME NEW q, NEW bond, NEW option, Propose(q, bond, option) PROVE FALSE
    BY <1>6 DEF Propose, Create, Proposed
<1>7. proposer' # proposer
    OBVIOUS
<1>8. ~PhaseMove
    BY <1>1, <1>7, PhaseMoveKeeps
<1> QED
    BY <1>2, <1>3, <1>4, <1>5, <1>6, <1>7, <1>8, StepCases
    DEF SubmitFact, VoteFact, SettleFacts, CanSettleFacts, OpenChallenge, SettleFailed

LEMMA ClaimsStep ==
    ASSUME TypeInv, ClaimsMatch, [Next]_vars
    PROVE  ClaimsMatch'
<1>1. \A p \in Proposed : proposer[p] \in ProposerAccount
    BY DEF TypeInv, TypeOK, AccountsOf, Proposed
<1>2. ASSUME NEW p \in Proposed
      PROVE  proposer'[p].ai_finalized /\ ~proposer'[p].disqualified =>
                ~NoShow(proposer'[p])
    BY <1>1, <1>2, ProposersStep, AccountStepClaims DEF ClaimsMatch
<1>3. ASSUME NEW p \in Proposed, ~NoShow(proposer'[p])
      PROVE  /\ p \in DOMAIN ai_claim'
             /\ proposer'[p].claim_option = ai_claim'[p].option
  <2>1. CASE proposer'[p].claim_option = proposer[p].claim_option
      BY <1>3, <2>1, AiClaimsKept DEF ClaimsMatch, NoShow
  <2>2. CASE proposer'[p].claim_option # proposer[p].claim_option
      BY <2>2, VotesArePublished
  <2> QED
      BY <2>1, <2>2
<1>4. \A p \in Proposed' \ Proposed :
          NoShow(proposer'[p]) /\ ~proposer'[p].ai_finalized
    BY ProposersStep DEF NewAccount, NoShow
<1> QED
    BY <1>2, <1>3, <1>4 DEF ClaimsMatch, NoShow

-----------------------------------------------------------------------------
\* Phases

\* How each instruction moves the phase.
LEMMA PhaseStep ==
    ASSUME TypeInv, [Next]_vars
    PROVE  \/ oracle'.phase = oracle.phase
           \/ oracle.phase = "Proposal" /\ oracle'.phase \in {"FactProposal", "Resolved"}
           \/ oracle.phase = "FactProposal" /\ oracle'.phase = "FactVoting"
           \/ oracle.phase = "FactVoting" /\ oracle'.phase \in {"AiClaim", "InvalidDeadend"}
           \/ /\ oracle.phase = "AiClaim" /\ oracle'.phase = "Challenge"
              /\ \E S \in SUBSET Proposed : FinalizeAiClaims(S)
              /\ oracle'.ai_finalized_count = oracle'.proposer_count
           \/ /\ oracle.phase = "Challenge" /\ oracle'.phase \in TerminalPhases
              /\ oracle.open_challenge_count = 0
           \/ oracle.phase = "InvalidDeadend" /\ oracle'.phase = "Resolved"
<1>1. oracle \in OracleAccount
    BY DEF TypeInv, TypeOK
<1> USE <1>1 DEF OracleAccount
<1>2. ASSUME NEW p, NEW bond, NEW option, Propose(p, bond, option)
      PROVE  oracle'.phase = oracle.phase
    BY <1>2 DEF Propose
<1>3. ASSUME NEW f, NEW stake, SubmitFact(f, stake)
      PROVE  oracle'.phase = oracle.phase
    BY <1>3 DEF SubmitFact
<1>4. ASSUME NEW f, NEW v, NEW kind, NEW stake, VoteFact(f, v, kind, stake)
      PROVE  oracle'.phase = oracle.phase
    BY <1>4 DEF VoteFact
<1>5. ASSUME NEW S, SlashForNoFacts(S)
      PROVE  oracle.phase = "FactVoting" /\ oracle'.phase \in {oracle.phase, "InvalidDeadend"}
    BY <1>5 DEF SlashForNoFacts, CanSlashForNoFacts, PoolWithout, SurvivingWithout,
        FactVotingClosed
<1>6. ASSUME NEW F, SettleFacts(F)
      PROVE  oracle.phase = "FactVoting" /\ oracle'.phase \in {oracle.phase, "AiClaim"}
    BY <1>6 DEF SettleFacts, CanSettleFacts, FactVotingClosed
<1>7. ASSUME NEW p, NEW option, SubmitAiClaim(p, option)
      PROVE  oracle'.phase = oracle.phase
    BY <1>7 DEF SubmitAiClaim
<1>8. ASSUME NEW S \in SUBSET Proposed, FinalizeAiClaims(S)
      PROVE  \/ oracle'.phase = oracle.phase
             \/ /\ oracle.phase = "AiClaim" /\ oracle'.phase = "Challenge"
                /\ oracle'.ai_finalized_count = oracle'.proposer_count
    BY <1>8 DEF FinalizeAiClaims, CanFinalizeAiClaims, NoShowsIn
<1>9. ASSUME NEW p, NEW question, NEW price, OpenChallenge(p, question, price)
      PROVE  oracle'.phase = oracle.phase
    BY <1>9 DEF OpenChallenge
<1>10. ASSUME NEW p, SettleSuccessful(p)
       PROVE  oracle'.phase = oracle.phase
  <2>1. CASE proposer[p].disqualified
      BY <1>10, <2>1 DEF SettleSuccessful, CanSettleSuccessful, ToppedUp
  <2>2. CASE ~proposer[p].disqualified
      BY <1>10, <2>2 DEF SettleSuccessful, CanSettleSuccessful, ToppedUp
  <2> QED
      BY <2>1, <2>2
<1>11. ASSUME NEW p, SettleFailed(p)
       PROVE  oracle'.phase = oracle.phase
    BY <1>11 DEF SettleFailed
<1>12. CASE FinalizeProposals
    BY <1>12 DEF FinalizeProposals, FinalizeAgreedProposals, CanFinalizeAgreed,
                 FinalizeDisputedProposals, CanFinalizeDisputed, ProposalsClosed
<1>13. CASE AdvancePhase
    BY <1>13 DEF AdvancePhase, CanAdvancePhase
<1>14. CASE Resolve
    BY <1>14 DEF Resolve, CanResolve, BondsFor, ChallengesClosed, TerminalPhases
<1>15. CASE DeadEnd
    BY <1>15 DEF DeadEnd, CanDeadEnd, ChallengesClosed, TerminalPhases
<1>16. CASE \E option \in Options : ResolveDeadend(option)
    BY <1>16 DEF ResolveDeadend
<1>17. CASE Tick \/ UNCHANGED vars
    BY <1>17 DEF Tick, vars
<1>18. CASE PhaseMove
    BY <1>12, <1>13, <1>14, <1>15, <1>16, <1>17, <1>18 DEF PhaseMove, FinalizeOracle
<1>19. CASE \E S \in SUBSET Proposed : FinalizeAiClaims(S)
    BY <1>8, <1>19
<1>20. CASE \/ \E S \in SUBSET Proposed : SlashForNoFacts(S)
            \/ \E F \in SUBSET DOMAIN fact : SettleFacts(F)
    BY <1>5, <1>6, <1>20
<1> QED
    BY <1>2, <1>3, <1>4, <1>7, <1>9, <1>10, <1>11, <1>18, <1>19, <1>20, StepCases

\* Markets appear and are settled in the Challenge phase only.
LEMMA MarketsOnlyInChallenge ==
    ASSUME TypeInv, [Next]_vars, market' # market
    PROVE  oracle.phase = "Challenge" /\ oracle'.phase = oracle.phase
<1>1. oracle \in OracleAccount /\ TypeOK
    BY DEF TypeInv, TypeOK
<1>2. ASSUME NEW p, NEW question, NEW price, OpenChallenge(p, question, price)
      PROVE  oracle.phase = "Challenge" /\ oracle'.phase = oracle.phase
    BY <1>1, <1>2 DEF OpenChallenge, OracleAccount
<1>3. ASSUME NEW p, SettleSuccessful(p)
      PROVE  oracle.phase = "Challenge" /\ oracle'.phase = oracle.phase
  <2>1. CASE proposer[p].disqualified
      BY <1>1, <1>3, <2>1 DEF SettleSuccessful, CanSettleSuccessful, ToppedUp,
          SettleableMarket, OracleAccount
  <2>2. CASE ~proposer[p].disqualified
      BY <1>1, <1>3, <2>2 DEF SettleSuccessful, CanSettleSuccessful, ToppedUp,
          SettleableMarket, OracleAccount
  <2> QED
      BY <2>1, <2>2
<1>4. ASSUME NEW p, SettleFailed(p)
      PROVE  oracle.phase = "Challenge" /\ oracle'.phase = oracle.phase
    BY <1>1, <1>4 DEF SettleFailed, SettleableMarket, OracleAccount
<1>5. ~PhaseMove
    BY <1>1, PhaseMoveKeeps
<1> QED
    BY <1>2, <1>3, <1>4, <1>5, StepCases
    DEF Propose, SubmitFact, VoteFact, SlashForNoFacts, CanSlashForNoFacts,
        PoolWithout, SurvivingWithout, SettleFacts, CanSettleFacts,
        SubmitAiClaim, FinalizeAiClaims, CanFinalizeAiClaims, NoShowsIn

\* The set of finalized proposers never shrinks in a dispute, and nobody joins
\* after the Proposal phase.
LEMMA FinalizedStep ==
    ASSUME TypeInv, [Next]_vars
    PROVE  /\ \A p \in Proposed : proposer[p].ai_finalized => proposer'[p].ai_finalized
           /\ oracle.phase # "Proposal" => Proposed' = Proposed
<1>1. \A p \in Proposed : proposer[p] \in ProposerAccount
    BY DEF TypeInv, TypeOK, AccountsOf, Proposed
<1>2. ASSUME NEW p \in Proposed, proposer[p].ai_finalized
      PROVE  proposer'[p].ai_finalized
    BY <1>1, <1>2, ProposersStep, ClaimedEffect, NoFactsSlashEffect,
       DisqualifiedEffect DEF AccountStep
<1>3. ASSUME NEW p, NEW bond, NEW option, Propose(p, bond, option)
      PROVE  oracle.phase = "Proposal"
    BY <1>3 DEF Propose
<1>4. ASSUME NEW S, SlashForNoFacts(S) PROVE Proposed' = Proposed
    BY <1>4 DEF SlashForNoFacts, CanSlashForNoFacts, PoolWithout, SurvivingWithout,
        UpdateAll, Proposed
<1>5. ASSUME NEW S, FinalizeAiClaims(S) PROVE Proposed' = Proposed
    BY <1>5 DEF FinalizeAiClaims, CanFinalizeAiClaims, NoShowsIn, UpdateAll, Proposed
<1>6. ASSUME NEW p, NEW option, SubmitAiClaim(p, option)
      PROVE  Proposed' = Proposed
    BY <1>6 DEF SubmitAiClaim, Proposed
<1>7. ASSUME NEW p, SettleSuccessful(p) PROVE Proposed' = Proposed
    BY <1>7 DEF SettleSuccessful, CanSettleSuccessful, ToppedUp, Proposed
<1>8. CASE proposer' = proposer
    BY <1>8 DEF Proposed
<1>9. PhaseMove => proposer' = proposer
    BY PhaseMoveKeeps DEF TypeInv
<1>10. oracle.phase # "Proposal" => Proposed' = Proposed
    BY <1>3, <1>4, <1>5, <1>6, <1>7, <1>8, <1>9, StepCases
    DEF SubmitFact, VoteFact, SettleFacts, CanSettleFacts, OpenChallenge, SettleFailed
<1> QED
    BY <1>2, <1>10

LEMMA PhasesStep ==
    ASSUME TypeInv, CountersAccurate, CountersAccurate', TypeInv',
           PhasesOrdered, [Next]_vars
    PROVE  PhasesOrdered'
<1> USE DEF TerminalPhases
<1>1. oracle'.phase = "Challenge" => Finalized' = Proposed'
  <2> SUFFICES ASSUME oracle'.phase = "Challenge" PROVE Finalized' = Proposed'
      OBVIOUS
  <2>1. CASE oracle.phase = "Challenge"
    <3>1. Finalized = Proposed /\ Proposed' = Proposed
        BY <2>1, FinalizedStep DEF PhasesOrdered
    <3> QED
        BY <3>1, FinalizedStep DEF Finalized
  <2>2. CASE oracle.phase # "Challenge"
    <3>1. oracle'.ai_finalized_count = oracle'.proposer_count
        BY <2>2, PhaseStep
    <3>2. Cardinality(Finalized') = Cardinality(Proposed')
        BY <3>1 DEF CountersAccurate
    <3>3. Finalized' \subseteq Proposed'
        BY DEF Finalized
    <3>4. IsFiniteSet(Proposed')
        BY DisputeAssumption, FS_Subset DEF TypeInv, TypeOK, AccountsOf, Proposed
    <3> QED
        BY <3>2, <3>3, <3>4, FS_Subset
  <2> QED
      BY <2>1, <2>2
<1>2. oracle'.phase \notin {"Challenge"} \cup TerminalPhases => DOMAIN market' = {}
  <2> SUFFICES ASSUME oracle'.phase \notin {"Challenge"} \cup TerminalPhases
               PROVE  DOMAIN market' = {}
      OBVIOUS
  <2>1. oracle.phase \notin {"Challenge"} \cup TerminalPhases
      BY PhaseStep
  <2>2. market' = market
      BY <2>1, MarketsOnlyInChallenge
  <2> QED
      BY <2>1, <2>2 DEF PhasesOrdered
<1>3. Terminal' => OpenMarkets' = {}
  <2> SUFFICES ASSUME Terminal' PROVE OpenMarkets' = {}
      OBVIOUS
  <2>1. oracle'.phase \in {"Resolved", "InvalidDeadend"}
      BY DEF Terminal
  <2>2. market' = market
      BY <2>1, MarketsOnlyInChallenge
  <2>3. OpenMarkets' = OpenMarkets
      BY <2>2 DEF OpenMarkets
  <2>4. CASE Terminal
      BY <2>3, <2>4 DEF PhasesOrdered
  <2>5. CASE oracle.phase = "Challenge"
    <3>1. oracle.open_challenge_count = 0
        BY <2>1, <2>5, PhaseStep
    <3>2. Cardinality(OpenMarkets) = 0
        BY <3>1 DEF CountersAccurate
    <3>3. OpenMarkets = {}
        BY <3>2, FiniteAccounts, FS_EmptySet DEF TypeInv
    <3> QED
        BY <2>3, <3>3
  <2>6. CASE oracle.phase \notin {"Challenge"} \cup TerminalPhases
    <3>1. DOMAIN market = {}
        BY <2>6 DEF PhasesOrdered
    <3> QED
        BY <2>3, <3>1 DEF OpenMarkets
  <2> QED
      BY <2>4, <2>5, <2>6 DEF Terminal
<1> QED
    BY <1>1, <1>2, <1>3 DEF PhasesOrdered

-----------------------------------------------------------------------------
\* Conditional vaults

\* A challenge fills its question's vault, and settling any challenge on the
\* question empties it.
LEMMA VaultsStep ==
    ASSUME TypeInv, VaultsBackChallenges, [Next]_vars
    PROVE  VaultsBackChallenges'
<1>1. /\ kass \in KassLedger /\ TypeOK
      /\ kass.conditional \in [Questions -> Nat]
      /\ OpenMarkets \subseteq DOMAIN market
    BY KassTypes DEF TypeInv, TypeOK, OpenMarkets
<1>2. ASSUME NEW p \in DOMAIN ai_claim, NEW question \in Questions, NEW price,
             OpenChallenge(p, question, price)
      PROVE  VaultsBackChallenges'
  <2> SUFFICES ASSUME NEW bond, bond = proposer[p].bond,
                      NEW m, m = [question |-> question,
                                  challenger_usdc |-> RequiredUsdc(bond, price),
                                  twap_end |-> now + TwapWindow, settled |-> FALSE]
               PROVE  VaultsBackChallenges'
      OBVIOUS
  <2>1. kass'.conditional = [kass.conditional EXCEPT ![question] = @ + bond]
      BY <1>1, <1>2 DEF OpenChallenge, KassLedger
  <2>2. market' = Create(market, p, m) /\ p \notin DOMAIN market
      BY <1>2 DEF OpenChallenge
  <2>3. /\ OpenMarkets' = OpenMarkets \cup {p}
        /\ market'[p].question = question
        /\ \A other \in OpenMarkets : market'[other] = market[other]
      BY <2>2 DEF OpenMarkets, Create
  <2>4. \A q \in Questions \ {question} : kass'.conditional[q] = kass.conditional[q]
      BY <1>1, <2>1
  <2> QED
      BY <2>3, <2>4 DEF VaultsBackChallenges
<1>3. ASSUME NEW p \in OpenMarkets, CloseMarket(p),
             kass'.conditional = [kass.conditional EXCEPT ![market[p].question] = 0]
      PROVE  VaultsBackChallenges'
  <2>1. /\ OpenMarkets' = OpenMarkets \ {p}
        /\ \A other \in OpenMarkets \ {p} : market'[other] = market[other]
      BY <1>1, <1>3, ClosedMarket
  <2>2. \A q \in Questions :
            kass'.conditional[q] = IF q = market[p].question THEN 0
                                   ELSE kass.conditional[q]
      BY <1>1, <1>3
  <2> QED
      BY <2>1, <2>2 DEF VaultsBackChallenges
<1>4. ASSUME NEW p, SettleSuccessful(p)
      PROVE  VaultsBackChallenges'
  <2>1. p \in OpenMarkets /\ CloseMarket(p) /\ market[p].question \in Questions
        /\ RedeemedAt(market[p].question).stake_vault \in U64
      BY <1>1, <1>4
      DEF SettleSuccessful, CanSettleSuccessful, ToppedUp, SettleableMarket, TypeOK,
          AccountsOf, MarketAccount
  <2> SUFFICES ASSUME NEW r, r = RedeemedAt(market[p].question)
               PROVE  VaultsBackChallenges'
      OBVIOUS
  <2>2. /\ r \in KassLedger
        /\ r.conditional = [kass.conditional EXCEPT ![market[p].question] = 0]
      BY <1>1, <2>1, RedeemedTypes
  <2>3. kass'.conditional = r.conditional
      BY <1>4, <2>2 DEF SettleSuccessful, CanSettleSuccessful, ToppedUp, KassLedger
  <2> QED
      BY <1>3, <2>1, <2>2, <2>3
<1>5. ASSUME NEW p, SettleFailed(p)
      PROVE  VaultsBackChallenges'
  <2>1. p \in OpenMarkets /\ CloseMarket(p) /\ market[p].question \in Questions
        /\ RedeemedAt(market[p].question).stake_vault \in U64
        /\ kass' = RedeemedAt(market[p].question)
      BY <1>1, <1>5
      DEF SettleFailed, SettleableMarket, TypeOK, AccountsOf, MarketAccount
  <2> QED
      BY <1>1, <1>3, <2>1, RedeemedTypes
<1>6. CASE kass'.conditional = kass.conditional /\ market' = market
    BY <1>6 DEF VaultsBackChallenges, OpenMarkets
<1>7. PhaseMove => kass'.conditional = kass.conditional /\ market' = market
    BY <1>1, PhaseMoveKeeps
<1>8. ASSUME NEW amount, Deposit(amount) PROVE kass'.conditional = kass.conditional
    BY <1>1, <1>8 DEF Deposit, KassLedger
<1>9. ASSUME NEW amount, Burn(amount) PROVE kass'.conditional = kass.conditional
    BY <1>1, <1>9 DEF Burn, CanBurn, KassLedger
<1>10. ASSUME NEW S, SlashForNoFacts(S)
       PROVE  kass'.conditional = kass.conditional /\ market' = market
    BY <1>9, <1>10 DEF SlashForNoFacts, CanSlashForNoFacts, PoolWithout,
        SurvivingWithout
<1> QED
    BY <1>2, <1>4, <1>5, <1>6, <1>7, <1>8, <1>10, StepCases
    DEF Propose, SubmitFact, VoteFact, SettleFacts, CanSettleFacts, SubmitAiClaim,
        FinalizeAiClaims, CanFinalizeAiClaims, NoShowsIn

-----------------------------------------------------------------------------
\* The theorems

LEMMA DisputeInvInit == Init => DisputeInv
<1> SUFFICES ASSUME Init PROVE DisputeInv
    OBVIOUS
<1>1. /\ Proposed = {} /\ DOMAIN fact = {} /\ DOMAIN market = {}
      /\ Survivors = {} /\ Finalized = {} /\ Settled = {} /\ OpenMarkets = {}
    BY DEF Init, Proposed, Survivors, Finalized, Settled, OpenMarkets
<1>2. CountersAccurate
    BY <1>1, FS_EmptySet DEF Init, CountersAccurate
<1>3. ClaimsMatch /\ SlashesOrdered
    BY <1>1 DEF ClaimsMatch, SlashesOrdered
<1>4. PhasesOrdered
    BY <1>1 DEF Init, PhasesOrdered, Terminal, TerminalPhases
<1>5. VaultsBackChallenges
    BY DEF Init, VaultsBackChallenges
<1> QED
    BY <1>2, <1>3, <1>4, <1>5, TypeInvInit DEF DisputeInv

LEMMA DisputeInvStep == DisputeInv /\ [Next]_vars => DisputeInv'
<1> SUFFICES ASSUME DisputeInv, [Next]_vars PROVE DisputeInv'
    OBVIOUS
<1>1. TypeInv' /\ CountersAccurate'
    BY TypeInvStep, CountersStep DEF DisputeInv
<1> QED
    BY <1>1, ClaimsStep, SlashesStep, PhasesStep, VaultsStep DEF DisputeInv

LEMMA DisputeInvHolds == Spec => []DisputeInv
BY DisputeInvInit, DisputeInvStep, PTL DEF Spec

\* Every counter of the Oracle account counts the accounts it stands for, so
\* the finalizers that compare a count with a set complete exactly when they
\* should.
THEOREM CountersCount == Spec => []CountersAccurate
BY DisputeInvHolds, PTL DEF DisputeInv

\* While challenges may open, each survivor's vote is the AI claim it published.
THEOREM SurvivorsClaimed == Spec => []SurvivorsHaveClaimed
<1>1. DisputeInv => SurvivorsHaveClaimed
    BY DEF DisputeInv, SurvivorsHaveClaimed, Survivors, ClaimsMatch,
           PhasesOrdered, Finalized
<1> QED
    BY <1>1, DisputeInvHolds, PTL

\* A verdict, or a dead end, finds every challenge settled and every
\* conditional vault empty.
THEOREM VerdictAfterChallenges == Spec => []NoVerdictDuringChallenge
<1>1. DisputeInv => NoVerdictDuringChallenge
    BY DEF DisputeInv, NoVerdictDuringChallenge, PhasesOrdered, VaultsBackChallenges
<1> QED
    BY <1>1, DisputeInvHolds, PTL

\* Both halves of what makes a verdict count: votes that were published, and no
\* challenge that could still take one away (finalize_oracle.rs).
THEOREM VerdictEarned == Spec => []VerdictIsEarned
BY SurvivorsClaimed, VerdictAfterChallenges, PTL DEF VerdictIsEarned

\* No step gives back a slash or a disqualification, or slashes beyond the bond.
THEOREM SlashesNeverUndone == Spec => SlashesStand
<1> DEFINE Stand ==
      \A p \in Proposed :
        /\ proposer'[p].slashed_amount >= proposer[p].slashed_amount
        /\ proposer'[p].slashed_amount <= proposer[p].bond
        /\ proposer[p].disqualified => proposer'[p].disqualified
<1>1. DisputeInv /\ [Next]_vars => Stand
  <2> SUFFICES ASSUME DisputeInv, [Next]_vars, NEW p \in Proposed
               PROVE  /\ proposer'[p].slashed_amount >= proposer[p].slashed_amount
                      /\ proposer'[p].slashed_amount <= proposer[p].bond
                      /\ proposer[p].disqualified => proposer'[p].disqualified
      OBVIOUS
  <2>1. proposer[p] \in ProposerAccount
      BY DEF DisputeInv, TypeInv, TypeOK, AccountsOf, Proposed
  <2>2. SlashOrdered(proposer[p])
      BY DEF DisputeInv, SlashesOrdered, SlashOrdered
  <2>3. AccountStep(proposer[p], proposer'[p])
      BY ProposersStep DEF DisputeInv
  <2> QED
      BY <2>1, <2>2, <2>3, AccountStepSlashes DEF SlashOrdered
<1>2. DisputeInv /\ [Next]_vars => [Stand]_vars
    BY <1>1
<1> QED
    BY <1>2, DisputeInvHolds, PTL DEF Spec, SlashesStand

-----------------------------------------------------------------------------
\* The books: where the slashes went, and where the KASS is

\* What a challenger got of a bond, and what a fact forfeited.
PaidOut(a) == IF a.disqualified THEN a.bond - a.slashed_amount ELSE 0

Forfeited(a) ==
    IF a.settled /\ ~a.agreed /\ ~a.duplicate
    THEN a.stake + FloorFrac(a.approve_stake, FactVoteSlash)
    ELSE 0

SlashedBy == [p \in Proposed |-> proposer[p].slashed_amount]
PaidOutBy == [p \in Proposed |-> PaidOut(proposer[p])]
ForfeitedBy == [f \in DOMAIN fact |-> Forfeited(fact[f])]

\* Who has not been marked has lost nothing yet.
SlashesMarked ==
    \A p \in Proposed : ~proposer[p].slashed => proposer[p].slashed_amount = 0

\* A proposer with an open challenge still stands.
ChallengedStand == \A p \in OpenMarkets : ~proposer[p].disqualified

\* The flags of a fact are those of its settlement, after which nobody votes.
FactsInOrder ==
    /\ \A f \in DOMAIN fact : ~fact[f].settled => ~fact[f].agreed /\ ~fact[f].duplicate
    /\ Settled # {} => /\ oracle.phase \notin {"Proposal", "FactProposal"}
                       /\ oracle.phase = "FactVoting" => AfterEnd

OrderInv == SlashesMarked /\ ChallengedStand /\ FactsInOrder

Books ==
    /\ oracle.bond_pool = SumFunction(SlashedBy) + SumFunction(ForfeitedBy)
    /\ kass.challengers = SumFunction(PaidOutBy)
    /\ KassConserved

LEMMA MarkedStep ==
    ASSUME TypeInv, SlashesMarked, [Next]_vars
    PROVE  SlashesMarked'
<1>1. \A p \in Proposed : proposer[p] \in ProposerAccount
    BY DEF TypeInv, TypeOK, AccountsOf, Proposed
<1>2. ASSUME NEW a \in ProposerAccount, NEW b, AccountStep(a, b),
             ~a.slashed => a.slashed_amount = 0, ~b.slashed
      PROVE  b.slashed_amount = 0
  <2>1. CASE b = a
      BY <1>2, <2>1
  <2>2. ASSUME NEW option \in Options, b = Claimed(a, option)
        PROVE  b.slashed_amount = 0
      BY <1>2, <2>2 DEF Claimed, ProposerAccount
  <2>3. CASE b = AiFinalized(a)
      BY <1>2, <2>3 DEF AiFinalized, ProposerAccount
  <2>4. b # NoFactsSlash(a) /\ b # Disqualified(a)
      BY <1>2 DEF NoFactsSlash, Disqualified, ProposerAccount
  <2> QED
      BY <1>2, <2>1, <2>2, <2>3, <2>4 DEF AccountStep
<1> QED
    BY <1>1, <1>2, ProposersStep DEF SlashesMarked, NewAccount

LEMMA ChallengedStandStep ==
    ASSUME TypeInv, PhasesOrdered, ChallengedStand, [Next]_vars
    PROVE  ChallengedStand'
<1>1. TypeOK /\ proposer \in [Proposed -> ProposerAccount] /\ OpenMarkets \subseteq Proposed
    BY DEF TypeInv, TypeOK, AccountsOf, Proposed, OpenMarkets, AccountsLinked
<1>2. oracle.phase \notin {"Challenge"} \cup TerminalPhases =>
          OpenMarkets' = OpenMarkets /\ OpenMarkets = {}
    BY MarketsOnlyInChallenge DEF PhasesOrdered, OpenMarkets, TerminalPhases
<1>3. oracle.phase \notin {"Challenge"} \cup TerminalPhases => ChallengedStand'
    BY <1>2 DEF ChallengedStand
<1>4. ASSUME NEW p, NEW question, NEW price, OpenChallenge(p, question, price)
      PROVE  ChallengedStand'
  <2>1. OpenMarkets' = OpenMarkets \cup {p}
      BY <1>4 DEF OpenChallenge, Create, OpenMarkets
  <2> QED
      BY <1>4, <2>1 DEF OpenChallenge, ChallengedStand
<1>5. ASSUME NEW p \in Proposed, SettleSuccessful(p)
      PROVE  ChallengedStand'
  <2>1. p \in OpenMarkets /\ OpenMarkets' = OpenMarkets \ {p}
      BY <1>1, <1>5, ClosedMarket DEF SettleSuccessful, CanSettleSuccessful, ToppedUp,
          SettleableMarket
  <2>2. ~proposer[p].disqualified
      BY <2>1 DEF ChallengedStand
  <2>3. proposer' = [proposer EXCEPT ![p] = Disqualified(proposer[p])]
      BY <1>5, <2>2 DEF SettleSuccessful, CanSettleSuccessful, ToppedUp
  <2>4. \A q \in OpenMarkets \ {p} : proposer'[q] = proposer[q]
      BY <1>1, <2>3
  <2> QED
      BY <2>1, <2>4 DEF ChallengedStand
<1>6. ASSUME NEW p \in Proposed, SettleFailed(p)
      PROVE  ChallengedStand'
  <2>1. OpenMarkets' = OpenMarkets \ {p}
      BY <1>1, <1>6, ClosedMarket DEF SettleFailed, SettleableMarket
  <2> QED
      BY <1>6, <2>1 DEF SettleFailed, ChallengedStand
<1>7. CASE proposer' = proposer /\ market' = market
    BY <1>7 DEF ChallengedStand, OpenMarkets
<1>8. PhaseMove => proposer' = proposer /\ market' = market
    BY <1>1, PhaseMoveKeeps
<1>9. ASSUME NEW p, NEW bond, NEW option, Propose(p, bond, option) PROVE ChallengedStand'
    BY <1>9, <1>3 DEF Propose, TerminalPhases
<1>10. ASSUME NEW S, SlashForNoFacts(S) PROVE ChallengedStand'
    BY <1>10, <1>3 DEF SlashForNoFacts, CanSlashForNoFacts, PoolWithout,
        SurvivingWithout, FactVotingClosed, TerminalPhases
<1>11. ASSUME NEW p, NEW option, SubmitAiClaim(p, option) PROVE ChallengedStand'
    BY <1>11, <1>3 DEF SubmitAiClaim, TerminalPhases
<1>12. ASSUME NEW S, FinalizeAiClaims(S) PROVE ChallengedStand'
    BY <1>12, <1>3 DEF FinalizeAiClaims, CanFinalizeAiClaims, NoShowsIn, TerminalPhases
<1> QED
    BY <1>4, <1>5, <1>6, <1>7, <1>8, <1>9, <1>10, <1>11, <1>12, StepCases
    DEF SubmitFact, VoteFact, SettleFacts, CanSettleFacts

LEMMA SettledFactEffect ==
    ASSUME NEW a \in FactAccount, ~a.agreed, ~a.duplicate, ~a.settled
    PROVE  /\ SettledFact(a).settled
           /\ Forfeited(SettledFact(a)) = ForfeitedStake(a)
           /\ Forfeited(a) = 0
<1>1. CASE DuplicateDominant(a)
    BY <1>1 DEF SettledFact, Forfeited, ForfeitedStake, FactAccount
<1>2. CASE ~DuplicateDominant(a)
  <2>1. /\ SettledFact(a).settled /\ ~SettledFact(a).duplicate
        /\ SettledFact(a).agreed = IsAgreed(a)
        /\ SettledFact(a).stake = a.stake
        /\ SettledFact(a).approve_stake = a.approve_stake
      BY <1>2 DEF SettledFact, FactAccount
  <2> QED
      BY <1>2, <2>1 DEF Forfeited, ForfeitedStake
<1> QED
    BY <1>1, <1>2

LEMMA FactsInOrderStep ==
    ASSUME TypeInv, CountersAccurate, FactsInOrder, [Next]_vars
    PROVE  FactsInOrder'
<1>1. /\ TypeOK /\ oracle \in OracleAccount /\ now \in Nat /\ oracle.phase_ends_at \in Nat
      /\ fact \in [DOMAIN fact -> FactAccount]
    BY DEF TypeInv, TypeOK, AccountsOf, OracleAccount
<1>2. ASSUME NEW f, NEW stake, SubmitFact(f, stake)
      PROVE  FactsInOrder'
  <2>1. Settled = {} /\ Settled' = Settled
      BY <1>2 DEF SubmitFact, FactsInOrder, Settled, Create
  <2>2. \A g \in DOMAIN fact' : ~fact'[g].settled => ~fact'[g].agreed /\ ~fact'[g].duplicate
      BY <1>2 DEF SubmitFact, FactsInOrder, Create
  <2> QED
      BY <2>1, <2>2 DEF FactsInOrder
<1>3. ASSUME NEW f, NEW v, NEW kind, NEW stake, VoteFact(f, v, kind, stake)
      PROVE  FactsInOrder'
  <2>1. ~AfterEnd
      BY <1>1, <1>3 DEF VoteFact, BeforeEnd, AfterEnd
  <2>2. Settled = {}
      BY <1>3, <2>1 DEF VoteFact, FactsInOrder
  <2>3. f \in DOMAIN fact /\ fact[f] \in FactAccount
      BY <1>1, <1>3 DEF VoteFact
  <2>4. /\ Tallied(fact[f], kind, stake).settled = fact[f].settled
        /\ Tallied(fact[f], kind, stake).agreed = fact[f].agreed
        /\ Tallied(fact[f], kind, stake).duplicate = fact[f].duplicate
      BY <2>3 DEF Tallied, FactAccount
  <2>5. /\ DOMAIN fact' = DOMAIN fact
        /\ \A g \in DOMAIN fact : /\ fact'[g].settled = fact[g].settled
                                  /\ fact'[g].agreed = fact[g].agreed
                                  /\ fact'[g].duplicate = fact[g].duplicate
      BY <1>1, <1>3, <2>4 DEF VoteFact
  <2>6. Settled' = {}
      BY <2>2, <2>5 DEF Settled
  <2> QED
      BY <2>5, <2>6 DEF FactsInOrder
<1>4. ASSUME NEW F \in SUBSET DOMAIN fact, SettleFacts(F)
      PROVE  FactsInOrder'
  <2>1. /\ DOMAIN fact' = DOMAIN fact
        /\ \A f \in DOMAIN fact : fact'[f] = IF f \in F THEN SettledFact(fact[f])
                                             ELSE fact[f]
      BY <1>4 DEF SettleFacts, CanSettleFacts, UpdateAll
  <2>2. \A f \in F : SettledFact(fact[f]).settled
      BY <1>1, <1>4, SettledFactEffect DEF SettleFacts, CanSettleFacts, FactsInOrder
  <2>3. /\ oracle'.phase \in {"FactVoting", "AiClaim"}
        /\ oracle'.phase = "FactVoting" => oracle'.phase_ends_at = oracle.phase_ends_at
      BY <1>1, <1>4 DEF SettleFacts, CanSettleFacts, FactVotingClosed, OracleAccount
  <2>4. oracle'.phase = "FactVoting" => AfterEnd'
      BY <1>4, <2>3 DEF SettleFacts, CanSettleFacts, FactVotingClosed, AfterEnd
  <2> QED
      BY <2>1, <2>2, <2>3, <2>4 DEF FactsInOrder
<1>5. ASSUME fact' = fact, Settled = {} PROVE FactsInOrder'
    BY <1>5 DEF FactsInOrder, Settled
<1>6. ASSUME fact' = fact, oracle'.phase \notin {"Proposal", "FactProposal", "FactVoting"}
      PROVE  FactsInOrder'
    BY <1>6 DEF FactsInOrder
<1>7. ASSUME fact' = fact, oracle' = oracle, now' >= now, now' \in Nat
      PROVE  FactsInOrder'
    BY <1>1, <1>7 DEF FactsInOrder, Settled, AfterEnd
<1>8. oracle.phase \in {"Proposal", "FactProposal"} => Settled = {}
    BY DEF FactsInOrder
<1>9. CASE FinalizeProposals
    BY <1>1, <1>5, <1>8, <1>9, PhaseMoveKeeps
    DEF FinalizeProposals, FinalizeAgreedProposals, CanFinalizeAgreed,
        FinalizeDisputedProposals, CanFinalizeDisputed,
        ProposalsClosed, PhaseMove
<1>10. CASE AdvancePhase
    BY <1>5, <1>8, <1>10 DEF AdvancePhase, CanAdvancePhase
<1>11. CASE FinalizeOracle
  <2>1. fact' = fact
      BY <1>11 DEF FinalizeOracle, Resolve, CanResolve, BondsFor, DeadEnd, CanDeadEnd
  <2>2. oracle'.phase \in TerminalPhases
      BY <1>1, <1>11 DEF FinalizeOracle, Resolve, CanResolve, BondsFor, DeadEnd,
          CanDeadEnd, TerminalPhases, OracleAccount
  <2> QED
      BY <1>6, <2>1, <2>2 DEF TerminalPhases
<1>12. CASE \E option \in Options : ResolveDeadend(option)
  <2>1. fact' = fact /\ oracle'.phase = "Resolved"
      BY <1>1, <1>12 DEF ResolveDeadend, OracleAccount
  <2> QED
      BY <1>6, <2>1
<1>13. CASE Tick \/ UNCHANGED vars
    BY <1>1, <1>7, <1>13 DEF Tick, vars
<1>14. ASSUME NEW p, NEW bond, NEW option, Propose(p, bond, option) PROVE FactsInOrder'
    BY <1>5, <1>8, <1>14 DEF Propose
<1>15. ASSUME NEW S, SlashForNoFacts(S) PROVE FactsInOrder'
  <2>1. Cardinality(DOMAIN fact) = 0
      BY <1>15 DEF SlashForNoFacts, CanSlashForNoFacts, PoolWithout, SurvivingWithout,
          CountersAccurate
  <2>2. DOMAIN fact = {}
      BY <1>1, <2>1, FiniteAccounts, FS_EmptySet
  <2> QED
      BY <1>5, <1>15, <2>2 DEF SlashForNoFacts, CanSlashForNoFacts, PoolWithout,
          SurvivingWithout, Settled
<1>16. ASSUME NEW p, NEW option, SubmitAiClaim(p, option) PROVE FactsInOrder'
    BY <1>1, <1>7, <1>16 DEF SubmitAiClaim
<1>17. ASSUME NEW S, FinalizeAiClaims(S) PROVE FactsInOrder'
  <2>1. fact' = fact /\ oracle'.phase \in {"AiClaim", "Challenge"}
      BY <1>1, <1>17 DEF FinalizeAiClaims, CanFinalizeAiClaims, NoShowsIn, OracleAccount
  <2> QED
      BY <1>6, <2>1
<1>18. ASSUME market' # market, fact' = fact PROVE FactsInOrder'
    BY <1>6, <1>18, MarketsOnlyInChallenge
<1>19. ASSUME NEW p, NEW question, NEW price, OpenChallenge(p, question, price)
       PROVE  FactsInOrder'
  <2>1. fact' = fact /\ oracle'.phase = "Challenge"
      BY <1>1, <1>19 DEF OpenChallenge, OracleAccount
  <2> QED
      BY <1>6, <2>1
<1>20. ASSUME NEW p \in Proposed, SettleSuccessful(p) \/ SettleFailed(p)
       PROVE  FactsInOrder'
  <2>1. p \in DOMAIN market /\ ~market[p].settled /\ CloseMarket(p) /\ fact' = fact
      BY <1>20 DEF SettleSuccessful, CanSettleSuccessful, ToppedUp, SettleFailed,
          SettleableMarket, OpenMarkets
  <2>2. market[p] \in MarketAccount
      BY <1>1, <2>1 DEF TypeOK, AccountsOf
  <2>3. market' # market
      BY <2>1, <2>2 DEF CloseMarket, MarketAccount
  <2> QED
      BY <1>18, <2>1, <2>3
<1> QED
    BY <1>2, <1>3, <1>4, <1>9, <1>10, <1>11, <1>12, <1>13, <1>14, <1>15, <1>16,
       <1>17, <1>19, <1>20, StepCases DEF PhaseMove

-----------------------------------------------------------------------------
\* The sums of the books, and how batches of accounts move them

LEMMA SumOver ==
    ASSUME NEW f, NEW S, DOMAIN f = S
    PROVE  SumFunction(f) = SumFunctionOnSet(f, S)
BY DEF SumFunction

LEMMA BookSums ==
    ASSUME TypeOK
    PROVE  /\ SumFunction(SlashedBy) = SumFunctionOnSet(SlashedBy, Proposed)
           /\ SumFunction(PaidOutBy) = SumFunctionOnSet(PaidOutBy, Proposed)
           /\ SumFunction(ForfeitedBy) = SumFunctionOnSet(ForfeitedBy, DOMAIN fact)
           /\ IntOn(SlashedBy, Proposed) /\ IntOn(PaidOutBy, Proposed)
           /\ IntOn(ForfeitedBy, DOMAIN fact)
           /\ SumFunction(SlashedBy) \in Int /\ SumFunction(PaidOutBy) \in Int
           /\ SumFunction(ForfeitedBy) \in Int
<1>1. /\ SumFunction(SlashedBy) = SumFunctionOnSet(SlashedBy, Proposed)
      /\ SumFunction(PaidOutBy) = SumFunctionOnSet(PaidOutBy, Proposed)
      /\ SumFunction(ForfeitedBy) = SumFunctionOnSet(ForfeitedBy, DOMAIN fact)
    BY DEF SumFunction, SlashedBy, PaidOutBy, ForfeitedBy
<1>2. \A p \in Proposed : proposer[p].bond \in Int /\ proposer[p].slashed_amount \in Int
    BY U64MaxAssumption DEF TypeOK, AccountsOf, Proposed, ProposerAccount, U64
<1>3. IntOn(SlashedBy, Proposed) /\ IntOn(PaidOutBy, Proposed)
    BY <1>2 DEF IntOn, SlashedBy, PaidOutBy, PaidOut
<1>4. IntOn(ForfeitedBy, DOMAIN fact)
  <2> SUFFICES ASSUME NEW f \in DOMAIN fact PROVE Forfeited(fact[f]) \in Int
      BY DEF IntOn, ForfeitedBy
  <2>1. fact[f].stake \in Nat /\ fact[f].approve_stake \in Nat
      BY U64MaxAssumption DEF TypeOK, AccountsOf, FactAccount, U64
  <2>2. FloorFrac(fact[f].approve_stake, FactVoteSlash) \in Nat
      BY <2>1, FloorFracBounds, DisputeAssumption
  <2> QED
      BY <2>1, <2>2 DEF Forfeited
<1> QED
    BY <1>1, <1>3, <1>4, FiniteAccounts, SumInt

\* A batch S of proposers loses d[p] each, and all others nothing.
LEMMA SlashBatch ==
    ASSUME TypeOK, NEW S \in SUBSET Proposed, NEW d, IntOn(d, S), Proposed' = Proposed,
           \A p \in S : proposer'[p].slashed_amount = proposer[p].slashed_amount + d[p],
           \A p \in Proposed \ S : proposer'[p] = proposer[p]
    PROVE  SumFunction(SlashedBy)' = SumFunction(SlashedBy) + SumFunctionOnSet(d, S)
<1>1. /\ \A p \in S : SlashedBy'[p] = SlashedBy[p] + d[p]
      /\ \A p \in Proposed \ S : SlashedBy'[p] = SlashedBy[p]
    BY DEF SlashedBy
<1>2. SumFunctionOnSet(SlashedBy', Proposed)
        = SumFunctionOnSet(SlashedBy, Proposed) + SumFunctionOnSet(d, S)
  <2>1. IsFiniteSet(Proposed) /\ IntOn(SlashedBy, Proposed)
      BY FiniteAccounts, BookSums
  <2> QED
      BY <1>1, <2>1, SumBatch
<1>3. SumFunction(SlashedBy)' = SumFunctionOnSet(SlashedBy', Proposed)
    BY SumOver DEF SlashedBy
<1> QED
    BY <1>2, <1>3, BookSums

\* One proposer p loses d, and its challenger gets c of the bond.
LEMMA SlashOne ==
    ASSUME TypeOK, NEW p \in Proposed, NEW c \in Int, NEW d \in Int, Proposed' = Proposed,
           proposer'[p].slashed_amount = proposer[p].slashed_amount + d,
           PaidOut(proposer'[p]) = PaidOut(proposer[p]) + c,
           \A q \in Proposed \ {p} : proposer'[q] = proposer[q]
    PROVE  /\ SumFunction(SlashedBy)' = SumFunction(SlashedBy) + d
           /\ SumFunction(PaidOutBy)' = SumFunction(PaidOutBy) + c
<1>1. /\ SlashedBy'[p] = SlashedBy[p] + d /\ PaidOutBy'[p] = PaidOutBy[p] + c
      /\ \A q \in Proposed \ {p} : SlashedBy'[q] = SlashedBy[q] /\ PaidOutBy'[q] = PaidOutBy[q]
    BY DEF SlashedBy, PaidOutBy
<1>2. IsFiniteSet(Proposed) /\ IntOn(SlashedBy, Proposed) /\ IntOn(PaidOutBy, Proposed)
    BY FiniteAccounts, BookSums
<1>3. /\ SlashedBy[p] \in Int /\ PaidOutBy[p] \in Int
    BY <1>2 DEF IntOn
<1>4. SlashedBy'[p] \in Int /\ PaidOutBy'[p] \in Int
    BY <1>1, <1>3
<1>5. SumFunctionOnSet(SlashedBy', Proposed)
        = SumFunctionOnSet(SlashedBy, Proposed) - SlashedBy[p] + SlashedBy'[p]
    BY <1>1, <1>2, <1>4, SumUpdate
<1>6. SumFunctionOnSet(PaidOutBy', Proposed)
        = SumFunctionOnSet(PaidOutBy, Proposed) - PaidOutBy[p] + PaidOutBy'[p]
    BY <1>1, <1>2, <1>4, SumUpdate
<1>7. /\ SumFunction(SlashedBy)' = SumFunctionOnSet(SlashedBy', Proposed)
      /\ SumFunction(PaidOutBy)' = SumFunctionOnSet(PaidOutBy', Proposed)
    BY SumOver DEF SlashedBy, PaidOutBy
<1> QED
    BY <1>1, <1>3, <1>5, <1>6, <1>7, BookSums

LEMMA SameProposers ==
    ASSUME proposer' = proposer
    PROVE  /\ SumFunction(SlashedBy)' = SumFunction(SlashedBy)
           /\ SumFunction(PaidOutBy)' = SumFunction(PaidOutBy)
<1>1. SlashedBy' = SlashedBy /\ PaidOutBy' = PaidOutBy
    BY DEF SlashedBy, PaidOutBy, Proposed
<1> QED
    BY <1>1

LEMMA SameFacts ==
    ASSUME fact' = fact
    PROVE  SumFunction(ForfeitedBy)' = SumFunction(ForfeitedBy)
<1>1. ForfeitedBy' = ForfeitedBy
    BY DEF ForfeitedBy
<1> QED
    BY <1>1

\* The conditional vaults, when one of them changes.
LEMMA ConditionalSums ==
    ASSUME kass \in KassLedger
    PROVE  /\ SumFunction(kass.conditional) = SumFunctionOnSet(kass.conditional, Questions)
           /\ IntOn(kass.conditional, Questions)
           /\ SumFunction(kass.conditional) \in Int
<1>1. kass.conditional \in [Questions -> Nat] /\ IsFiniteSet(Questions)
    BY KassTypes, DisputeAssumption
<1>2. IntOn(kass.conditional, Questions)
    BY <1>1 DEF IntOn
<1> QED
    BY <1>1, <1>2, SumInt DEF SumFunction

LEMMA ConditionalMoves ==
    ASSUME kass \in KassLedger, NEW q \in Questions, NEW v \in Int,
           kass'.conditional = [kass.conditional EXCEPT ![q] = v]
    PROVE  SumFunction(kass'.conditional)
             = SumFunction(kass.conditional) - kass.conditional[q] + v
<1>1. kass.conditional \in [Questions -> Nat] /\ IsFiniteSet(Questions)
    BY KassTypes, DisputeAssumption
<1>2. /\ kass'.conditional[q] = v
      /\ \A other \in Questions \ {q} : kass'.conditional[other] = kass.conditional[other]
    BY <1>1
<1>3. SumFunctionOnSet(kass'.conditional, Questions)
        = SumFunctionOnSet(kass.conditional, Questions) - kass.conditional[q] + v
    BY <1>1, <1>2, SumUpdate, ConditionalSums
<1>4. SumFunction(kass'.conditional) = SumFunctionOnSet(kass'.conditional, Questions)
    BY <1>1 DEF SumFunction
<1> QED
    BY <1>3, <1>4, ConditionalSums

-----------------------------------------------------------------------------
\* Each instruction keeps the books

\* A deposit: the total and the vault grow alike.
LEMMA DepositConserves ==
    ASSUME TypeOK, KassConserved, NEW amount \in U64, Deposit(amount),
           oracle'.total_oracle_stake = oracle.total_oracle_stake + amount
    PROVE  KassConserved' /\ kass'.challengers = kass.challengers
<1>1. /\ kass \in KassLedger /\ kass.stake_vault \in Int /\ kass.burned \in Int
      /\ kass.challengers \in Int /\ oracle.total_oracle_stake \in Int
      /\ RewardEmission \in Int /\ amount \in Int
    BY U64MaxAssumption, KassTypes, DisputeAssumption DEF TypeOK, OracleAccount, U64
<1>2. /\ kass'.stake_vault = kass.stake_vault + amount
      /\ kass'.conditional = kass.conditional
      /\ kass'.burned = kass.burned /\ kass'.challengers = kass.challengers
    BY <1>1 DEF Deposit, KassLedger
<1> DEFINE vault == kass.stake_vault
           split == SumFunction(kass.conditional)
           burned == kass.burned
           paid == kass.challengers
           total == oracle.total_oracle_stake
<1>3. /\ vault \in Int /\ split \in Int /\ burned \in Int /\ paid \in Int /\ total \in Int
      /\ vault + split + burned + paid = total + RewardEmission
    BY <1>1, ConditionalSums DEF KassConserved
<1> HIDE DEF vault, split, burned, paid, total
<1>4. (vault + amount) + split + burned + paid = (total + amount) + RewardEmission
    BY <1>1, <1>3
<1> QED
    BY <1>2, <1>4 DEF KassConserved, vault, split, burned, paid, total

LEMMA BurnConserves ==
    ASSUME TypeOK, KassConserved, NEW amount, Burn(amount),
           oracle'.total_oracle_stake = oracle.total_oracle_stake
    PROVE  KassConserved' /\ kass'.challengers = kass.challengers
<1>1. /\ kass \in KassLedger /\ kass.stake_vault \in Int /\ kass.burned \in Int
      /\ kass.challengers \in Int /\ oracle.total_oracle_stake \in Int
      /\ RewardEmission \in Int /\ amount \in Int
    BY U64MaxAssumption, KassTypes, DisputeAssumption DEF TypeOK, OracleAccount, U64,
        Burn, CanBurn
<1>2. /\ kass'.stake_vault = kass.stake_vault - amount
      /\ kass'.conditional = kass.conditional
      /\ kass'.burned = kass.burned + amount /\ kass'.challengers = kass.challengers
    BY <1>1 DEF Burn, CanBurn, KassLedger
<1> QED
    BY <1>1, <1>2, ConditionalSums DEF KassConserved

LEMMA SameKassConserves ==
    ASSUME KassConserved, kass' = kass,
           oracle'.total_oracle_stake = oracle.total_oracle_stake
    PROVE  KassConserved' /\ kass'.challengers = kass.challengers
<1> QED
    BY Zenon DEF KassConserved

LEMMA ProposeBooks ==
    ASSUME TypeOK, Books, NEW p, NEW bond \in Bonds, NEW option, Propose(p, bond, option)
    PROVE  Books'
<1>1. oracle \in OracleAccount /\ bond \in U64
    BY DisputeAssumption DEF TypeOK
<1>2. /\ oracle'.bond_pool = oracle.bond_pool
      /\ oracle'.total_oracle_stake = oracle.total_oracle_stake + bond
    BY <1>1 DEF Propose, OracleAccount
<1>3. KassConserved' /\ kass'.challengers = kass.challengers
    BY <1>1, <1>2, DepositConserves DEF Propose, Books
<1>4. SumFunction(ForfeitedBy)' = SumFunction(ForfeitedBy)
    BY SameFacts DEF Propose
<1>5. /\ p \notin Proposed /\ Proposed' = Proposed \cup {p}
      /\ SlashedBy'[p] = 0 /\ PaidOutBy'[p] = 0
      /\ \A q \in Proposed : SlashedBy'[q] = SlashedBy[q] /\ PaidOutBy'[q] = PaidOutBy[q]
    BY DEF Propose, Create, Proposed, SlashedBy, PaidOutBy, PaidOut
<1>6. IsFiniteSet(Proposed) /\ IntOn(SlashedBy, Proposed) /\ IntOn(PaidOutBy, Proposed)
    BY FiniteAccounts, BookSums
<1>7. /\ SumFunctionOnSet(SlashedBy', Proposed \cup {p})
           = SumFunctionOnSet(SlashedBy, Proposed) + 0
      /\ SumFunctionOnSet(PaidOutBy', Proposed \cup {p})
           = SumFunctionOnSet(PaidOutBy, Proposed) + 0
    BY <1>5, <1>6, SumCredit
<1>8. /\ SumFunction(SlashedBy)' = SumFunctionOnSet(SlashedBy', Proposed \cup {p})
      /\ SumFunction(PaidOutBy)' = SumFunctionOnSet(PaidOutBy', Proposed \cup {p})
    BY <1>5, SumOver DEF SlashedBy, PaidOutBy
<1> QED
    BY <1>2, <1>3, <1>4, <1>7, <1>8, BookSums DEF Books

LEMMA SubmitFactBooks ==
    ASSUME TypeOK, Books, NEW f, NEW stake \in Stakes, SubmitFact(f, stake)
    PROVE  Books'
<1>1. oracle \in OracleAccount /\ stake \in U64
    BY DisputeAssumption DEF TypeOK
<1>2. /\ oracle'.bond_pool = oracle.bond_pool
      /\ oracle'.total_oracle_stake = oracle.total_oracle_stake + stake
    BY <1>1 DEF SubmitFact, OracleAccount
<1>3. KassConserved' /\ kass'.challengers = kass.challengers
    BY <1>1, <1>2, DepositConserves DEF SubmitFact, Books
<1>4. /\ SumFunction(SlashedBy)' = SumFunction(SlashedBy)
      /\ SumFunction(PaidOutBy)' = SumFunction(PaidOutBy)
    BY SameProposers DEF SubmitFact
<1>5. /\ f \notin DOMAIN fact /\ DOMAIN fact' = DOMAIN fact \cup {f}
      /\ ForfeitedBy'[f] = 0
      /\ \A g \in DOMAIN fact : ForfeitedBy'[g] = ForfeitedBy[g]
    BY DEF SubmitFact, Create, ForfeitedBy, Forfeited
<1>6. IsFiniteSet(DOMAIN fact) /\ IntOn(ForfeitedBy, DOMAIN fact)
    BY FiniteAccounts, BookSums
<1>7. SumFunctionOnSet(ForfeitedBy', DOMAIN fact \cup {f})
        = SumFunctionOnSet(ForfeitedBy, DOMAIN fact) + 0
  <2> SUFFICES ASSUME NEW F, F = DOMAIN fact, NEW by, by = ForfeitedBy,
                      NEW next, next = ForfeitedBy'
               PROVE  SumFunctionOnSet(next, F \cup {f}) = SumFunctionOnSet(by, F) + 0
      OBVIOUS
  <2>1. /\ IsFiniteSet(F) /\ IntOn(by, F) /\ f \notin F /\ next[f] = 0
        /\ \A g \in F \ {f} : next[g] = by[g]
      BY <1>5, <1>6
  <2> QED
      BY <2>1, SumCredit
<1>8. SumFunction(ForfeitedBy)' = SumFunctionOnSet(ForfeitedBy', DOMAIN fact \cup {f})
    BY <1>5, SumOver DEF ForfeitedBy
<1> QED
    BY <1>2, <1>3, <1>4, <1>7, <1>8, BookSums DEF Books

\* The fact that is voted on is not settled, so it forfeits nothing yet.
LEMMA VoteFactBooks ==
    ASSUME TypeOK, FactsInOrder, Books, NEW f, NEW v, NEW kind, NEW stake \in Stakes,
           VoteFact(f, v, kind, stake)
    PROVE  Books'
<1>1. /\ oracle \in OracleAccount /\ stake \in U64 /\ now \in Nat
      /\ oracle.phase_ends_at \in Nat
      /\ f \in DOMAIN fact /\ fact[f] \in FactAccount
    BY DisputeAssumption DEF TypeOK, AccountsOf, VoteFact, OracleAccount
<1>2. /\ oracle'.bond_pool = oracle.bond_pool
      /\ oracle'.total_oracle_stake = oracle.total_oracle_stake + stake
    BY <1>1 DEF VoteFact, OracleAccount
<1>3. KassConserved' /\ kass'.challengers = kass.challengers
    BY <1>1, <1>2, DepositConserves DEF VoteFact, Books
<1>4. /\ SumFunction(SlashedBy)' = SumFunction(SlashedBy)
      /\ SumFunction(PaidOutBy)' = SumFunction(PaidOutBy)
    BY SameProposers DEF VoteFact
<1>5. ~fact[f].settled
    BY <1>1 DEF VoteFact, FactsInOrder, Settled, BeforeEnd, AfterEnd
<1>6. ~Tallied(fact[f], kind, stake).settled
    BY <1>1, <1>5 DEF Tallied, FactAccount
<1>7. Forfeited(fact[f]) = 0 /\ Forfeited(Tallied(fact[f], kind, stake)) = 0
    BY <1>5, <1>6 DEF Forfeited
<1>8. fact' = [fact EXCEPT ![f] = Tallied(fact[f], kind, stake)]
    BY DEF VoteFact
<1>9. ForfeitedBy' = ForfeitedBy
    BY <1>1, <1>7, <1>8 DEF ForfeitedBy
<1> QED
    BY <1>2, <1>3, <1>4, <1>9 DEF Books

LEMMA SlashForNoFactsBooks ==
    ASSUME TypeOK, SlashesMarked, Books, NEW S \in SUBSET Proposed, SlashForNoFacts(S)
    PROVE  Books'
<1> DEFINE d == [p \in S |-> IF proposer[p].disqualified THEN 0 ELSE proposer[p].bond]
<1>1. oracle \in OracleAccount /\ proposer \in [Proposed -> ProposerAccount]
    BY DEF TypeOK, AccountsOf, Proposed
<1>2. /\ oracle'.bond_pool = oracle.bond_pool + BondsOf(NotDisqualified(S))
      /\ oracle'.total_oracle_stake = oracle.total_oracle_stake
    BY <1>1 DEF SlashForNoFacts, CanSlashForNoFacts, PoolWithout, SurvivingWithout,
        OracleAccount
<1>3. /\ Proposed' = Proposed
      /\ \A p \in S : proposer'[p] = NoFactsSlash(proposer[p])
      /\ \A p \in Proposed \ S : proposer'[p] = proposer[p]
    BY DEF SlashForNoFacts, CanSlashForNoFacts, PoolWithout, SurvivingWithout,
        UpdateAll, Proposed
<1>4. \A p \in S : /\ proposer[p] \in ProposerAccount /\ proposer[p].bond \in Int
                   /\ proposer[p].slashed_amount = 0
    BY <1>1, U64MaxAssumption DEF SlashForNoFacts, CanSlashForNoFacts, PoolWithout,
        SurvivingWithout, SlashesMarked, ProposerAccount, U64
<1>5. \A p \in S : /\ proposer'[p].slashed_amount = proposer[p].slashed_amount + d[p]
                   /\ PaidOut(proposer'[p]) = PaidOut(proposer[p])
  <2> SUFFICES ASSUME NEW p \in S
               PROVE  /\ proposer'[p].slashed_amount = proposer[p].slashed_amount + d[p]
                      /\ PaidOut(proposer'[p]) = PaidOut(proposer[p])
      OBVIOUS
  <2>1. /\ proposer'[p] = NoFactsSlash(proposer[p])
        /\ proposer[p] \in ProposerAccount /\ proposer[p].bond \in Int
        /\ proposer[p].slashed_amount = 0
      BY <1>3, <1>4
  <2>2. d[p] = IF proposer[p].disqualified THEN 0 ELSE proposer[p].bond
      OBVIOUS
  <2> HIDE DEF d
  <2>3. /\ proposer'[p].slashed_amount = d[p]
        /\ proposer'[p].disqualified
        /\ proposer'[p].bond = proposer[p].bond
      BY <2>1, <2>2, NoFactsSlashEffect
  <2>4. PaidOut(proposer'[p]) = PaidOut(proposer[p])
      BY <2>1, <2>2, <2>3 DEF PaidOut
  <2>5. d[p] \in Int
      BY <2>1, <2>2
  <2> QED
      BY <2>1, <2>3, <2>4, <2>5
<1>6. IntOn(d, S)
    BY <1>4 DEF IntOn
<1>7. SumFunctionOnSet(d, S) = BondsOf(NotDisqualified(S))
  <2>1. NotDisqualified(S) \in SUBSET S /\ IsFiniteSet(S)
      BY FiniteAccounts, FS_Subset DEF NotDisqualified
  <2>2. \A p \in S \ NotDisqualified(S) : d[p] = 0
      BY DEF NotDisqualified
  <2>3. SumFunctionOnSet(d, S) = SumFunctionOnSet(d, NotDisqualified(S))
      BY <1>6, <2>1, <2>2, SumSupport
  <2> DEFINE bonds == [p \in NotDisqualified(S) |-> proposer[p].bond]
  <2>4. \A p \in NotDisqualified(S) : d[p] = bonds[p]
      BY DEF NotDisqualified
  <2>5. IsFiniteSet(NotDisqualified(S))
      BY <2>1, FS_Subset
  <2>6. BondsOf(NotDisqualified(S)) = SumFunctionOnSet(bonds, NotDisqualified(S))
      BY SumOver DEF BondsOf
  <2> HIDE DEF d, bonds
  <2> QED
      BY <2>3, <2>4, <2>5, <2>6, SumCongruence
<1>8. SumFunction(SlashedBy)' = SumFunction(SlashedBy) + SumFunctionOnSet(d, S)
  <2> HIDE DEF d
  <2> QED
      BY <1>3, <1>5, <1>6, SlashBatch
<1>9. PaidOutBy' = PaidOutBy
    BY <1>3, <1>5 DEF PaidOutBy
<1>10. SumFunction(ForfeitedBy)' = SumFunction(ForfeitedBy)
    BY SameFacts DEF SlashForNoFacts, CanSlashForNoFacts, PoolWithout, SurvivingWithout
<1>11. KassConserved' /\ kass'.challengers = kass.challengers
    BY <1>2, BurnConserves, SameKassConserves DEF SlashForNoFacts, CanSlashForNoFacts,
        PoolWithout, SurvivingWithout, Books
<1>12. BondsOf(NotDisqualified(S)) \in Int
  <2>1. SumFunctionOnSet(d, S) \in Int
    <3>1. IsFiniteSet(S)
        BY FiniteAccounts, FS_Subset
    <3> HIDE DEF d
    <3> QED
        BY <1>6, <3>1, SumInt
  <2> QED
      BY <1>7, <2>1
<1> HIDE DEF d
<1> QED
    BY <1>2, <1>7, <1>8, <1>9, <1>10, <1>11, <1>12, BookSums DEF Books

LEMMA SettleFactsBooks ==
    ASSUME TypeOK, FactsInOrder, Books, NEW F \in SUBSET DOMAIN fact, SettleFacts(F)
    PROVE  Books'
<1> DEFINE d == [f \in F |-> ForfeitedStake(fact[f])]
<1>1. oracle \in OracleAccount /\ fact \in [DOMAIN fact -> FactAccount]
    BY DEF TypeOK, AccountsOf
<1>2. /\ oracle'.bond_pool = oracle.bond_pool + ForfeitedIn(F)
      /\ oracle'.total_oracle_stake = oracle.total_oracle_stake
      /\ kass' = kass /\ proposer' = proposer
    BY <1>1 DEF SettleFacts, CanSettleFacts, OracleAccount
<1>3. /\ DOMAIN fact' = DOMAIN fact
      /\ \A f \in F : fact'[f] = SettledFact(fact[f])
      /\ \A f \in DOMAIN fact \ F : fact'[f] = fact[f]
    BY DEF SettleFacts, CanSettleFacts, UpdateAll
<1>4. \A f \in F : /\ Forfeited(fact'[f]) = ForfeitedStake(fact[f])
                   /\ Forfeited(fact[f]) = 0
    BY <1>1, <1>3, SettledFactEffect DEF SettleFacts, CanSettleFacts, FactsInOrder
<1>5. \A f \in F : ForfeitedStake(fact[f]) \in Int
  <2> SUFFICES ASSUME NEW f \in F PROVE ForfeitedStake(fact[f]) \in Int
      OBVIOUS
  <2>1. fact[f].stake \in Nat /\ fact[f].approve_stake \in Nat
      BY <1>1, U64MaxAssumption DEF FactAccount, U64
  <2>2. FloorFrac(fact[f].approve_stake, FactVoteSlash) \in Nat
      BY <2>1, FloorFracBounds, DisputeAssumption
  <2> QED
      BY <2>1, <2>2 DEF ForfeitedStake
<1>6. /\ \A f \in F : ForfeitedBy'[f] = ForfeitedBy[f] + d[f]
      /\ \A f \in DOMAIN fact \ F : ForfeitedBy'[f] = ForfeitedBy[f]
    BY <1>3, <1>4, <1>5 DEF ForfeitedBy
<1>7. IntOn(d, F) /\ IsFiniteSet(F)
    BY <1>5, FiniteAccounts, FS_Subset DEF IntOn
<1>8. SumFunctionOnSet(d, F) = ForfeitedIn(F)
    BY SumOver DEF ForfeitedIn
<1>9. SumFunctionOnSet(ForfeitedBy', DOMAIN fact)
        = SumFunctionOnSet(ForfeitedBy, DOMAIN fact) + SumFunctionOnSet(d, F)
  <2>1. IsFiniteSet(DOMAIN fact) /\ IntOn(ForfeitedBy, DOMAIN fact)
      BY FiniteAccounts, BookSums
  <2> HIDE DEF d
  <2> QED
      BY <1>6, <1>7, <2>1, SumBatch
<1>10. SumFunction(ForfeitedBy)' = SumFunctionOnSet(ForfeitedBy', DOMAIN fact)
    BY <1>3, SumOver DEF ForfeitedBy
<1>11. SumFunctionOnSet(d, F) \in Int
  <2> HIDE DEF d
  <2> QED
      BY <1>7, SumInt
<1> HIDE DEF d
<1> QED
    BY <1>2, <1>8, <1>9, <1>10, <1>11, SameProposers, SameKassConserves, BookSums
    DEF Books

LEMMA SubmitAiClaimBooks ==
    ASSUME TypeOK, Books, NEW p \in Proposed, NEW option \in Options,
           SubmitAiClaim(p, option)
    PROVE  Books'
<1>1. proposer \in [Proposed -> ProposerAccount]
    BY DEF TypeOK, AccountsOf, Proposed
<1>2. /\ Claimed(proposer[p], option).bond = proposer[p].bond
      /\ Claimed(proposer[p], option).disqualified = proposer[p].disqualified
      /\ Claimed(proposer[p], option).slashed_amount = proposer[p].slashed_amount
    BY <1>1, ClaimedEffect
<1>3. SlashedBy' = SlashedBy /\ PaidOutBy' = PaidOutBy
    BY <1>1, <1>2 DEF SubmitAiClaim, SlashedBy, PaidOutBy, PaidOut, Proposed
<1>4. oracle' = oracle /\ kass' = kass /\ fact' = fact
    BY DEF SubmitAiClaim
<1> QED
    BY <1>3, <1>4, SameFacts, SameKassConserves DEF Books

LEMMA FinalizeAiClaimsBooks ==
    ASSUME TypeOK, SlashesOrdered, Books, NEW S \in SUBSET Proposed, FinalizeAiClaims(S)
    PROVE  Books'
<1> DEFINE d == [p \in S |-> AiSlash(proposer[p])]
<1>1. oracle \in OracleAccount /\ proposer \in [Proposed -> ProposerAccount]
    BY DEF TypeOK, AccountsOf, Proposed
<1>2. /\ oracle'.bond_pool = oracle.bond_pool + AiSlashesOf(S)
      /\ oracle'.total_oracle_stake = oracle.total_oracle_stake
      /\ kass' = kass /\ fact' = fact
    BY <1>1 DEF FinalizeAiClaims, CanFinalizeAiClaims, NoShowsIn, OracleAccount
<1>3. /\ Proposed' = Proposed
      /\ \A p \in S : proposer'[p] = AiFinalized(proposer[p])
      /\ \A p \in Proposed \ S : proposer'[p] = proposer[p]
    BY DEF FinalizeAiClaims, CanFinalizeAiClaims, NoShowsIn, UpdateAll, Proposed
<1>4. ASSUME NEW p \in S
      PROVE  /\ proposer'[p].slashed_amount = proposer[p].slashed_amount + d[p]
             /\ PaidOut(proposer'[p]) = PaidOut(proposer[p])
  <2> DEFINE a == proposer[p]
  <2>1. a \in ProposerAccount /\ ~a.ai_finalized
      BY <1>1 DEF FinalizeAiClaims, CanFinalizeAiClaims, NoShowsIn
  <2>2. a.bond \in Int /\ a.slashed_amount \in Int
      BY <2>1, U64MaxAssumption DEF ProposerAccount, U64
  <2>3. ~a.disqualified => a.slashed_amount = 0
      BY <2>1 DEF SlashesOrdered
  <2>4. /\ proposer'[p].bond = a.bond
        /\ proposer'[p].disqualified <=> (a.disqualified \/ NoShow(a))
        /\ proposer'[p].slashed_amount = IF Penalised(a) THEN AiSlash(a) ELSE a.slashed_amount
      BY <1>3, <2>1, AiFinalizedEffect
  <2>5. AiSlash(a) \in Int
      BY <2>1, AiSlashTypes, U64MaxAssumption DEF U64
  <2>6. proposer'[p].slashed_amount = a.slashed_amount + AiSlash(a)
      BY <2>2, <2>3, <2>4, <2>5 DEF Penalised, AiSlash
  <2>7. PaidOut(proposer'[p]) = PaidOut(a)
    <3>1. CASE a.disqualified
        BY <2>4, <3>1 DEF PaidOut, Penalised
    <3>2. CASE ~a.disqualified /\ NoShow(a)
        BY <2>2, <2>4, <3>2 DEF PaidOut, Penalised, AiSlash
    <3>3. CASE ~a.disqualified /\ ~NoShow(a)
        BY <2>4, <3>3 DEF PaidOut
    <3> QED
        BY <3>1, <3>2, <3>3
  <2> QED
      BY <2>6, <2>7
<1>5. IntOn(d, S) /\ IsFiniteSet(S)
    BY <1>1, AiSlashTypes, U64MaxAssumption, FiniteAccounts, FS_Subset DEF IntOn, U64
<1>6. SumFunctionOnSet(d, S) = AiSlashesOf(S)
    BY SumOver DEF AiSlashesOf
<1>7. PaidOutBy' = PaidOutBy
    BY <1>3, <1>4 DEF PaidOutBy
<1> HIDE DEF d
<1>8. SumFunction(SlashedBy)' = SumFunction(SlashedBy) + SumFunctionOnSet(d, S)
    BY <1>3, <1>4, <1>5, SlashBatch
<1>9. SumFunctionOnSet(d, S) \in Int
    BY <1>5, SumInt
<1> QED
    BY <1>2, <1>6, <1>7, <1>8, <1>9, SameFacts, SameKassConserves, BookSums DEF Books

LEMMA OpenChallengeBooks ==
    ASSUME TypeOK, Books, NEW p \in Proposed, NEW question \in Questions, NEW price,
           OpenChallenge(p, question, price)
    PROVE  Books'
<1> DEFINE bond == proposer[p].bond
<1>1. /\ oracle \in OracleAccount /\ kass \in KassLedger
      /\ kass.stake_vault \in Int /\ kass.burned \in Int
      /\ kass.challengers \in Int /\ oracle.total_oracle_stake \in Int
      /\ RewardEmission \in Int /\ bond \in Int
      /\ kass.conditional \in [Questions -> Nat]
    BY U64MaxAssumption, KassTypes, DisputeAssumption
    DEF TypeOK, OracleAccount, AccountsOf, Proposed, ProposerAccount, U64
<1>2. /\ oracle'.bond_pool = oracle.bond_pool
      /\ oracle'.total_oracle_stake = oracle.total_oracle_stake
    BY <1>1 DEF OpenChallenge, OracleAccount
<1> HIDE DEF bond
<1>3. kass' = [kass EXCEPT !.stake_vault = @ - bond, !.conditional[question] = @ + bond]
    BY DEF OpenChallenge, bond
<1>4. /\ kass'.stake_vault = kass.stake_vault - bond
      /\ kass'.conditional = [kass.conditional EXCEPT ![question] = @ + bond]
      /\ kass'.burned = kass.burned /\ kass'.challengers = kass.challengers
    BY <1>1, <1>3 DEF KassLedger
<1>5. /\ kass.conditional[question] + bond \in Int
      /\ kass'.conditional
           = [kass.conditional EXCEPT ![question] = kass.conditional[question] + bond]
    BY <1>1, <1>4
<1>6. SumFunction(kass'.conditional)
        = SumFunction(kass.conditional) - kass.conditional[question]
            + (kass.conditional[question] + bond)
    BY <1>1, <1>5, ConditionalMoves
<1>7. kass.conditional[question] \in Int /\ SumFunction(kass.conditional) \in Int
    BY <1>1, ConditionalSums
<1>8. SumFunction(kass'.conditional) = SumFunction(kass.conditional) + bond
    BY <1>1, <1>6, <1>7
<1>9. KassConserved'
    BY <1>1, <1>2, <1>4, <1>7, <1>8 DEF KassConserved, Books
<1>10. proposer' = proposer /\ fact' = fact
    BY DEF OpenChallenge
<1> QED
    BY <1>2, <1>4, <1>9, <1>10, SameProposers, SameFacts DEF Books

\* A settlement brings the bond back to the vault, and takes the fee from it.
LEMMA RedeemConserves ==
    ASSUME TypeOK, KassConserved, NEW question \in Questions, NEW fee \in Int,
           RedeemedAt(question).stake_vault \in U64,
           oracle'.total_oracle_stake = oracle.total_oracle_stake,
           kass'.stake_vault = RedeemedAt(question).stake_vault - fee,
           kass'.conditional = RedeemedAt(question).conditional,
           kass'.burned = kass.burned,
           kass'.challengers = kass.challengers + fee
    PROVE  KassConserved'
<1>1. /\ oracle \in OracleAccount /\ kass \in KassLedger
      /\ kass.stake_vault \in Int /\ kass.burned \in Int
      /\ kass.challengers \in Int /\ oracle.total_oracle_stake \in Int
      /\ RewardEmission \in Int /\ kass.conditional \in [Questions -> Nat]
    BY U64MaxAssumption, KassTypes, DisputeAssumption DEF TypeOK, OracleAccount, U64
<1>2. /\ kass'.stake_vault = kass.stake_vault + kass.conditional[question] - fee
      /\ kass'.conditional = [kass.conditional EXCEPT ![question] = 0]
    BY <1>1, RedeemedTypes
<1>3. SumFunction(kass'.conditional)
        = SumFunction(kass.conditional) - kass.conditional[question] + 0
    BY <1>1, <1>2, ConditionalMoves
<1>4. kass.conditional[question] \in Int /\ SumFunction(kass.conditional) \in Int
    BY <1>1, ConditionalSums
<1> QED
    BY <1>1, <1>2, <1>3, <1>4 DEF KassConserved

LEMMA SettleFailedBooks ==
    ASSUME TypeOK, Books, NEW p, SettleFailed(p)
    PROVE  Books'
<1>1. /\ p \in OpenMarkets /\ market[p].question \in Questions
      /\ RedeemedAt(market[p].question).stake_vault \in U64
      /\ kass' = RedeemedAt(market[p].question)
      /\ proposer' = proposer /\ fact' = fact
    BY DEF SettleFailed, SettleableMarket, TypeOK, AccountsOf, MarketAccount,
        OpenMarkets
<1>2. oracle \in OracleAccount /\ kass \in KassLedger
    BY DEF TypeOK
<1>3. /\ oracle'.bond_pool = oracle.bond_pool
      /\ oracle'.total_oracle_stake = oracle.total_oracle_stake
    BY <1>2 DEF SettleFailed, OracleAccount
<1>4. /\ RedeemedAt(market[p].question).challengers = kass.challengers
      /\ RedeemedAt(market[p].question).burned = kass.burned
      /\ kass.challengers \in Int
      /\ RedeemedAt(market[p].question).stake_vault \in Int
    BY <1>1, <1>2, KassTypes, U64MaxAssumption DEF RedeemedAt, KassLedger, U64
<1>5. KassConserved'
    BY <1>1, <1>3, <1>4, RedeemConserves DEF Books
<1> QED
    BY <1>1, <1>3, <1>4, <1>5, SameProposers, SameFacts DEF Books

LEMMA SettleSuccessfulBooks ==
    ASSUME TypeOK, SlashesOrdered, ChallengedStand, Books, NEW p \in Proposed,
           SettleSuccessful(p)
    PROVE  Books'
<1> DEFINE a == proposer[p]
           fee == KassFee(a)
           r == RedeemedAt(market[p].question)
<1>1. /\ p \in OpenMarkets /\ market[p].question \in Questions
      /\ r.stake_vault \in U64 /\ fact' = fact
      /\ kass' = [r EXCEPT !.stake_vault = @ - fee, !.challengers = @ + fee]
    BY DEF SettleSuccessful, CanSettleSuccessful, ToppedUp, SettleableMarket, TypeOK,
        AccountsOf, MarketAccount, OpenMarkets
<1>2. oracle \in OracleAccount /\ kass \in KassLedger /\ a \in ProposerAccount
      /\ proposer \in [Proposed -> ProposerAccount]
    BY DEF TypeOK, AccountsOf, Proposed
<1>3. ~a.disqualified
    BY <1>1 DEF ChallengedStand
<1>4. /\ oracle'.bond_pool = oracle.bond_pool + SaturatingSub(a.bond - fee, a.slashed_amount)
      /\ oracle'.total_oracle_stake = oracle.total_oracle_stake
      /\ proposer' = [proposer EXCEPT ![p] = Disqualified(a)]
    BY <1>2, <1>3 DEF SettleSuccessful, CanSettleSuccessful, ToppedUp, OracleAccount
<1>5. /\ a.bond \in Int /\ a.slashed_amount \in Int /\ a.slashed_amount <= a.bond
    BY <1>2, U64MaxAssumption DEF ProposerAccount, U64, SlashesOrdered
<1>6. fee \in Int /\ fee <= a.bond - a.slashed_amount
    BY <1>2, <1>5, KassFeeTypes
<1>7. SaturatingSub(a.bond - fee, a.slashed_amount) = a.bond - fee - a.slashed_amount
    BY <1>5, <1>6 DEF SaturatingSub
<1>8. /\ Proposed' = Proposed
      /\ proposer'[p] = Disqualified(a)
      /\ \A q \in Proposed \ {p} : proposer'[q] = proposer[q]
    BY <1>2, <1>4 DEF Proposed
<1>9. /\ proposer'[p].disqualified /\ proposer'[p].bond = a.bond
      /\ proposer'[p].slashed_amount = a.bond - fee
    BY <1>2, <1>8, DisqualifiedEffect
<1>10. /\ r \in KassLedger /\ r.challengers = kass.challengers
    BY <1>1, <1>2, RedeemedTypes
<1>11. r.burned = kass.burned
    BY <1>2 DEF RedeemedAt, KassLedger
<1>12. r.challengers \in Int /\ r.stake_vault \in Int
    BY <1>10, KassTypes, U64MaxAssumption DEF U64
<1> HIDE DEF r, fee, a
<1>13. /\ kass'.stake_vault = r.stake_vault - fee
       /\ kass'.conditional = r.conditional
       /\ kass'.burned = r.burned
       /\ kass'.challengers = r.challengers + fee
    BY <1>1, <1>10 DEF KassLedger
<1>14. KassConserved'
    BY <1>1, <1>4, <1>6, <1>10, <1>11, <1>13, RedeemConserves DEF Books, r
<1>15. /\ PaidOut(proposer'[p]) = fee /\ PaidOut(a) = 0
       /\ proposer'[p].slashed_amount = a.slashed_amount + (a.bond - fee - a.slashed_amount)
    BY <1>3, <1>5, <1>6, <1>9 DEF PaidOut
<1>16. /\ SumFunction(SlashedBy)' = SumFunction(SlashedBy) + (a.bond - fee - a.slashed_amount)
       /\ SumFunction(PaidOutBy)' = SumFunction(PaidOutBy) + fee
  <2>1. (a.bond - fee - a.slashed_amount) \in Int /\ PaidOut(proposer'[p]) = PaidOut(a) + fee
      BY <1>5, <1>6, <1>15
  <2> QED
      BY <1>6, <1>8, <1>15, <2>1, SlashOne DEF a
<1> QED
    BY <1>1, <1>4, <1>5, <1>6, <1>7, <1>10, <1>12, <1>13, <1>14, <1>16, SameFacts, BookSums
    DEF Books

LEMMA PhaseMoveBooks ==
    ASSUME TypeOK, Books, PhaseMove
    PROVE  Books'
<1>1. oracle \in OracleAccount /\ proposer' = proposer /\ fact' = fact
    BY PhaseMoveKeeps DEF TypeOK
<1>2. /\ oracle'.bond_pool = oracle.bond_pool
      /\ oracle'.total_oracle_stake = oracle.total_oracle_stake
      /\ kass' = kass \/ \E amount : Burn(amount)
  <2>1. CASE FinalizeProposals
      BY <1>1, <2>1 DEF FinalizeProposals, FinalizeAgreedProposals, CanFinalizeAgreed,
                        FinalizeDisputedProposals, CanFinalizeDisputed, OracleAccount
  <2>2. CASE AdvancePhase
      BY <1>1, <2>2 DEF AdvancePhase, CanAdvancePhase, OracleAccount
  <2>3. CASE Resolve
      BY <1>1, <2>3 DEF Resolve, CanResolve, BondsFor, OracleAccount
  <2>4. CASE DeadEnd
      BY <1>1, <2>4 DEF DeadEnd, CanDeadEnd, OracleAccount
  <2>5. CASE \E option \in Options : ResolveDeadend(option)
      BY <1>1, <2>5 DEF ResolveDeadend, OracleAccount
  <2>6. CASE Tick \/ UNCHANGED vars
      BY <2>6 DEF Tick, vars
  <2> QED
      BY <2>1, <2>2, <2>3, <2>4, <2>5, <2>6 DEF PhaseMove, FinalizeOracle
<1>3. KassConserved' /\ kass'.challengers = kass.challengers
    BY <1>2, BurnConserves, SameKassConserves DEF Books
<1> QED
    BY <1>1, <1>2, <1>3, SameProposers, SameFacts DEF Books

-----------------------------------------------------------------------------
\* The books balance

BooksInv == DisputeInv /\ OrderInv /\ Books

LEMMA BooksInvInit == Init => BooksInv
<1> SUFFICES ASSUME Init PROVE BooksInv
    OBVIOUS
<1>1. DisputeInv /\ TypeOK
    BY DisputeInvInit DEF DisputeInv, TypeInv
<1>2. Proposed = {} /\ DOMAIN fact = {} /\ Settled = {} /\ OpenMarkets = {}
    BY DEF Init, Proposed, Settled, OpenMarkets
<1>3. OrderInv
    BY <1>2 DEF OrderInv, SlashesMarked, ChallengedStand, FactsInOrder
<1>4. /\ SumFunction(SlashedBy) = 0 /\ SumFunction(PaidOutBy) = 0
      /\ SumFunction(ForfeitedBy) = 0
    BY <1>1, <1>2, BookSums, SumEmpty
<1>5. SumFunction(kass.conditional) = 0
  <2>1. kass.conditional = [q \in Questions |-> 0]
      BY DEF Init
  <2>2. \A q \in Questions : kass.conditional[q] = 0
      BY <2>1
  <2>3. SumFunctionOnSet(kass.conditional, Questions) = 0
      BY <2>2, SumZero, DisputeAssumption
  <2> QED
      BY <1>1, <2>3, ConditionalSums DEF TypeOK
<1>6. RewardEmission \in Int
    BY DisputeAssumption, U64MaxAssumption DEF U64
<1>7. /\ oracle.bond_pool = 0 /\ oracle.total_oracle_stake = 0
      /\ kass.stake_vault = RewardEmission /\ kass.burned = 0 /\ kass.challengers = 0
    BY DEF Init
<1>8. Books
    BY <1>4, <1>5, <1>6, <1>7 DEF Books, KassConserved
<1> QED
    BY <1>1, <1>3, <1>8 DEF BooksInv

LEMMA BooksInvStep == BooksInv /\ [Next]_vars => BooksInv'
<1> SUFFICES ASSUME BooksInv, [Next]_vars PROVE BooksInv'
    OBVIOUS
<1>1. /\ DisputeInv /\ OrderInv /\ Books
      /\ TypeInv /\ TypeOK /\ CountersAccurate /\ SlashesOrdered /\ PhasesOrdered
      /\ SlashesMarked /\ ChallengedStand /\ FactsInOrder
    BY DEF BooksInv, DisputeInv, OrderInv, TypeInv
<1>2. DisputeInv'
    BY <1>1, DisputeInvStep
<1>3. OrderInv'
    BY <1>1, MarkedStep, ChallengedStandStep, FactsInOrderStep DEF OrderInv
<1>4. DOMAIN ai_claim \subseteq Proposed
    BY <1>1 DEF TypeInv, AccountsLinked
<1>5. Books'
    BY <1>1, <1>4, StepCases, ProposeBooks, SubmitFactBooks, VoteFactBooks,
       SlashForNoFactsBooks, SettleFactsBooks, SubmitAiClaimBooks,
       FinalizeAiClaimsBooks,
       OpenChallengeBooks, SettleSuccessfulBooks, SettleFailedBooks, PhaseMoveBooks
<1> QED
    BY <1>2, <1>3, <1>5 DEF BooksInv

LEMMA BooksInvHolds == Spec => []BooksInv
BY BooksInvInit, BooksInvStep, PTL DEF Spec

\* bond_pool is at all times what was taken from somebody: every proposer's
\* slashed_amount, whichever of the four slash paths set it, and what rejected
\* facts forfeit, for any number of accounts and batches in any order.
THEOREM PoolIsTheSlashes == Spec => []BondPoolIsTheSlashes
<1>1. ASSUME BooksInv PROVE BondPoolIsTheSlashes
  <2>1. TypeOK /\ oracle.bond_pool = SumFunction(SlashedBy) + SumFunction(ForfeitedBy)
      BY <1>1 DEF BooksInv, Books, DisputeInv, TypeInv
  <2>2. SlashedAmounts(Proposed) = SumFunction(SlashedBy)
      BY DEF SlashedAmounts, SlashedBy
  <2> DEFINE lost == [f \in Rejected |->
                        fact[f].stake + FloorFrac(fact[f].approve_stake, FactVoteSlash)]
  <2>3. Rejected \in SUBSET DOMAIN fact /\ IsFiniteSet(DOMAIN fact) /\ IsFiniteSet(Rejected)
      BY <2>1, FiniteAccounts, FS_Subset DEF Rejected, Settled
  <2>4. \A f \in DOMAIN fact \ Rejected : ForfeitedBy[f] = 0
      BY DEF ForfeitedBy, Forfeited, Rejected, Settled
  <2>5. \A f \in Rejected : ForfeitedBy[f] = lost[f]
      BY <2>3 DEF ForfeitedBy, Forfeited, Rejected, Settled
  <2>6. ForfeitedStakes = SumFunctionOnSet(lost, Rejected)
      BY SumOver DEF ForfeitedStakes
  <2> HIDE DEF lost
  <2>7. SumFunctionOnSet(ForfeitedBy, DOMAIN fact) = SumFunctionOnSet(ForfeitedBy, Rejected)
      BY <2>1, <2>3, <2>4, BookSums, SumSupport
  <2>8. SumFunctionOnSet(ForfeitedBy, Rejected) = SumFunctionOnSet(lost, Rejected)
      BY <2>3, <2>5, SumCongruence
  <2> QED
      BY <2>1, <2>2, <2>6, <2>7, <2>8, BookSums DEF BondPoolIsTheSlashes
<1> QED
    BY <1>1, BooksInvHolds, PTL

\* All KASS is accounted for: nothing appears or disappears, whatever is opened,
\* settled or burned, and challengers have exactly what the bonds of the
\* disqualified lost beyond the slashes in the pool.
THEOREM KassIsAccounted == Spec => []KassAccounted
<1>1. ASSUME BooksInv PROVE KassAccounted
  <2>1. TypeOK /\ KassConserved /\ kass.challengers = SumFunction(PaidOutBy)
      BY <1>1 DEF BooksInv, Books, DisputeInv, TypeInv
  <2> DEFINE out == Proposed \ Survivors
             bonds == [p \in out |-> proposer[p].bond]
             slashes == [p \in out |-> proposer[p].slashed_amount]
             rest == [p \in out |-> proposer[p].bond - proposer[p].slashed_amount]
  <2>2. out \in SUBSET Proposed /\ IsFiniteSet(Proposed) /\ IsFiniteSet(out)
      BY <2>1, FiniteAccounts, FS_Subset
  <2>3. \A p \in Proposed : proposer[p].bond \in Int /\ proposer[p].slashed_amount \in Int
      BY <2>1, U64MaxAssumption DEF TypeOK, AccountsOf, Proposed, ProposerAccount, U64
  <2>4. \A p \in Proposed \ out : PaidOutBy[p] = 0
      BY DEF PaidOutBy, PaidOut, Survivors
  <2>5. \A p \in out : PaidOutBy[p] = rest[p]
      BY DEF PaidOutBy, PaidOut, Survivors
  <2>6. /\ BondsOf(out) = SumFunctionOnSet(bonds, out)
        /\ SlashedAmounts(out) = SumFunctionOnSet(slashes, out)
      BY SumOver DEF BondsOf, SlashedAmounts
  <2>7. /\ IntOn(rest, out) /\ IntOn(slashes, out)
        /\ \A p \in out : bonds[p] = rest[p] + slashes[p]
      BY <2>2, <2>3 DEF IntOn
  <2>8. ChallengersPaidFromBonds <=> kass.challengers = BondsOf(out) - SlashedAmounts(out)
      BY DEF ChallengersPaidFromBonds
  <2> HIDE DEF out, bonds, slashes, rest
  <2>9. SumFunctionOnSet(PaidOutBy, Proposed) = SumFunctionOnSet(PaidOutBy, out)
      BY <2>1, <2>2, <2>4, BookSums, SumSupport
  <2>10. SumFunctionOnSet(PaidOutBy, out) = SumFunctionOnSet(rest, out)
      BY <2>2, <2>5, SumCongruence
  <2>11. SumFunctionOnSet(bonds, out) = SumFunctionOnSet(rest, out) + SumFunctionOnSet(slashes, out)
      BY <2>2, <2>7, SumPlus
  <2>12. SumFunctionOnSet(rest, out) \in Int /\ SumFunctionOnSet(slashes, out) \in Int
      BY <2>2, <2>7, SumInt
  <2> QED
      BY <2>1, <2>6, <2>8, <2>9, <2>10, <2>11, <2>12, BookSums DEF KassAccounted
<1> QED
    BY <1>1, BooksInvHolds, PTL

\* Both tokens of a dispute, KASS and the challengers' USDC, are where the
\* program will look for them.
THEOREM TokensAreAccounted == Spec => []TokensAccounted
BY KassIsAccounted, EscrowIsBacked, PTL DEF TokensAccounted

-----------------------------------------------------------------------------
(* The loops of plurality(), which the lifecycle above takes as a definition:  *)
(* they return the strict plurality, for every number of options and votes.    *)

\* The votes for o among those counted so far.
Counted(o) == { k \in 1 .. counted : ballot[k] = o }

\* The table agrees with the votes counted, and the best option so far has the
\* maximum of the entries scanned, which tied says is reached by another.
ScanInv ==
    /\ ScanTypeOK
    /\ \A o \in Options : tally[o] = Cardinality(Counted(o))
    /\ scanned > 0 => counted = Len(ballot) /\ Len(ballot) > 0
    /\ \A o \in 0 .. scanned - 1 : tally[o] <= best_count
    /\ best_count > 0 => best_option < scanned /\ tally[best_option] = best_count
    /\ tied <=> \E o \in 0 .. scanned - 1 :
                    best_count > 0 /\ o # best_option /\ tally[o] = best_count
    /\ ReturnsStrictPlurality

\* A ballot is a sequence of options, no longer than the caller's buffer.
LEMMA BallotIsSequence ==
    ASSUME NEW b \in Ballots
    PROVE  /\ Len(b) \in Nat
           /\ Len(b) <= MaxVotes
           /\ DOMAIN b = 1 .. Len(b)
           /\ b \in [1 .. Len(b) -> Options]
<1>1. PICK n \in 0 .. MaxVotes : b \in [1 .. n -> Options]
    BY DEF Ballots
<1>2. n \in Nat
    BY MaxVotesAssumption
<1>3. b \in Seq(Options)
    BY <1>1, <1>2
<1>4. Len(b) = n
    BY <1>1, <1>2, <1>3
<1> QED
    BY <1>1, <1>2, <1>3, <1>4, MaxVotesAssumption

\* The counted votes for one option are a finite set, of at most counted of them.
LEMMA CountedIsFinite ==
    ASSUME counted \in Nat, NEW o
    PROVE  /\ IsFiniteSet(Counted(o))
           /\ Cardinality(Counted(o)) \in Nat
           /\ Cardinality(Counted(o)) <= counted
<1>1. /\ IsFiniteSet(1 .. counted)
      /\ Cardinality(1 .. counted) = counted
    BY FS_Interval
<1>2. Counted(o) \subseteq 1 .. counted
    BY DEF Counted
<1> QED
    BY <1>1, <1>2, FS_Subset, FS_CardinalityType

\* The types that the steps below need, with the length a number.
LEMMA ScanTypes ==
    ASSUME ScanTypeOK
    PROVE  /\ Len(ballot) \in Nat
           /\ DOMAIN ballot = 1 .. Len(ballot)
           /\ ballot \in [1 .. Len(ballot) -> Options]
           /\ counted \in Nat /\ counted <= Len(ballot)
           /\ tally \in [Options -> Nat]
           /\ scanned \in Nat /\ scanned <= OptionsCount
           /\ best_option \in Options
           /\ best_count \in Nat /\ best_count <= Len(ballot)
           /\ OptionsCount \in Nat /\ OptionsCount > 0
<1>1. /\ Len(ballot) \in Nat
      /\ DOMAIN ballot = 1 .. Len(ballot)
      /\ ballot \in [1 .. Len(ballot) -> Options]
    BY BallotIsSequence DEF ScanTypeOK
<1>2. OptionsCount \in Nat /\ OptionsCount > 0
    BY OptionsAssumption
<1>3. /\ counted \in 0 .. Len(ballot)
      /\ tally \in [Options -> 0 .. Len(ballot)]
      /\ scanned \in 0 .. OptionsCount
      /\ best_option \in Options
      /\ best_count \in 0 .. Len(ballot)
    BY DEF ScanTypeOK
<1> QED
    BY <1>1, <1>2, <1>3

LEMMA ScanStarts == ScanInit => ScanInv
<1> SUFFICES ASSUME ScanInit PROVE ScanInv
    OBVIOUS
<1>1. Len(ballot) \in Nat
    BY BallotIsSequence DEF ScanInit
<1>2. OptionsCount \in Nat /\ 0 \in Options
    BY OptionsAssumption DEF Options
<1>3. ScanTypeOK
    BY <1>1, <1>2 DEF ScanInit, ScanTypeOK
<1>4. \A o \in Options : tally[o] = Cardinality(Counted(o))
  <2> TAKE o \in Options
  <2>1. Counted(o) = {}
      BY DEF Counted, ScanInit
  <2> QED
      BY <2>1, FS_EmptySet DEF ScanInit
<1> QED
    BY <1>3, <1>4 DEF ScanInit, ScanInv, ReturnsStrictPlurality

\* One more vote counted: the table stays the tally of the votes counted.
LEMMA CountVoteTallies ==
    ASSUME ScanInv, CountVote
    PROVE  \A o \in Options :
              /\ tally'[o] = Cardinality(Counted(o))'
              /\ tally'[o] \in 0 .. Len(ballot')
<1> TAKE o \in Options
<1>1. /\ Len(ballot) \in Nat
      /\ ballot \in [1 .. Len(ballot) -> Options]
    BY ScanTypes DEF ScanInv
<1>2a. counted \in 0 .. Len(ballot)
    BY ScanTypes DEF ScanInv
<1>2b. counted < Len(ballot) /\ counted' = counted + 1 /\ ballot' = ballot
    BY DEF CountVote
<1>2. /\ counted \in Nat /\ counted' = counted + 1 /\ counted' \in Nat
      /\ counted' <= Len(ballot) /\ ballot' = ballot
    BY <1>1, <1>2a, <1>2b
<1>3. ballot[counted + 1] \in Options
    BY <1>1, <1>2
<1>4. tally'[o] = IF o = ballot[counted + 1] THEN tally[o] + 1 ELSE tally[o]
    BY <1>3, ScanTypes DEF CountVote, ScanInv
<1>5. /\ IsFiniteSet(Counted(o))
      /\ Cardinality(Counted(o)) \in Nat
      /\ Cardinality(Counted(o)) <= counted
    BY <1>2, CountedIsFinite
<1>6. Counted(o)' = IF o = ballot[counted + 1] THEN Counted(o) \cup {counted + 1} ELSE Counted(o)
    BY <1>2 DEF Counted
<1>7. counted + 1 \notin Counted(o)
    BY <1>2 DEF Counted
<1>8. Cardinality(Counted(o))' =
          IF o = ballot[counted + 1] THEN Cardinality(Counted(o)) + 1 ELSE Cardinality(Counted(o))
    BY <1>5, <1>6, <1>7, FS_AddElement
<1>9. tally[o] = Cardinality(Counted(o))
    BY DEF ScanInv
<1>10. tally'[o] = Cardinality(Counted(o))'
    BY <1>4, <1>8, <1>9
<1> QED
    BY <1>1, <1>2, <1>5, <1>8, <1>10

\* After the scan of a nonempty ballot some option has a vote.
LEMMA SomebodyVoted ==
    ASSUME ScanInv, scanned = OptionsCount
    PROVE  best_count > 0
<1>1. /\ Len(ballot) \in Nat
      /\ ballot \in [1 .. Len(ballot) -> Options]
    BY ScanTypes DEF ScanInv
<1>2. OptionsCount \in Nat /\ OptionsCount > 0
    BY OptionsAssumption
<1>3. counted = Len(ballot) /\ Len(ballot) > 0
    BY <1>2 DEF ScanInv
<1> DEFINE o == ballot[1]
<1>4. o \in Options /\ o \in 0 .. scanned - 1
    BY <1>1, <1>2, <1>3 DEF Options
<1>5. 1 \in Counted(o)
    BY <1>1, <1>3 DEF Counted
<1>6. tally[o] = Cardinality(Counted(o)) /\ tally[o] <= best_count
    BY <1>4 DEF ScanInv
<1>7. IsFiniteSet(Counted(o)) /\ Cardinality(Counted(o)) \in Nat
    BY <1>1, <1>3, CountedIsFinite
<1>8. Cardinality(Counted(o)) # 0
    BY <1>5, <1>7, FS_EmptySet
<1>9. best_count \in Nat
    BY ScanTypes DEF ScanInv
<1> QED
    BY <1>6, <1>7, <1>8, <1>9

\* What the table says of an option is its number of votes in the ballot.
LEMMA ScannedVotes ==
    ASSUME ScanInv, scanned = OptionsCount
    PROVE  \A o \in Options : Votes(ballot, o) = tally[o]
<1> TAKE o \in Options
<1>1. /\ Len(ballot) \in Nat
      /\ DOMAIN ballot = 1 .. Len(ballot)
    BY ScanTypes DEF ScanInv
<1>2. counted = Len(ballot)
    BY OptionsAssumption DEF ScanInv
<1>3. Support(ballot, o) = Counted(o)
    BY <1>1, <1>2 DEF Support, Counted
<1> QED
    BY <1>3 DEF Votes, ScanInv

\* An untied scan ends on the winner, and a tied one says that there is none.
LEMMA ScanDecides ==
    ASSUME ScanInv, scanned = OptionsCount
    PROVE  Plurality(ballot) = IF tied THEN CLAIM_OPTION_NONE ELSE best_option
<1>1. best_count > 0 /\ best_option < scanned /\ tally[best_option] = best_count
    BY SomebodyVoted DEF ScanInv
<1>2. best_option \in Options /\ Options = 0 .. scanned - 1
    BY ScanTypes DEF ScanInv, Options
<1>3. \A o \in Options : Votes(ballot, o) = tally[o] /\ tally[o] <= best_count
    BY <1>2, ScannedVotes DEF ScanInv
<1>4. \A o \in Options : tally[o] \in Nat
    BY ScanTypes DEF ScanInv
<1>5. \A o \in Options : Wins(ballot, o) => o = best_option
    BY <1>1, <1>2, <1>3, <1>4 DEF Wins
<1>6. CASE tied
  <2>1. PICK o \in Options : o # best_option /\ tally[o] = best_count
      BY <1>2, <1>6 DEF ScanInv
  <2>2. ~Wins(ballot, best_option)
      BY <1>1, <1>2, <1>3, <1>4, <2>1 DEF Wins
  <2> QED
      BY <1>5, <1>6, <2>2 DEF Plurality
<1>7. CASE ~tied
  <2>1. \A o \in Options \ {best_option} : tally[o] # best_count
      BY <1>1, <1>2, <1>7 DEF ScanInv
  <2>2. Wins(ballot, best_option)
      BY <1>1, <1>2, <1>3, <1>4, <2>1 DEF Wins
  <2> QED
      BY <1>2, <1>5, <1>7, <2>2 DEF Plurality
<1> QED
    BY <1>6, <1>7 DEF ScanInv, ScanTypeOK
-----------------------------------------------------------------------------
\* Each step of the loops keeps the invariant.
LEMMA ScanStep == ScanInv /\ [ScanNext]_scan => ScanInv'
<1> SUFFICES ASSUME ScanInv, [ScanNext]_scan PROVE ScanInv'
    OBVIOUS
<1> USE DEF ScanInv
<1>1. CASE ReturnNoSurvivors
  <2>1. Plurality(ballot) = CLAIM_OPTION_NONE
    <3>1. \A o \in Options : Support(ballot, o) = {}
        BY <1>1, ScanTypes DEF ReturnNoSurvivors, Support
    <3>2. \A o \in Options : Votes(ballot, o) = 0
        BY <3>1, FS_EmptySet DEF Votes
    <3>3. \A o \in Options : ~Wins(ballot, o)
        BY <3>2 DEF Wins
    <3> QED
        BY <3>3 DEF Plurality
  <2> QED
      BY <1>1, <2>1
      DEF ReturnNoSurvivors, ScanTypeOK, ReturnsStrictPlurality, Counted
<1>2. CASE CountVote
  <2>1. \A o \in Options :
            /\ tally'[o] = Cardinality(Counted(o))'
            /\ tally'[o] \in 0 .. Len(ballot')
      BY <1>2, CountVoteTallies
  <2>2. counted' = counted + 1 /\ counted < Len(ballot) /\ ballot' = ballot
      BY <1>2 DEF CountVote
  <2>3. scanned = 0 /\ best_count = 0 /\ ~tied /\ ~returned
    <3>1. scanned = 0
        BY <2>2, ScanTypes
    <3>2. best_count = 0
        BY <3>1, ScanTypes DEF Options
    <3>3. ~tied
        BY <3>2
    <3> QED
        BY <1>2, <3>1, <3>2, <3>3 DEF CountVote
  <2>4. ScanTypeOK'
    <3>1. counted' \in 0 .. Len(ballot')
        BY <2>2, ScanTypes
    <3>2. tally' \in [Options -> 0 .. Len(ballot')]
        BY <1>2, <2>1, ScanTypes DEF CountVote
    <3> QED
        BY <1>2, <3>1, <3>2 DEF CountVote, ScanTypeOK
  <2> QED
      BY <1>2, <2>1, <2>3, <2>4 DEF CountVote, ReturnsStrictPlurality
<1>3. CASE ScanOption
  <2>1. scanned \in Options /\ tally[scanned] \in 0 .. Len(ballot)
      BY <1>3, ScanTypes DEF ScanOption, Options, ScanTypeOK
  <2>2. ScanTypeOK'
    <3>1. scanned' \in 0 .. OptionsCount
        BY <1>3, ScanTypes DEF ScanOption
    <3>2. /\ best_option' \in Options
          /\ best_count' \in 0 .. Len(ballot')
          /\ tied' \in BOOLEAN
        BY <1>3, <2>1, ScanTypes DEF ScanOption, ScanTypeOK
    <3> QED
        BY <1>3, <3>1, <3>2 DEF ScanOption, ScanTypeOK
  <2>3. 0 .. scanned' - 1 = 0 .. scanned - 1 \cup {scanned}
      BY <1>3, ScanTypes DEF ScanOption
  <2>4. \A o \in Options : tally'[o] = Cardinality(Counted(o))'
      BY <1>3 DEF ScanOption, Counted
  <2>5. \A o \in 0 .. scanned - 1 : o # scanned /\ tally[o] \in Nat
      BY ScanTypes DEF Options
  <2>6. CASE tally[scanned] > best_count
    <3>1. /\ best_count' = tally[scanned] /\ best_option' = scanned
          /\ tied' = FALSE /\ tally' = tally /\ ballot' = ballot /\ counted' = counted
          /\ scanned' = scanned + 1 /\ Len(ballot) > 0 /\ counted = Len(ballot)
          /\ returned' = FALSE
        BY <1>3, <2>6, ScanTypes DEF ScanOption, ScanTypeOK
    <3>2. \A o \in 0 .. scanned' - 1 : tally'[o] <= best_count'
      <4>1. \A o \in 0 .. scanned - 1 : tally[o] <= tally[scanned]
          BY <2>1, <2>5, <2>6, ScanTypes
      <4> QED
          BY <2>1, <2>3, <3>1, <4>1
    <3>3. best_option' < scanned'
        BY <3>1, ScanTypes
    <3>4. ~\E o \in 0 .. scanned' - 1 :
              best_count' > 0 /\ o # best_option' /\ tally'[o] = best_count'
        BY <2>1, <2>3, <2>5, <2>6, <3>1, ScanTypes
    <3> QED
        BY <2>2, <2>4, <3>1, <3>2, <3>3, <3>4 DEF ReturnsStrictPlurality
  <2>7. CASE ~(tally[scanned] > best_count)
    <3>1. /\ best_count' = best_count /\ best_option' = best_option
          /\ tied' = (tied \/ (tally[scanned] = best_count /\ best_count # 0))
          /\ tally' = tally /\ ballot' = ballot /\ counted' = counted
          /\ scanned' = scanned + 1 /\ Len(ballot) > 0 /\ counted = Len(ballot)
          /\ returned' = FALSE
        BY <1>3, <2>7, ScanTypes DEF ScanOption, ScanTypeOK
    <3>2. best_count > 0 => best_option < scanned /\ best_option # scanned
        BY ScanTypes DEF Options
    <3>3. \A o \in 0 .. scanned' - 1 : tally'[o] <= best_count'
        BY <2>1, <2>3, <2>7, <3>1, ScanTypes
    <3>4. best_count' > 0 => best_option' < scanned' /\ tally'[best_option'] = best_count'
        BY <3>1, <3>2, ScanTypes DEF Options
    <3>5. tied' <=> \E o \in 0 .. scanned' - 1 :
                       best_count' > 0 /\ o # best_option' /\ tally'[o] = best_count'
      <4>1. CASE best_count = 0
        <5>1. ~tied
            BY <4>1
        <5>2. ~tied'
            BY <3>1, <4>1, <5>1, Zenon
        <5> QED
            BY <3>1, <4>1, <5>2
      <4>2. CASE best_count > 0
        <5>1. \A o \in 0 .. scanned' - 1 : o \in 0 .. scanned - 1 \/ o = scanned
            BY <2>3
        <5>2. \A o \in 0 .. scanned - 1 : o \in 0 .. scanned' - 1
            BY <2>3
        <5>3. scanned \in 0 .. scanned' - 1
            BY <2>3
        <5>4. best_count # 0
            BY <4>2
        <5>5. tied' <=> (tied \/ tally[scanned] = best_count)
            BY <3>1, <5>4, Zenon
        <5>6. tied <=> \E o \in 0 .. scanned - 1 :
                          o # best_option /\ tally[o] = best_count
            BY <4>2
        <5> QED
            BY <3>1, <3>2, <4>2, <5>1, <5>2, <5>3, <5>5, <5>6
      <4> QED
          BY <4>1, <4>2, ScanTypes
    <3> QED
        BY <2>2, <2>4, <3>1, <3>3, <3>4, <3>5 DEF ReturnsStrictPlurality
  <2> QED
      BY <2>6, <2>7
<1>4. CASE Return
  <2>1. decided' = Plurality(ballot)
      BY <1>4, ScanDecides DEF Return
  <2>2. Plurality(ballot) \in Options \cup {CLAIM_OPTION_NONE}
      BY DEF Plurality
  <2> QED
      BY <1>4, <2>1, <2>2 DEF Return, ScanTypeOK, ReturnsStrictPlurality, Counted
<1>5. CASE UNCHANGED scan
    BY <1>5 DEF scan, ScanTypeOK, Counted, ReturnsStrictPlurality
<1> QED
    BY <1>1, <1>2, <1>3, <1>4, <1>5 DEF ScanNext

\* The buffer, the table and the indices keep their types.
THEOREM ScanTypeCorrect == ScanSpec => []ScanTypeOK
<1>1. ScanSpec => []ScanInv
    BY ScanStarts, ScanStep, PTL DEF ScanSpec
<1> QED
    BY <1>1, PTL DEF ScanInv

\* Whenever plurality() returns, it returns the strict plurality of the ballot
\* it was given, or no option when there is none.
THEOREM ScanReturnsStrictPlurality == ScanSpec => []ReturnsStrictPlurality
<1>1. ScanSpec => []ScanInv
    BY ScanStarts, ScanStep, PTL DEF ScanSpec
<1> QED
    BY <1>1, PTL DEF ScanInv
=============================================================================
