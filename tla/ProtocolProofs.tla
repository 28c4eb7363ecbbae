---------------------------- MODULE ProtocolProofs ----------------------------
(* Proofs about Protocol, for any number of oracles, parties and keys, any     *)
(* configuration that governance may send, and any length of time: what an     *)
(* oracle works from is usable, who governs, what a re-created oracle may rely *)
(* on, that vaults and supply keep their books, that emissions respect the cap *)
(* and that the creation fee decays.                                           *)
EXTENDS Protocol, Sums

-----------------------------------------------------------------------------
\* A configuration that set_config admits is usable

\* x is at most the fraction n : d of b.
LEMMA FloorBelow ==
    ASSUME NEW b \in Nat, NEW n \in Nat, NEW d \in Nat \ {0}
    PROVE  (b * n) \div d \in Nat /\ ((b * n) \div d) * d <= b * n
<1> DEFINE p == b * n
<1>1. p \in Nat
    OBVIOUS
<1> HIDE DEF p
<1>2. p \div d \in Nat /\ (p \div d) * d <= p
    BY <1>1
<1> QED
    BY <1>2 DEF p

\* Two fractions that add up to one at most take no more than the whole.
LEMMA TwoFractions ==
    ASSUME NEW b \in Nat,
           NEW m \in Nat, NEW d \in Nat \ {0}, NEW n \in Nat, NEW e \in Nat \ {0},
           m * e + n * d <= d * e
    PROVE  (b * m) \div d + (b * n) \div e <= b
<1> DEFINE x == (b * m) \div d
           y == (b * n) \div e
<1>1. /\ x \in Nat /\ x * d <= b * m
      /\ y \in Nat /\ y * e <= b * n
    BY FloorBelow
<1> HIDE DEF x, y
<1>2. (x * d) * e <= (b * m) * e /\ (y * e) * d <= (b * n) * d
    BY <1>1
<1>3. (x + y) * (d * e) <= b * (m * e + n * d)
    BY <1>1, <1>2
<1>4. b * (m * e + n * d) <= b * (d * e)
    OBVIOUS
<1>5. (x + y) * (d * e) <= b * (d * e)
    BY <1>1, <1>3, <1>4
<1>6. d * e \in Nat \ {0}
    OBVIOUS
<1>7. x + y <= b
    BY <1>1, <1>5, <1>6
<1> QED
    BY <1>7 DEF x, y

LEMMA ValidIsUsable ==
    ASSUME NEW c \in ConfigParams, ValidConfig(c)
    PROVE  Usable(c)
<1> USE U64MaxAssumption
<1>1. \A f \in Fractions : /\ c.fraction[f] \in Ratio
                           /\ c.fraction[f].num \in Nat /\ c.fraction[f].den \in Nat \ {0}
                           /\ c.fraction[f].num <= c.fraction[f].den
    BY DEF ConfigParams, ValidConfig, Positive, AtMostOne, Ratio, U64
<1>2. \A f \in Fractions : c.fraction[f] \in ProperRatio
    BY <1>1 DEF ProperRatio
<1>3. \A w \in Windows : c.window[w] > 0
    BY DEF ValidConfig, Positive
<1>4. c.amount["reward_proposer_weight"] + c.amount["reward_fact_weight"] > 0
  <2>1. c.amount["reward_proposer_weight"] \in Nat /\ c.amount["reward_fact_weight"] \in Nat
      BY DEF ConfigParams, Amounts64, U64
  <2> QED
      BY <2>1 DEF ValidConfig, SomeRewardWeight
<1>5. ASSUME NEW bond \in U64
      PROVE  FloorFrac(bond, c.fraction["flip_slash"])
               + FloorFrac(bond, c.fraction["challenge_success_kass_fee"]) <= bond
  <2> DEFINE flip == c.fraction["flip_slash"]
             fee == c.fraction["challenge_success_kass_fee"]
  <2>1. /\ flip.num \in Nat /\ flip.den \in Nat \ {0} /\ fee.num \in Nat /\ fee.den \in Nat \ {0}
        /\ flip.num * fee.den + fee.num * flip.den <= flip.den * fee.den
      BY <1>1 DEF Fractions, ValidConfig, SlashAndFeeFit
  <2>2. bond \in Nat
      BY DEF U64
  <2> HIDE DEF flip, fee
  <2>3. FloorFrac(bond, flip) + FloorFrac(bond, fee) <= bond
      BY <2>1, <2>2, TwoFractions DEF FloorFrac
  <2> QED
      BY <2>3 DEF flip, fee
<1> QED
    BY <1>2, <1>3, <1>4, <1>5 DEF Usable
-----------------------------------------------------------------------------
\* Accounts keep their shape

ProtocolFields(a) ==
    [initialized |-> a.initialized, admin |-> a.admin, governance_set |-> a.governance_set,
     dao_authority |-> a.dao_authority, fee_ema |-> a.fee_ema,
     last_creation_unix |-> a.last_creation_unix, config |-> a.config]

OracleFields(o) ==
    [creator |-> o.creator, options_count |-> o.options_count,
     phase_ends_at |-> o.phase_ends_at, phase |-> o.phase,
     proposer_count |-> o.proposer_count, reward_emission |-> o.reward_emission,
     min_stake |-> o.min_stake, config |-> o.config, heir |-> o.heir]

Shapes ==
    /\ protocol.initialized \in BOOLEAN
    /\ Initialized => protocol = ProtocolFields(protocol)
    /\ oracle = [n \in DOMAIN oracle |-> oracle[n]]
    /\ \A n \in DOMAIN oracle : oracle[n] = OracleFields(oracle[n])

\* What the protocol's own configuration is, whoever sent it.
ConfigUsable ==
    Initialized => protocol.config \in ConfigParams /\ Usable(protocol.config)

ProtocolInv ==
    /\ Shapes /\ ConfigUsable /\ SnapshotsUsable /\ StakesMeetTheirFloor
    /\ MetaMatchesOracle

\* What an instruction does to the Protocol account.
LEMMA ProtocolStep ==
    ASSUME Shapes, [Next]_vars
    PROVE  \/ /\ ~Initialized /\ protocol' = ProtocolFields(protocol')
              /\ protocol'.initialized = TRUE /\ protocol'.config = GenesisConfig
           \/ /\ Initialized /\ protocol' = ProtocolFields(protocol')
              /\ protocol'.initialized = protocol.initialized
              /\ \/ /\ protocol'.config = protocol.config
                    /\ protocol'.dao_authority = protocol.dao_authority
                    /\ protocol'.governance_set = protocol.governance_set
                 \/ /\ protocol'.config = protocol.config
                    /\ protocol'.governance_set = TRUE /\ signer' = LinkageAuthority
                 \/ /\ protocol'.config \in ConfigParams /\ ValidConfig(protocol'.config)
                    /\ protocol'.dao_authority = protocol.dao_authority
                    /\ protocol'.governance_set = protocol.governance_set
                    /\ protocol.governance_set /\ signer' = protocol.dao_authority
           \/ protocol' = protocol
<1>1. ASSUME NEW k \in Keys, InitProtocol(k)
      PROVE  /\ ~Initialized /\ protocol' = ProtocolFields(protocol')
             /\ protocol'.initialized = TRUE /\ protocol'.config = GenesisConfig
    BY <1>1 DEF InitProtocol, ProtocolFields
<1>2. ASSUME NEW k \in Keys, NEW d \in DaoAuthorities, SetGovernance(k, d)
      PROVE  /\ Initialized /\ protocol' = ProtocolFields(protocol')
             /\ protocol'.initialized = protocol.initialized
             /\ protocol'.config = protocol.config
             /\ protocol'.governance_set = TRUE /\ signer' = LinkageAuthority
    BY <1>2 DEF SetGovernance, Shapes, ProtocolFields
<1>3. ASSUME NEW k \in Keys, NEW c \in Configs, SetConfig(k, c)
      PROVE  /\ Initialized /\ protocol' = ProtocolFields(protocol')
             /\ protocol'.initialized = protocol.initialized
             /\ protocol'.config \in ConfigParams /\ ValidConfig(protocol'.config)
             /\ protocol'.dao_authority = protocol.dao_authority
             /\ protocol'.governance_set = protocol.governance_set
             /\ protocol.governance_set /\ signer' = protocol.dao_authority
  <2>1. protocol = ProtocolFields(protocol) /\ protocol' = [protocol EXCEPT !.config = c]
      BY <1>3 DEF SetConfig, Shapes
  <2>2. /\ protocol' = ProtocolFields(protocol') /\ protocol'.config = c
        /\ protocol'.initialized = protocol.initialized
        /\ protocol'.dao_authority = protocol.dao_authority
        /\ protocol'.governance_set = protocol.governance_set
      BY <2>1 DEF ProtocolFields
  <2>3. c \in ConfigParams /\ ValidConfig(c)
      BY <1>3, ProtocolAssumption DEF SetConfig
  <2> QED
      BY <1>3, <2>2, <2>3 DEF SetConfig
<1>4. ASSUME NEW n \in Nonces, Live(n)
      PROVE  \/ /\ Initialized /\ protocol' = ProtocolFields(protocol')
                /\ protocol'.initialized = protocol.initialized
                /\ protocol'.config = protocol.config
                /\ protocol'.dao_authority = protocol.dao_authority
                /\ protocol'.governance_set = protocol.governance_set
             \/ protocol' = protocol
  <2>1. ASSUME NEW k, NEW options_count, NEW deadline, NEW twap_window,
               CreateOracle(k, n, options_count, deadline, twap_window)
        PROVE  /\ Initialized /\ protocol' = ProtocolFields(protocol')
               /\ protocol'.initialized = protocol.initialized
               /\ protocol'.config = protocol.config
               /\ protocol'.dao_authority = protocol.dao_authority
               /\ protocol'.governance_set = protocol.governance_set
    <3>1. PICK ema, t : protocol' = [protocol EXCEPT !.fee_ema = ema, !.last_creation_unix = t]
        BY <2>1 DEF CreateOracle
    <3>2. Initialized /\ protocol = ProtocolFields(protocol)
        BY <2>1 DEF CreateOracle, Shapes
    <3> QED
        BY <3>1, <3>2 DEF ProtocolFields
  <2>2. CASE protocol' = protocol
      BY <2>2
  <2> QED
      BY <1>4, <2>1, <2>2 DEF Live, WriteOracleMeta, Stake, Claim, Finish, SweepOracle
<1>5. CASE Tick \/ UNCHANGED vars
    BY <1>5 DEF Tick, vars
<1> QED
    BY <1>1, <1>2, <1>3, <1>4, <1>5, Zenon DEF Next, Govern

\* What an oracle works from does not change while it exists.
SameTerms(n) ==
    /\ oracle'[n].min_stake = oracle[n].min_stake /\ oracle'[n].config = oracle[n].config
    /\ oracle'[n].options_count = oracle[n].options_count /\ oracle'[n].heir = oracle[n].heir

NewTerms(n) ==
    /\ Initialized /\ n \notin DOMAIN oracle
    /\ oracle'[n].config = protocol.config /\ oracle'[n].heir = LeftBehind(n)
    /\ UNCHANGED <<stake, oracle_meta>>

LEMMA OracleStep ==
    ASSUME Shapes, [Next]_vars
    PROVE  /\ oracle' = [n \in DOMAIN oracle' |-> oracle'[n]]
           /\ \A n \in DOMAIN oracle' :
                 /\ oracle'[n] = OracleFields(oracle'[n])
                 /\ (n \in DOMAIN oracle /\ SameTerms(n)) \/ NewTerms(n)
<1> DEFINE Kept == /\ oracle' = [n \in DOMAIN oracle' |-> oracle'[n]]
                   /\ \A n \in DOMAIN oracle' :
                         /\ oracle'[n] = OracleFields(oracle'[n])
                         /\ (n \in DOMAIN oracle /\ SameTerms(n)) \/ NewTerms(n)
<1>1. CASE oracle' = oracle
    BY <1>1 DEF Shapes, SameTerms
<1>2. ASSUME NEW n, NEW k, NEW options_count, NEW deadline, NEW twap_window,
             CreateOracle(k, n, options_count, deadline, twap_window)
      PROVE  Kept
  <2>1. PICK ema, emission :
            /\ oracle' = Create(oracle, n, NewOracle(k, n, options_count, deadline, ema, emission))
            /\ Initialized /\ n \notin DOMAIN oracle /\ UNCHANGED <<stake, oracle_meta>>
      BY <1>2 DEF CreateOracle, NonceFree
  <2> DEFINE account == NewOracle(k, n, options_count, deadline, ema, emission)
  <2>2. /\ account = OracleFields(account)
        /\ account.config = protocol.config /\ account.heir = LeftBehind(n)
      BY DEF NewOracle, OracleFields
  <2> HIDE DEF account
  <2>3. oracle' = Create(oracle, n, account)
      BY <2>1 DEF account
  <2>4. /\ oracle' = [m \in DOMAIN oracle' |-> oracle'[m]]
        /\ DOMAIN oracle' = DOMAIN oracle \cup {n} /\ oracle'[n] = account
        /\ \A m \in DOMAIN oracle \ {n} : oracle'[m] = oracle[m]
      BY <2>3 DEF Create
  <2>5. \A m \in DOMAIN oracle : oracle[m] = OracleFields(oracle[m])
      BY DEF Shapes
  <2> QED
      BY <2>1, <2>2, <2>4, <2>5 DEF SameTerms, NewTerms
<1>3. ASSUME NEW n, NEW s, NEW amount, Stake(s, n, amount)
      PROVE  Kept
  <2>1. n \in DOMAIN oracle /\ oracle' = [oracle EXCEPT ![n].proposer_count = @ + 1]
      BY <1>3 DEF Stake
  <2> DEFINE account == [oracle[n] EXCEPT !.proposer_count = @ + 1]
  <2>2. oracle[n] = OracleFields(oracle[n])
      BY <2>1 DEF Shapes
  <2>3. /\ account = OracleFields(account)
        /\ account.min_stake = oracle[n].min_stake /\ account.config = oracle[n].config
        /\ account.options_count = oracle[n].options_count /\ account.heir = oracle[n].heir
      BY <2>2 DEF OracleFields
  <2>4. oracle' = [oracle EXCEPT ![n] = account]
      BY <2>1
  <2> HIDE DEF account
  <2> QED
      BY <2>1, <2>3, <2>4 DEF Shapes, SameTerms
<1>4. ASSUME NEW n, NEW phase, Finish(n, phase)
      PROVE  Kept
  <2>1. n \in DOMAIN oracle /\ oracle' = [oracle EXCEPT ![n].phase = phase]
      BY <1>4 DEF Finish
  <2> DEFINE account == [oracle[n] EXCEPT !.phase = phase]
  <2>2. oracle[n] = OracleFields(oracle[n])
      BY <2>1 DEF Shapes
  <2>3. /\ account = OracleFields(account)
        /\ account.min_stake = oracle[n].min_stake /\ account.config = oracle[n].config
        /\ account.options_count = oracle[n].options_count /\ account.heir = oracle[n].heir
      BY <2>2 DEF OracleFields
  <2>4. oracle' = [oracle EXCEPT ![n] = account]
      BY <2>1
  <2> HIDE DEF account
  <2> QED
      BY <2>1, <2>3, <2>4 DEF Shapes, SameTerms
<1>5. ASSUME NEW n, NEW meta_passed, SweepOracle(n, meta_passed)
      PROVE  Kept
    BY <1>5 DEF SweepOracle, Delete, Shapes, SameTerms
<1>6. ASSUME NEW n \in Nonces, Live(n)
      PROVE  Kept \/ oracle' = oracle
    BY <1>2, <1>3, <1>4, <1>5, <1>6, Zenon DEF Live, WriteOracleMeta, Claim
<1>7. (Govern \/ Tick \/ UNCHANGED vars) => oracle' = oracle
    BY DEF Govern, InitProtocol, SetGovernance, SetConfig, Tick, vars
<1> QED
    BY <1>1, <1>6, <1>7, Zenon DEF Next

\* A stake that is there was there, or has just been made and meets the floor.
LEMMA StakeStep ==
    ASSUME [Next]_vars, NEW n, NEW s, <<n, s>> \in DOMAIN stake'
    PROVE  \/ <<n, s>> \in DOMAIN stake /\ stake'[<<n, s>>] = stake[<<n, s>>]
           \/ n \in DOMAIN oracle /\ stake'[<<n, s>>] >= oracle[n].min_stake
<1>1. ASSUME NEW m, NEW r, NEW amount, Stake(r, m, amount)
      PROVE  \/ <<n, s>> \in DOMAIN stake /\ stake'[<<n, s>>] = stake[<<n, s>>]
             \/ n \in DOMAIN oracle /\ stake'[<<n, s>>] >= oracle[n].min_stake
  <2>1. /\ stake' = Create(stake, <<m, r>>, amount) /\ m \in DOMAIN oracle
        /\ amount >= oracle[m].min_stake
      BY <1>1 DEF Stake, FloorOf
  <2> QED
      BY <2>1 DEF Create
<1>2. ASSUME NEW m, NEW r, Claim(m, r)
      PROVE  <<n, s>> \in DOMAIN stake /\ stake'[<<n, s>>] = stake[<<n, s>>]
    BY <1>2 DEF Claim, Delete
<1>3. CASE UNCHANGED stake
    BY <1>3
<1>4. ASSUME NEW m \in Nonces, Live(m)
      PROVE  \/ UNCHANGED stake
             \/ \E r, amount : Stake(r, m, amount)
             \/ \E r : Claim(m, r)
    BY <1>4 DEF Live, CreateOracle, WriteOracleMeta, Finish, SweepOracle
<1>5. (Govern \/ Tick \/ UNCHANGED vars) => UNCHANGED stake
    BY DEF Govern, InitProtocol, SetGovernance, SetConfig, Tick, vars
<1> QED
    BY <1>1, <1>2, <1>3, <1>4, <1>5 DEF Next

\* Metadata that is there was there, or has just been written for the oracle.
LEMMA MetaStep ==
    ASSUME [Next]_vars, NEW n, n \in DOMAIN oracle_meta'
    PROVE  \/ n \in DOMAIN oracle_meta /\ oracle_meta'[n] = oracle_meta[n]
           \/ n \in DOMAIN oracle /\ oracle_meta'[n] = oracle[n].options_count
<1>1. ASSUME NEW k, NEW m, NEW options_count, WriteOracleMeta(k, m, options_count)
      PROVE  \/ n \in DOMAIN oracle_meta /\ oracle_meta'[n] = oracle_meta[n]
             \/ n \in DOMAIN oracle /\ oracle_meta'[n] = oracle[n].options_count
    BY <1>1 DEF WriteOracleMeta, DescribesOracle, Create
<1>2. ASSUME NEW m, NEW meta_passed, SweepOracle(m, meta_passed)
      PROVE  n \in DOMAIN oracle_meta /\ oracle_meta'[n] = oracle_meta[n]
    BY <1>2 DEF SweepOracle, Delete
<1>3. CASE UNCHANGED oracle_meta
    BY <1>3
<1>4. ASSUME NEW m \in Nonces, Live(m)
      PROVE  \/ UNCHANGED oracle_meta
             \/ \E k, options_count : WriteOracleMeta(k, m, options_count)
             \/ \E meta_passed : SweepOracle(m, meta_passed)
    BY <1>4 DEF Live, CreateOracle, Stake, Claim, Finish
<1>5. (Govern \/ Tick \/ UNCHANGED vars) => UNCHANGED oracle_meta
    BY DEF Govern, InitProtocol, SetGovernance, SetConfig, Tick, vars
<1> QED
    BY <1>1, <1>2, <1>3, <1>4, <1>5 DEF Next
-----------------------------------------------------------------------------
\* The invariant

LEMMA ProtocolInvStep == ProtocolInv /\ [Next]_vars => ProtocolInv'
<1> SUFFICES ASSUME ProtocolInv, [Next]_vars PROVE ProtocolInv'
    OBVIOUS
<1>1. Shapes /\ ConfigUsable
    BY DEF ProtocolInv
<1>2. Shapes'
  <2>1. protocol'.initialized \in BOOLEAN /\ (Initialized' => protocol' = ProtocolFields(protocol'))
      BY <1>1, ProtocolStep DEF Shapes, Initialized
  <2> QED
      BY <1>1, <2>1, OracleStep DEF Shapes, ProtocolFields, OracleFields
<1>3. ConfigUsable'
  <2>1. GenesisConfig \in ConfigParams /\ Usable(GenesisConfig)
      BY ValidIsUsable, GenesisAssumption, ProtocolAssumption
  <2>2. /\ Initialized' => protocol'.config \in ConfigParams /\ Usable(protocol'.config)
      BY <1>1, <2>1, ProtocolStep, ValidIsUsable DEF ConfigUsable, Initialized
  <2> QED
      BY <2>2 DEF ConfigUsable, Usable
<1>4. SnapshotsUsable'
  <2>1. \A n \in DOMAIN oracle' : Usable(oracle'[n].config)
      BY <1>1, OracleStep DEF ProtocolInv, ConfigUsable, SnapshotsUsable, SameTerms, NewTerms
  <2> QED
      BY <2>1 DEF SnapshotsUsable, Usable
<1>5. StakesMeetTheirFloor'
  <2> SUFFICES ASSUME NEW n \in DOMAIN oracle', ~oracle'[n].heir,
                      NEW s \in Stakers, <<n, s>> \in DOMAIN stake'
               PROVE  stake'[<<n, s>>] >= oracle'[n].min_stake
      BY DEF StakesMeetTheirFloor, StakesOn
  <2>1. CASE n \in DOMAIN oracle /\ SameTerms(n)
    <3>1. \A r \in Stakers : <<n, r>> \in DOMAIN stake => stake[<<n, r>>] >= oracle[n].min_stake
        BY <2>1 DEF ProtocolInv, StakesMeetTheirFloor, StakesOn, SameTerms
    <3> QED
        BY <2>1, <3>1, StakeStep DEF SameTerms
  <2>2. CASE NewTerms(n)
    <3>1. <<n, s>> \in DOMAIN stake
        BY <2>2 DEF NewTerms
    <3>2. s \in StakesOn(n)
        BY <3>1 DEF StakesOn
    <3> QED
        BY <2>2, <3>2 DEF NewTerms, LeftBehind
  <2> QED
      BY <1>1, <2>1, <2>2, OracleStep
<1>6. MetaMatchesOracle'
  <2> SUFFICES ASSUME NEW n \in DOMAIN oracle', n \in DOMAIN oracle_meta', ~oracle'[n].heir
               PROVE  oracle_meta'[n] = oracle'[n].options_count
      BY DEF MetaMatchesOracle
  <2>1. CASE n \in DOMAIN oracle /\ SameTerms(n)
      BY <2>1, MetaStep DEF ProtocolInv, MetaMatchesOracle, SameTerms
  <2>2. CASE NewTerms(n)
      BY <2>2 DEF NewTerms, LeftBehind
  <2> QED
      BY <1>1, <2>1, <2>2, OracleStep
<1> QED
    BY <1>2, <1>3, <1>4, <1>5, <1>6 DEF ProtocolInv

LEMMA ProtocolInvHolds == Spec => []ProtocolInv
<1>1. Init => ProtocolInv
  <2> SUFFICES ASSUME Init PROVE ProtocolInv
      OBVIOUS
  <2>1. protocol.initialized = FALSE
      BY DEF Init, NoProtocol
  <2>2. oracle = << >> /\ DOMAIN oracle = {}
      BY DEF Init
  <2>3. oracle = [n \in DOMAIN oracle |-> oracle[n]]
      BY <2>2
  <2>4. Shapes
      BY <2>1, <2>2, <2>3 DEF Shapes, Initialized
  <2>5. ConfigUsable
      BY <2>1 DEF ConfigUsable, Initialized
  <2>6. SnapshotsUsable /\ StakesMeetTheirFloor /\ MetaMatchesOracle
      BY <2>2 DEF SnapshotsUsable, StakesMeetTheirFloor, MetaMatchesOracle
  <2> QED
      BY <2>4, <2>5, <2>6 DEF ProtocolInv
<1> QED
    BY <1>1, ProtocolInvStep, PTL DEF Spec

-----------------------------------------------------------------------------
\* What is promised to oracles and of governance

\* Every oracle works from parameters that its arithmetic can take, whatever
\* governance sent: one bond pays a flip slash and a challenge fee together
\* (set_config.rs, create_oracle.rs).
THEOREM SnapshotsStayUsable == Spec => []SnapshotsUsable
<1>1. ProtocolInv => SnapshotsUsable
    BY DEF ProtocolInv
<1> QED
    BY <1>1, ProtocolInvHolds, PTL

\* A stake never falls short of the floor its oracle was created with, however
\* governance moves the ramp, unless a swept predecessor left it (propose.rs).
THEOREM FloorsAreMet == Spec => []StakesMeetTheirFloor
<1>1. ProtocolInv => StakesMeetTheirFloor
    BY DEF ProtocolInv
<1> QED
    BY <1>1, ProtocolInvHolds, PTL

\* The metadata at an oracle's address lists its options, with the same
\* exception (write_oracle_meta.rs, sweep_oracle.rs).
THEOREM MetadataMatches == Spec => []MetaMatchesOracle
<1>1. ProtocolInv => MetaMatchesOracle
    BY DEF ProtocolInv
<1> QED
    BY <1>1, ProtocolInvHolds, PTL

\* Stakes at their floor, and metadata of the oracle beside which it is found.
THEOREM AccountsAreOwn == Spec => []AccountsBelong
BY FloorsAreMet, MetadataMatches, PTL DEF AccountsBelong

\* Governance is answerable: the configuration, the DAO and the hand-over change
\* by the hand of whoever governs then, and of nobody else (set_governance.rs,
\* set_config.rs).
THEOREM OnlyAuthorityGoverns == Spec => OnlyTheAuthorityGoverns
<1>1. ProtocolInv /\ [Next]_vars =>
        [/\ Initialized
         /\ \/ protocol'.config # protocol.config
            \/ protocol'.dao_authority # protocol.dao_authority
            \/ protocol'.governance_set # protocol.governance_set
         => /\ protocol'.governance_set
            /\ signer' = IF protocol.governance_set THEN protocol.dao_authority
                                                    ELSE protocol.admin]_vars
    BY ProtocolStep DEF ProtocolInv, LinkageAuthority
<1> QED
    BY <1>1, ProtocolInvHolds, PTL DEF Spec, OnlyTheAuthorityGoverns
-----------------------------------------------------------------------------
\* Halving

\* The subsets of a set double in number with each new element.
LEMMA PowerDoubles ==
    ASSUME NEW n \in Nat
    PROVE  2^n \in Nat /\ 2^n > 0 /\ 2^(n + 1) = 2 * 2^n
<1> DEFINE S == 1 .. n
           x == n + 1
           A == SUBSET S
           B == { T \cup {x} : T \in A }
<1>1. /\ IsFiniteSet(S) /\ Cardinality(S) = n
      /\ IsFiniteSet(1 .. n + 1) /\ Cardinality(1 .. n + 1) = n + 1
    BY FS_Interval
<1>2. /\ IsFiniteSet(A) /\ Cardinality(A) = 2^n
      /\ IsFiniteSet(SUBSET (1 .. n + 1)) /\ Cardinality(SUBSET (1 .. n + 1)) = 2^(n + 1)
    BY <1>1, FS_SUBSET
<1>3. 2^n \in Nat /\ 2^n # 0
  <2>1. {} \in A
      OBVIOUS
  <2> QED
      BY <1>2, <2>1, FS_CardinalityType, FS_EmptySet
<1>4. IsFiniteSet(B) /\ Cardinality(B) = Cardinality(A)
  <2> DEFINE f == [T \in A |-> T \cup {x}]
  <2>1. x \notin S
      OBVIOUS
  <2>2. f \in Bijection(A, B)
    <3>1. f \in [A -> B]
        OBVIOUS
    <3>2. \A T, U \in A : f[T] = f[U] => T = U
      <4> SUFFICES ASSUME NEW T \in A, NEW U \in A, T \cup {x} = U \cup {x} PROVE T = U
          OBVIOUS
      <4>1. x \notin T /\ x \notin U
          BY <2>1
      <4>2. (T \cup {x}) \ {x} = T /\ (U \cup {x}) \ {x} = U
          BY <4>1
      <4> QED
          BY <4>2, Zenon
    <3>3. \A b \in B : \E T \in A : f[T] = b
        OBVIOUS
    <3> HIDE DEF f, A, B
    <3> QED
        BY <3>1, <3>2, <3>3 DEF Bijection, Injection, Surjection, IsInjective
  <2> HIDE DEF f, A, B
  <2> QED
      BY <1>2, <2>2, FS_Bijection DEF ExistsBijection
<1>5. SUBSET (1 .. n + 1) = A \cup B
  <2>1. 1 .. n + 1 = S \cup {x}
      OBVIOUS
  <2> HIDE DEF S, x
  <2>2. ASSUME NEW T \in SUBSET (S \cup {x})
        PROVE  T \in A \cup B
    <3>1. CASE x \in T
      <4>1. T \ {x} \in A /\ T = (T \ {x}) \cup {x}
          BY <3>1
      <4> QED
          BY <4>1, Zenon
    <3>2. CASE x \notin T
        BY <3>2
    <3> QED
        BY <3>1, <3>2
  <2>3. A \cup B \subseteq SUBSET (S \cup {x})
      OBVIOUS
  <2> QED
      BY <2>1, <2>2, <2>3
<1>6. A \cap B = {}
    OBVIOUS
<1>7. 2^(n + 1) = Cardinality(A) + Cardinality(B)
  <2> HIDE DEF A, B
  <2>1. Cardinality(A \cup B) = Cardinality(A) + Cardinality(B) - Cardinality(A \cap B)
      BY <1>2, <1>4, FS_Union
  <2>2. Cardinality({}) = 0
      BY FS_EmptySet
  <2>3. Cardinality(A \cap B) = 0
      BY <1>6, <2>2, Zenon
  <2>4. Cardinality(A \cup B) = 2^(n + 1)
      BY <1>2, <1>5, Zenon
  <2> DEFINE a == Cardinality(A)
             b == Cardinality(B)
  <2>5. a \in Nat /\ b \in Nat
      BY <1>2, <1>4, FS_CardinalityType
  <2> HIDE DEF a, b
  <2>6. a + b - 0 = a + b
      BY <2>5
  <2> QED
      BY <2>1, <2>3, <2>4, <2>6 DEF a, b
<1> QED
    BY <1>2, <1>3, <1>4, <1>7
-----------------------------------------------------------------------------
\* The creation fee decays

\* What is left of ema after k steps of the d that two half-lives have.
LEMMA ScaledDown ==
    ASSUME NEW b \in Nat, NEW k \in Nat, NEW d \in Nat \ {0}, k <= d
    PROVE  (b * k) \div d \in Nat /\ (b * k) \div d <= b
<1> DEFINE p == b * k
<1>1. p \in Nat /\ p <= b * d
    OBVIOUS
<1> HIDE DEF p
<1> DEFINE q == p \div d
<1>2. q \in Nat /\ d * q <= p
    BY <1>1, FloorBounds
<1> HIDE DEF q
<1>3. q * d <= b * d
    BY <1>1, <1>2
<1>4. q <= b
    BY <1>2, <1>3
<1> QED
    BY <1>2, <1>4 DEF p, q

LEMMA FloorMonotone ==
    ASSUME NEW x \in Nat, NEW y \in Nat, x <= y, NEW d \in Nat \ {0}
    PROVE  x \div d <= y \div d
<1> DEFINE p == x \div d
           q == y \div d
<1>1. p \in Nat /\ d * p <= x /\ q \in Nat /\ y < d * (q + 1)
    BY FloorBounds
<1> HIDE DEF p, q
<1>2. d * p < d * (q + 1)
    BY <1>1
<1>3. p < q + 1
    BY <1>1, <1>2
<1> QED
    BY <1>1, <1>3 DEF p, q

\* Halving once more takes at least half of what is left.
LEMMA HalvedAgain ==
    ASSUME NEW ema \in Nat, NEW p \in Nat \ {0}
    PROVE  2 * (ema \div (2 * p)) <= ema \div p
<1> DEFINE x == ema \div (2 * p)
           y == ema \div p
<1>1. x \in Nat /\ (2 * p) * x <= ema /\ y \in Nat /\ ema < p * (y + 1)
  <2>1. 2 * p \in Nat /\ 2 * p > 0
      OBVIOUS
  <2> QED
      BY <2>1, FloorBounds
<1> HIDE DEF x, y
<1>2. p * (2 * x) < p * (y + 1)
    BY <1>1
<1>3. 2 * x < y + 1
    BY <1>1, <1>2
<1> QED
    BY <1>1, <1>3 DEF x, y

\* d seconds on, as whole half-lives of h seconds and a rest.
Interpolated(ema, h, whole, rem) ==
    ((ema \div 2^whole) * (2 * h - rem)) \div (2 * h)

LEMMA HalvingBounded ==
    ASSUME NEW ema \in Nat, NEW whole \in Nat
    PROVE  ema \div 2^whole \in Nat /\ ema \div 2^whole <= ema
<1> DEFINE p == 2^whole
<1>1. p \in Nat \ {0}
    BY PowerDoubles
<1> HIDE DEF p
<1>2. (ema * 1) \div p \in Nat /\ (ema * 1) \div p <= ema
    BY <1>1, ScaledDown
<1> QED
    BY <1>2 DEF p

LEMMA InterpolationBounded ==
    ASSUME NEW ema \in Nat, NEW h \in Nat \ {0}, NEW whole \in Nat, NEW rem \in 0 .. h
    PROVE  Interpolated(ema, h, whole, rem) \in Nat /\ Interpolated(ema, h, whole, rem) <= ema
<1> DEFINE b == ema \div 2^whole
           k == 2 * h - rem
           d == 2 * h
<1>1. b \in Nat /\ b <= ema
    BY HalvingBounded
<1>2. k \in Nat /\ d \in Nat \ {0} /\ k <= d
    OBVIOUS
<1> HIDE DEF b, k, d
<1>3. (b * k) \div d \in Nat /\ (b * k) \div d <= b
    BY <1>1, <1>2, ScaledDown
<1>4. (b * k) \div d \in Nat /\ (b * k) \div d <= ema
    BY <1>1, <1>3
<1> QED
    BY <1>4 DEF b, k, d, Interpolated

\* Within a half-life the average falls, and does not rise where two join.
LEMMA InterpolationFalls ==
    ASSUME NEW ema \in Nat, NEW h \in Nat \ {0}, NEW whole \in Nat, NEW rem \in 0 .. h - 1
    PROVE  Interpolated(ema, h, whole, rem + 1) <= Interpolated(ema, h, whole, rem)
<1> DEFINE b == ema \div 2^whole
           k == 2 * h - rem
           l == 2 * h - (rem + 1)
           d == 2 * h
<1>1. b \in Nat
    BY HalvingBounded
<1>2. k \in Nat /\ l \in Nat /\ l <= k /\ d \in Nat \ {0}
    OBVIOUS
<1> HIDE DEF b, k, l, d
<1>3. b * l \in Nat /\ b * k \in Nat /\ b * l <= b * k
    BY <1>1, <1>2
<1>4. (b * l) \div d <= (b * k) \div d
    BY <1>2, <1>3, FloorMonotone
<1> QED
    BY <1>4 DEF b, k, l, d, Interpolated

LEMMA InterpolationJoins ==
    ASSUME NEW ema \in Nat, NEW h \in Nat \ {0}, NEW whole \in Nat
    PROVE  Interpolated(ema, h, whole + 1, 0) <= Interpolated(ema, h, whole, h)
<1> DEFINE p == 2^whole
           b == ema \div p
           c == ema \div (2 * p)
           d == 2 * h
<1>1. p \in Nat \ {0} /\ 2^(whole + 1) = 2 * p
    BY PowerDoubles
<1>2. b \in Nat /\ c \in Nat /\ 2 * c <= b
  <2>1. b \in Nat
      BY HalvingBounded
  <2> HIDE DEF p
  <2>2. 2 * p \in Nat /\ 2 * p > 0
      BY <1>1
  <2>3. c \in Nat
      BY <2>2, FloorBounds
  <2> QED
      BY <1>1, <2>1, <2>3, HalvedAgain
<1>3. d \in Nat \ {0} /\ 2 * h - h = h /\ 2 * h - 0 = d
    OBVIOUS
<1>4. Interpolated(ema, h, whole + 1, 0) = (c * d) \div d
    BY <1>1, <1>3 DEF Interpolated
<1>5. Interpolated(ema, h, whole, h) = (b * h) \div d
    BY <1>3 DEF Interpolated
<1>6. c * d \in Nat /\ b * h \in Nat /\ c * d <= b * h
  <2> HIDE DEF b, c
  <2>1. c * d = (2 * c) * h
      BY <1>2
  <2> HIDE DEF d
  <2>2. (2 * c) * h <= b * h
      BY <1>2
  <2> QED
      BY <1>2, <1>3, <2>1, <2>2
<1> HIDE DEF b, c, d
<1> QED
    BY <1>3, <1>4, <1>5, <1>6, FloorMonotone

LEMMA Elapsed ==
    ASSUME NEW d \in Nat, NEW h \in Nat \ {0}
    PROVE  /\ d \div h \in Nat /\ d % h \in 0 .. h - 1
           /\ \/ (d + 1) \div h = d \div h /\ (d + 1) % h = (d % h) + 1
              \/ (d + 1) \div h = d \div h + 1 /\ (d + 1) % h = 0 /\ d % h = h - 1
<1> DEFINE q == d \div h
           r == d % h
           s == (d + 1) \div h
           z == (d + 1) % h
<1>1. /\ q \in Int /\ r \in 0 .. h - 1 /\ d = h * q + r
      /\ s \in Int /\ z \in 0 .. h - 1 /\ d + 1 = h * s + z
    OBVIOUS
<1>2. q \in Nat
    BY FloorBounds
<1> HIDE DEF q, r, s, z
<1>3. h * s + z = h * q + (r + 1)
    BY <1>1
<1>4. CASE r < h - 1
  <2>1. s = q
    <3>1. h * s < h * (q + 1) /\ h * q < h * (s + 1)
        BY <1>1, <1>3, <1>4
    <3>2. s < q + 1 /\ q < s + 1
        BY <1>1, <3>1
    <3> QED
        BY <1>1, <3>2
  <2> QED
      BY <1>1, <1>2, <1>3, <2>1 DEF q, r, s, z
<1>5. CASE r = h - 1
  <2>1. h * s + z = h * (q + 1)
      BY <1>1, <1>3, <1>5
  <2>2. s = q + 1
    <3>1. h * s < h * (q + 2) /\ h * (q + 1) < h * (s + 1)
        BY <1>1, <2>1
    <3>2. s < q + 2 /\ q + 1 < s + 1
        BY <1>1, <3>1
    <3> QED
        BY <1>1, <3>2
  <2> QED
      BY <1>1, <1>2, <1>5, <2>1, <2>2 DEF q, r, s, z
<1> QED
    BY <1>1, <1>4, <1>5

LEMMA DecayIs ==
    ASSUME NEW ema, NEW last, NEW t
    PROVE  decay_fee_ema(ema, last, t) =
             IF t <= last THEN ema
             ELSE IF (t - last) \div FEE_EMA_HALFLIFE_SECS >= 64 THEN 0
             ELSE Interpolated(ema, FEE_EMA_HALFLIFE_SECS,
                               (t - last) \div FEE_EMA_HALFLIFE_SECS,
                               (t - last) % FEE_EMA_HALFLIFE_SECS)
BY DEF decay_fee_ema, Interpolated

LEMMA DecayBounded ==
    ASSUME NEW ema \in Nat, NEW last \in Int, NEW t \in Int
    PROVE  decay_fee_ema(ema, last, t) \in Nat /\ decay_fee_ema(ema, last, t) <= ema
<1> DEFINE h == FEE_EMA_HALFLIFE_SECS
           d == t - last
           whole == d \div h
           rem == d % h
<1>1. h \in Nat \ {0}
    BY ProtocolAssumption
<1>2. CASE t <= last
    BY <1>2 DEF decay_fee_ema
<1>3. CASE t > last
  <2>1. d \in Nat /\ ~(t <= last)
      BY <1>3
  <2>2. whole \in Nat /\ rem \in 0 .. h
    <3> HIDE DEF d, h
    <3>1. whole \in Nat /\ rem \in 0 .. h - 1
        BY <1>1, <2>1, Elapsed
    <3> QED
        BY <1>1, <3>1
  <2>3. Interpolated(ema, h, whole, rem) \in Nat /\ Interpolated(ema, h, whole, rem) <= ema
    <3> HIDE DEF h, whole, rem
    <3> QED
        BY <1>1, <2>2, InterpolationBounded
  <2>4. decay_fee_ema(ema, last, t) = IF whole >= 64 THEN 0 ELSE Interpolated(ema, h, whole, rem)
      BY <2>1, DecayIs
  <2> HIDE DEF whole, rem
  <2> QED
      BY <2>3, <2>4
<1> QED
    BY <1>2, <1>3

LEMMA DecayFalls ==
    ASSUME NEW ema \in Nat, NEW last \in Int, NEW t \in Int, t >= last
    PROVE  decay_fee_ema(ema, last, t + 1) <= decay_fee_ema(ema, last, t)
<1> DEFINE h == FEE_EMA_HALFLIFE_SECS
           d == t - last
           whole == d \div h
           rem == d % h
           wholeNext == (d + 1) \div h
           remNext == (d + 1) % h
           I(w, r) == Interpolated(ema, h, w, r)
<1>1. h \in Nat \ {0} /\ d \in Nat /\ d + 1 \in Nat
    BY ProtocolAssumption
<1>2. /\ whole \in Nat /\ rem \in 0 .. h - 1 /\ wholeNext \in Nat /\ remNext \in 0 .. h - 1
      /\ \/ wholeNext = whole /\ remNext = rem + 1
         \/ wholeNext = whole + 1 /\ remNext = 0 /\ rem = h - 1
  <2> HIDE DEF d, h
  <2> QED
      BY <1>1, Elapsed
<1>3. decay_fee_ema(ema, last, t + 1) = IF wholeNext >= 64 THEN 0 ELSE I(wholeNext, remNext)
  <2>1. ~(t + 1 <= last) /\ (t + 1) - last = d + 1
      OBVIOUS
  <2> QED
      BY <2>1, DecayIs
<1>4. CASE t = last
  <2>1. decay_fee_ema(ema, last, t) = ema
      BY <1>4 DEF decay_fee_ema
  <2>2. t + 1 \in Int
      OBVIOUS
  <2> QED
      BY <2>1, <2>2, DecayBounded
<1>5. CASE t > last
  <2>1. decay_fee_ema(ema, last, t) = IF whole >= 64 THEN 0 ELSE I(whole, rem)
      BY <1>5, DecayIs
  <2> HIDE DEF h, whole, rem, wholeNext, remNext
  <2>2. /\ I(whole, rem) \in Nat /\ I(wholeNext, remNext) \in Nat
        /\ I(whole + 1, 0) \in Nat /\ I(whole, h) \in Nat
    <3>1. rem \in 0 .. h /\ remNext \in 0 .. h /\ 0 \in 0 .. h /\ h \in 0 .. h /\ whole + 1 \in Nat
        BY <1>1, <1>2
    <3> QED
        BY <1>1, <1>2, <3>1, InterpolationBounded
  <2>3. I(whole, rem + 1) <= I(whole, rem) /\ I(whole + 1, 0) <= I(whole, h)
      BY <1>1, <1>2, InterpolationFalls, InterpolationJoins
  <2>4. I(wholeNext, remNext) <= I(whole, rem) \/ whole >= 64
    <3>1. CASE wholeNext = whole /\ remNext = rem + 1
        BY <2>3, <3>1
    <3>2. CASE wholeNext = whole + 1 /\ remNext = 0 /\ rem = h - 1
      <4>1. rem + 1 = h
          BY <1>1, <3>2
      <4>2. I(whole, h) <= I(whole, rem)
          BY <2>3, <4>1
      <4> HIDE DEF I
      <4> QED
          BY <2>2, <2>3, <3>2, <4>2
    <3> QED
        BY <1>2, <3>1, <3>2
  <2>5. wholeNext \in Nat /\ whole \in Nat /\ wholeNext >= whole
      BY <1>2
  <2> HIDE DEF I
  <2> QED
      BY <1>3, <2>1, <2>2, <2>4, <2>5
<1> QED
    BY <1>4, <1>5

-----------------------------------------------------------------------------
\* What the accounts hold

\* The stake of everybody who has one on the oracle of nonce n.
StakeOf(n) == [s \in StakesOn(n) |-> stake[<<n, s>>]]

\* Until a dead end burns it, the emission is in the vault beside the stakes.
Reserved(n) == IF oracle[n].phase = "InvalidDeadend" THEN 0 ELSE oracle[n].reward_emission

VaultsReserve ==
    \A n \in DOMAIN oracle : ~oracle[n].heir =>
        SumFunction(StakeOf(n)) + Reserved(n) <= stake_vault[n]

\* No token is in a vault that is not in circulation.
VaultsInSupply == InVaults <= supply

\* Creation

LEMMA CreationAmounts ==
    ASSUME NEW ema \in Nat, NEW c \in ConfigParams, Usable(c), NEW circulating \in U64
    PROVE  /\ fee_for_ema(ema) \in U64 /\ bumped_fee_ema(ema) \in U64
           /\ stake_floor(ema, c) \in U64
           /\ compute_reward_emission(c, circulating) \in U64
           /\ compute_reward_emission(c, circulating) > 0 =>
                 compute_reward_emission(c, circulating) + circulating
                     <= c.amount["total_supply_cap"]
           /\ circulating + compute_reward_emission(c, circulating) \in U64
<1>1. U64 \subseteq Nat /\ U64_MAX \in Nat
    BY U64MaxAssumption DEF U64
<1>2. fee_for_ema(ema) \in U64
  <2>1. FEE_PER_EMA_UNIT \in Nat /\ FEE_EMA_SCALE \in Nat \ {0}
      BY <1>1, ProtocolAssumption
  <2>2. FEE_PER_EMA_UNIT * ema \in Nat
      BY <2>1
  <2>3. (FEE_PER_EMA_UNIT * ema) \div FEE_EMA_SCALE \in Nat
      BY <2>1, <2>2, FloorBounds
  <2> QED
      BY <1>1, <2>3 DEF fee_for_ema, Saturated, U64
<1>3. bumped_fee_ema(ema) \in U64
  <2>1. FEE_EMA_INCREMENT \in Nat
      BY <1>1, ProtocolAssumption
  <2> QED
      BY <1>1, <2>1 DEF bumped_fee_ema, Saturated, U64
<1>4. \A a \in Amounts64 : c.amount[a] \in U64
    BY DEF ConfigParams
<1>5. stake_floor(ema, c) \in U64
  <2> DEFINE threshold == c.amount["stake_floor_ema_threshold"]
             cap == c.amount["stake_floor_ema_cap"]
             max == c.amount["stake_floor_max"]
  <2>1. threshold \in U64 /\ cap \in U64 /\ max \in U64
      BY <1>4 DEF Amounts64
  <2>2. stake_floor(ema, c) =
            IF max = 0 \/ cap <= threshold \/ ema <= threshold THEN 0
            ELSE IF ema >= cap THEN max
            ELSE (max * (ema - threshold)) \div (cap - threshold)
      BY DEF stake_floor
  <2> HIDE DEF threshold, cap, max
  <2>3. CASE max # 0 /\ ~(cap <= threshold) /\ ~(ema <= threshold) /\ ~(ema >= cap)
    <3>1. ema - threshold \in Nat /\ cap - threshold \in Nat \ {0} /\ ema - threshold <= cap - threshold
        BY <1>1, <2>1, <2>3
    <3>2. max \in Nat
        BY <1>1, <2>1
    <3>3. (max * (ema - threshold)) \div (cap - threshold) \in Nat
          /\ (max * (ema - threshold)) \div (cap - threshold) <= max
        BY <3>1, <3>2, ScaledDown
    <3>4. stake_floor(ema, c) = (max * (ema - threshold)) \div (cap - threshold)
        BY <2>2, <2>3
    <3> DEFINE floor == (max * (ema - threshold)) \div (cap - threshold)
    <3> HIDE DEF floor
    <3>5. floor \in U64
        BY <1>1, <2>1, <3>3 DEF U64, floor
    <3> QED
        BY <3>4, <3>5 DEF floor
  <2>4. 0 \in U64
      BY <1>1 DEF U64
  <2> QED
      BY <2>1, <2>2, <2>3, <2>4
<1>6. /\ compute_reward_emission(c, circulating) \in U64
      /\ compute_reward_emission(c, circulating) > 0 =>
            compute_reward_emission(c, circulating) + circulating
                <= c.amount["total_supply_cap"]
      /\ circulating + compute_reward_emission(c, circulating) \in U64
  <2> DEFINE cap == c.amount["total_supply_cap"]
             ratio == c.fraction["emission"]
             reservoir == IF cap > circulating THEN cap - circulating ELSE 0
             share == FloorFrac(reservoir, ratio)
             emission == compute_reward_emission(c, circulating)
  <2>1. cap \in U64 /\ circulating \in U64 /\ ratio \in ProperRatio
      BY <1>4 DEF Amounts64, Usable, Fractions
  <2>2. emission = IF ratio.num = 0 \/ cap = 0 THEN 0
                   ELSE IF share > reservoir THEN reservoir ELSE share
      BY DEF compute_reward_emission
  <2>3. reservoir \in Nat /\ (reservoir > 0 => reservoir = cap - circulating)
    <3> HIDE DEF cap
    <3> QED
        BY <1>1, <2>1
  <2>4. share \in Nat
    <3>1. ratio.num \in Nat /\ ratio.den \in Nat \ {0}
        BY <1>1, <2>1 DEF ProperRatio, Ratio
    <3> HIDE DEF ratio, reservoir
    <3>2. reservoir * ratio.num \in Nat
        BY <2>3, <3>1
    <3>3. (reservoir * ratio.num) \div ratio.den \in Nat
        BY <3>1, <3>2, FloorBounds
    <3> QED
        BY <3>3 DEF FloorFrac
  <2> HIDE DEF share, reservoir, ratio, emission
  <2>5. emission \in Nat /\ emission <= reservoir
      BY <2>2, <2>3, <2>4
  <2> HIDE DEF cap
  <2>6. circulating \in Nat /\ cap \in Nat /\ cap <= U64_MAX /\ circulating <= U64_MAX
      BY <2>1, <1>1 DEF U64
  <2>7. emission > 0 => emission + circulating <= cap
      BY <2>3, <2>5, <2>6
  <2>8. emission <= U64_MAX /\ circulating + emission <= U64_MAX
      BY <1>1, <2>5, <2>6, <2>7
  <2>9. emission \in U64 /\ circulating + emission \in U64
      BY <1>1, <2>5, <2>6, <2>8 DEF U64
  <2> QED
      BY <2>7, <2>9 DEF emission, cap
<1> QED
    BY <1>2, <1>3, <1>5, <1>6

-----------------------------------------------------------------------------
\* Sums over accounts that come, change and go

Balances(f) == IsFiniteSet(DOMAIN f) /\ IntOn(f, DOMAIN f)

LEMMA SumOfCreated ==
    ASSUME NEW f, Balances(f), NEW k, k \notin DOMAIN f, NEW v \in Int
    PROVE  SumFunction(Create(f, k, v)) = SumFunction(f) + v
<1> DEFINE g == Create(f, k, v)
           S == DOMAIN f
<1>1. DOMAIN g = S \cup {k} /\ g[k] = v /\ \A x \in S \ {k} : g[x] = f[x]
    BY DEF Create
<1>2. IsFiniteSet(S) /\ IntOn(f, S) /\ k \notin S
    BY DEF Balances
<1> HIDE DEF g, S
<1>3. SumFunctionOnSet(g, S \cup {k}) = SumFunctionOnSet(f, S) + v
    BY <1>1, <1>2, SumCredit
<1> QED
    BY <1>1, <1>3, Zenon DEF SumFunction, S, g

LEMMA SumOfDeleted ==
    ASSUME NEW f, Balances(f), NEW k \in DOMAIN f
    PROVE  SumFunction(Delete(f, k)) = SumFunction(f) - f[k]
<1> DEFINE g == Delete(f, k)
           S == DOMAIN f
<1>1. DOMAIN g = S \ {k} /\ \A x \in S \ {k} : g[x] = f[x]
    BY DEF Delete
<1>2. IsFiniteSet(S) /\ IntOn(f, S) /\ k \in S
    BY DEF Balances
<1> HIDE DEF g, S
<1>3. SumFunctionOnSet(g, S \ {k}) = SumFunctionOnSet(f, S) - f[k]
    BY <1>1, <1>2, SumLeave
<1> QED
    BY <1>1, <1>3, Zenon DEF SumFunction, S, g

LEMMA SumOfChanged ==
    ASSUME NEW f, Balances(f), NEW k \in DOMAIN f, NEW g, DOMAIN g = DOMAIN f,
           g[k] \in Int, \A x \in DOMAIN f \ {k} : g[x] = f[x]
    PROVE  SumFunction(g) = SumFunction(f) - f[k] + g[k]
<1> DEFINE S == DOMAIN f
<1>1. IsFiniteSet(S) /\ IntOn(f, S) /\ k \in S /\ \A x \in S \ {k} : g[x] = f[x]
    BY DEF Balances
<1> HIDE DEF S
<1>2. SumFunctionOnSet(g, S) = SumFunctionOnSet(f, S) - f[k] + g[k]
    BY <1>1, SumUpdate
<1> QED
    BY <1>2, Zenon DEF SumFunction, S

LEMMA VaultBalances ==
    ASSUME TypeOK
    PROVE  Balances(stake_vault) /\ DOMAIN stake_vault = DOMAIN oracle /\ InVaults \in Nat
<1>1. DOMAIN stake_vault = DOMAIN oracle /\ IsFiniteSet(DOMAIN oracle)
    BY ProtocolAssumption, FS_Subset DEF TypeOK
<1>2. IntOn(stake_vault, DOMAIN oracle) /\ NatOn(stake_vault, DOMAIN oracle)
    BY U64MaxAssumption DEF TypeOK, IntOn, NatOn, U64
<1>3. SumFunctionOnSet(stake_vault, DOMAIN oracle) \in Nat
    BY <1>1, <1>2, SumNat
<1> QED
    BY <1>1, <1>2, <1>3, Zenon DEF Balances, InVaults, SumFunction

LEMMA StakeBalances ==
    ASSUME TypeOK, NEW n
    PROVE  /\ Balances(StakeOf(n)) /\ DOMAIN StakeOf(n) = StakesOn(n)
           /\ SumFunction(StakeOf(n)) \in Nat
<1> DEFINE f == StakeOf(n)
<1>1. DOMAIN f = StakesOn(n) /\ IsFiniteSet(StakesOn(n))
    BY ProtocolAssumption, FS_Subset DEF StakeOf, StakesOn
<1>2. \A s \in StakesOn(n) : f[s] = stake[<<n, s>>] /\ <<n, s>> \in DOMAIN stake
    BY DEF StakeOf, StakesOn
<1> HIDE DEF f
<1>3. \A k \in DOMAIN stake : stake[k] \in Nat
    BY U64MaxAssumption DEF TypeOK, U64
<1>4. IntOn(f, StakesOn(n)) /\ NatOn(f, StakesOn(n))
  <2>1. \A s \in StakesOn(n) : f[s] \in Nat
      BY <1>2, <1>3, Zenon
  <2> HIDE DEF f
  <2> QED
      BY <2>1 DEF IntOn, NatOn
<1>5. SumFunctionOnSet(f, StakesOn(n)) \in Nat
    BY <1>1, <1>4, SumNat
<1> QED
    BY <1>1, <1>4, <1>5, Zenon DEF Balances, SumFunction, f

-----------------------------------------------------------------------------
\* The accounts keep their type, and the vaults what they owe

HoldInv == TypeOK /\ VaultsInSupply /\ VaultsReserve

\* An instruction that moves no token and touches no stake.
LEMMA NothingMoves ==
    ASSUME HoldInv, UNCHANGED <<oracle, stake_vault, stake, supply>>
    PROVE  VaultsInSupply' /\ VaultsReserve'
<1>1. VaultsInSupply'
    BY DEF HoldInv, VaultsInSupply, InVaults
<1>2. \A n : StakeOf(n)' = StakeOf(n)
    BY DEF StakeOf, StakesOn
<1>3. \A n : Reserved(n)' = Reserved(n)
    BY DEF Reserved
<1>4. VaultsReserve
    BY DEF HoldInv
<1> QED
    BY <1>1, <1>2, <1>3, <1>4 DEF VaultsReserve

LEMMA GovernHolds ==
    ASSUME HoldInv, Govern
    PROVE  HoldInv'
<1> USE ProtocolAssumption
<1>1. /\ UNCHANGED <<now, oracle, stake_vault, oracle_meta, stake, supply, creations>>
      /\ protocol' \in ProtocolAccount /\ signer' \in Keys
  <2>1. Initialized => protocol \in ProtocolAccount
      BY DEF HoldInv, TypeOK, Initialized, NoProtocol
  <2>2. ASSUME NEW k \in Keys, InitProtocol(k)
        PROVE  protocol' \in ProtocolAccount
    <3>1. 0 \in U64
        BY DEF U64
    <3> QED
        BY <2>2, <3>1 DEF InitProtocol, ProtocolAccount
  <2>3. ASSUME NEW k \in Keys, NEW d \in DaoAuthorities, SetGovernance(k, d)
        PROVE  protocol' \in ProtocolAccount
      BY <2>1, <2>3 DEF SetGovernance, ProtocolAccount
  <2>4. ASSUME NEW k \in Keys, NEW c \in Configs, SetConfig(k, c)
        PROVE  protocol' \in ProtocolAccount
      BY <2>1, <2>4 DEF SetConfig, ProtocolAccount
  <2> QED
      BY <2>2, <2>3, <2>4 DEF Govern, InitProtocol, SetGovernance, SetConfig
<1>2. TypeOK'
    BY <1>1 DEF HoldInv, TypeOK
<1>3. VaultsInSupply' /\ VaultsReserve'
    BY <1>1, NothingMoves
<1> QED
    BY <1>2, <1>3 DEF HoldInv

LEMMA MetaHolds ==
    ASSUME HoldInv, NEW k \in Keys, NEW n \in Nonces, NEW options_count \in OptionCounts,
           WriteOracleMeta(k, n, options_count)
    PROVE  HoldInv'
<1>1. /\ UNCHANGED <<now, protocol, oracle, stake_vault, stake, supply, creations>>
      /\ oracle_meta' = Create(oracle_meta, n, options_count) /\ signer' = "other"
    BY DEF WriteOracleMeta
<1>2. options_count \in Nat
    BY ProtocolAssumption
<1>3. DOMAIN oracle_meta' \subseteq Nonces /\ oracle_meta' \in [DOMAIN oracle_meta' -> Nat]
    BY <1>1, <1>2 DEF Create, HoldInv, TypeOK
<1>4. TypeOK'
    BY <1>1, <1>3 DEF HoldInv, TypeOK
<1>5. VaultsInSupply' /\ VaultsReserve'
    BY <1>1, NothingMoves
<1> QED
    BY <1>4, <1>5 DEF HoldInv

\* The stakes on the other oracles are not touched by a stake on oracle n.
LEMMA OthersKeepStakes ==
    ASSUME NEW n, NEW s,
           \A k : k # <<n, s>> => /\ k \in DOMAIN stake' <=> k \in DOMAIN stake
                                  /\ k \in DOMAIN stake => stake'[k] = stake[k]
    PROVE  \A m : m # n => StakeOf(m)' = StakeOf(m)
<1> SUFFICES ASSUME NEW m, m # n PROVE StakeOf(m)' = StakeOf(m)
    OBVIOUS
<1>1. \A r : <<m, r>> # <<n, s>>
    OBVIOUS
<1>2. StakesOn(m)' = StakesOn(m)
    BY <1>1 DEF StakesOn
<1>3. \A r \in StakesOn(m) : stake'[<<m, r>>] = stake[<<m, r>>]
    BY <1>1 DEF StakesOn
<1> QED
    BY <1>2, <1>3 DEF StakeOf

LEMMA CreateHolds ==
    ASSUME HoldInv, ConfigUsable, NEW k \in Keys, NEW n \in Nonces,
           NEW options_count \in OptionCounts, NEW deadline \in Deadlines,
           NEW twap_window, CreateOracle(k, n, options_count, deadline, twap_window)
    PROVE  HoldInv'
<1> DEFINE ema == decay_fee_ema(protocol.fee_ema, protocol.last_creation_unix, now)
           fee == fee_for_ema(ema)
           emission == compute_reward_emission(protocol.config, supply - fee)
           account == NewOracle(k, n, options_count, deadline, ema, emission)
<1>1. /\ Initialized /\ n \notin DOMAIN oracle /\ fee <= supply - InVaults
      /\ protocol' = [protocol EXCEPT !.fee_ema = bumped_fee_ema(ema),
                                      !.last_creation_unix = now]
      /\ oracle' = Create(oracle, n, account)
      /\ stake_vault' = Create(stake_vault, n, emission)
      /\ supply' = supply - fee + emission
      /\ creations' = creations + 1 /\ signer' = "other"
      /\ UNCHANGED <<now, oracle_meta, stake>>
    BY DEF CreateOracle, NonceFree
<1>2. TypeOK
    BY DEF HoldInv
<1>3. /\ protocol \in ProtocolAccount /\ protocol.config \in ConfigParams
      /\ Usable(protocol.config)
    BY <1>1, <1>2 DEF TypeOK, Initialized, NoProtocol, ConfigUsable
<1>4. U64 \subseteq Nat /\ supply \in U64 /\ now \in Nat /\ creations \in Nat
    BY <1>2, U64MaxAssumption DEF TypeOK, U64
<1>5. ema \in Nat
  <2>1. protocol.fee_ema \in U64 /\ protocol.last_creation_unix \in Nat
      BY <1>3 DEF ProtocolAccount
  <2>2. protocol.fee_ema \in Nat
      BY <1>4, <2>1, Zenon
  <2>3. protocol.last_creation_unix \in Int
      BY <2>1
  <2>4. now \in Int
      BY <1>4
  <2> QED
      BY <2>2, <2>3, <2>4, DecayBounded
<1>6. InVaults \in Nat /\ Balances(stake_vault) /\ DOMAIN stake_vault = DOMAIN oracle
    BY <1>2, VaultBalances
<1> HIDE DEF ema
<1>7. fee \in U64 /\ bumped_fee_ema(ema) \in U64 /\ stake_floor(ema, protocol.config) \in U64
  <2>1. supply \in U64
      BY <1>4
  <2> QED
      BY <1>3, <1>5, <2>1, CreationAmounts
<1> HIDE DEF fee
<1>8. supply - fee \in U64 /\ InVaults <= supply - fee
  <2>1. fee \in Nat /\ supply \in Nat /\ supply <= U64_MAX /\ U64_MAX \in Nat
      BY <1>4, <1>7, U64MaxAssumption DEF U64
  <2>2. fee <= supply - InVaults
      BY <1>1
  <2>3. supply - fee \in Nat /\ supply - fee <= U64_MAX /\ InVaults <= supply - fee
      BY <1>6, <2>1, <2>2
  <2> QED
      BY <2>3 DEF U64
<1>9. emission \in U64 /\ (supply - fee) + emission \in U64
    BY <1>3, <1>5, <1>8, CreationAmounts
<1> HIDE DEF emission
<1>10. account \in OracleAccount
  <2>1. protocol.config.window["proposal_window"] \in Int
        /\ protocol.config.window["proposal_window"] > 0
      BY <1>3 DEF Usable, ConfigParams, Windows
  <2>2. deadline + protocol.config.window["proposal_window"] \in Nat
      BY <2>1, ProtocolAssumption
  <2>3. options_count \in Nat /\ LeftBehind(n) \in BOOLEAN
      BY ProtocolAssumption DEF LeftBehind
  <2>4. (0 \in Nat) /\ "Proposal" \in {"Proposal", "Resolved", "InvalidDeadend"}
      OBVIOUS
  <2> QED
      BY <1>3, <1>7, <1>9, <2>2, <2>3, <2>4 DEF NewOracle, OracleAccount
<1>11. /\ account.phase = "Proposal" /\ account.reward_emission = emission
       /\ account.heir = LeftBehind(n)
    BY DEF NewOracle
<1> HIDE DEF account
<1>12. TypeOK'
  <2>1. protocol' \in ProtocolAccount
      BY <1>1, <1>3, <1>4, <1>7 DEF ProtocolAccount
  <2>2. DOMAIN oracle' \subseteq Nonces /\ oracle' \in [DOMAIN oracle' -> OracleAccount]
      BY <1>1, <1>2, <1>10 DEF TypeOK, Create
  <2>3. stake_vault' \in [DOMAIN oracle' -> U64]
      BY <1>1, <1>2, <1>9 DEF TypeOK, Create
  <2>4. supply' \in U64 /\ creations' \in Nat
      BY <1>1, <1>4, <1>9
  <2> QED
      BY <1>1, <1>2, <2>1, <2>2, <2>3, <2>4 DEF TypeOK
<1>13. VaultsInSupply'
  <2>1. emission \in Int
      BY <1>4, <1>9
  <2>2. SumFunction(stake_vault') = InVaults + emission
      BY <1>1, <1>6, <2>1, SumOfCreated DEF InVaults
  <2>3. fee \in Int /\ supply \in Int
      BY <1>4, <1>7
  <2>4. InVaults + emission <= supply - fee + emission
      BY <1>6, <1>8, <2>1, <2>3
  <2> QED
      BY <1>1, <2>2, <2>4 DEF VaultsInSupply, InVaults
<1>14. VaultsReserve'
  <2> SUFFICES ASSUME NEW m \in DOMAIN oracle', ~oracle'[m].heir
               PROVE  SumFunction(StakeOf(m)') + Reserved(m)' <= stake_vault'[m]
      BY DEF VaultsReserve
  <2>1. StakeOf(m)' = StakeOf(m)
      BY <1>1 DEF StakeOf, StakesOn
  <2>2. CASE m = n
    <3>1. oracle'[n] = account /\ stake_vault'[n] = emission
        BY <1>1 DEF Create
    <3>2. StakesOn(n) = {}
        BY <1>11, <2>2, <3>1 DEF LeftBehind
    <3>3. SumFunction(StakeOf(n)) = 0
      <4>1. DOMAIN StakeOf(n) = {}
          BY <3>2 DEF StakeOf
      <4> QED
          BY <4>1, SumEmpty DEF SumFunction
    <3>4. Reserved(n)' = emission
        BY <1>11, <3>1 DEF Reserved
    <3> QED
        BY <1>4, <1>9, <2>1, <2>2, <3>1, <3>3, <3>4
  <2>3. CASE m # n
    <3>1. m \in DOMAIN oracle /\ oracle'[m] = oracle[m] /\ stake_vault'[m] = stake_vault[m]
        BY <1>1, <1>6, <2>3 DEF Create
    <3>2. Reserved(m)' = Reserved(m)
        BY <3>1 DEF Reserved
    <3> QED
        BY <2>1, <3>1, <3>2 DEF HoldInv, VaultsReserve
  <2> QED
      BY <2>2, <2>3
<1> QED
    BY <1>12, <1>13, <1>14 DEF HoldInv

LEMMA SweepHolds ==
    ASSUME HoldInv, NEW n, NEW meta_passed, SweepOracle(n, meta_passed)
    PROVE  HoldInv'
<1>1. /\ n \in DOMAIN oracle
      /\ oracle' = Delete(oracle, n) /\ stake_vault' = Delete(stake_vault, n)
      /\ oracle_meta' = Delete(oracle_meta, n) \/ oracle_meta' = oracle_meta
      /\ signer' = "other"
      /\ UNCHANGED <<now, protocol, stake, supply, creations>>
    BY DEF SweepOracle
<1>2. TypeOK
    BY DEF HoldInv
<1>3. TypeOK'
  <2>1. DOMAIN oracle' \subseteq Nonces /\ oracle' \in [DOMAIN oracle' -> OracleAccount]
      BY <1>1, <1>2 DEF TypeOK, Delete
  <2>2. stake_vault' \in [DOMAIN oracle' -> U64]
      BY <1>1, <1>2 DEF TypeOK, Delete
  <2>3. DOMAIN oracle_meta' \subseteq Nonces /\ oracle_meta' \in [DOMAIN oracle_meta' -> Nat]
      BY <1>1, <1>2 DEF TypeOK, Delete
  <2> QED
      BY <1>1, <1>2, <2>1, <2>2, <2>3 DEF TypeOK
<1>4. VaultsInSupply'
  <2>1. Balances(stake_vault) /\ n \in DOMAIN stake_vault /\ InVaults \in Nat
      BY <1>1, <1>2, VaultBalances
  <2>2. SumFunction(stake_vault') = InVaults - stake_vault[n]
      BY <1>1, <2>1, SumOfDeleted DEF InVaults
  <2>3. stake_vault[n] \in Nat /\ supply \in Nat
      BY <1>1, <1>2, U64MaxAssumption DEF TypeOK, U64
  <2>4. InVaults <= supply
      BY DEF HoldInv, VaultsInSupply
  <2>5. InVaults - stake_vault[n] <= supply
      BY <2>1, <2>3, <2>4
  <2> QED
      BY <1>1, <2>2, <2>5 DEF VaultsInSupply, InVaults
<1>5. VaultsReserve'
  <2> SUFFICES ASSUME NEW m \in DOMAIN oracle', ~oracle'[m].heir
               PROVE  SumFunction(StakeOf(m)') + Reserved(m)' <= stake_vault'[m]
      BY DEF VaultsReserve
  <2>1. StakeOf(m)' = StakeOf(m)
      BY <1>1 DEF StakeOf, StakesOn
  <2>2. m \in DOMAIN oracle /\ oracle'[m] = oracle[m] /\ stake_vault'[m] = stake_vault[m]
      BY <1>1, <1>2 DEF Delete, TypeOK
  <2>3. Reserved(m)' = Reserved(m)
      BY <2>2 DEF Reserved
  <2> QED
      BY <2>1, <2>2, <2>3 DEF HoldInv, VaultsReserve
<1> QED
    BY <1>3, <1>4, <1>5 DEF HoldInv

LEMMA FinishHolds ==
    ASSUME HoldInv, NEW n, NEW phase \in {"Resolved", "InvalidDeadend"}, Finish(n, phase)
    PROVE  HoldInv'
<1> DEFINE burned == IF phase = "InvalidDeadend" THEN oracle[n].reward_emission ELSE 0
           left == stake_vault[n] - burned
<1>1. /\ n \in DOMAIN oracle /\ oracle[n].phase = "Proposal"
      /\ burned <= stake_vault[n]
      /\ oracle' = [oracle EXCEPT ![n].phase = phase]
      /\ stake_vault' = [stake_vault EXCEPT ![n] = left]
      /\ supply' = supply - burned /\ signer' = "other"
      /\ UNCHANGED <<now, protocol, oracle_meta, stake, creations>>
    BY DEF Finish
<1>2. TypeOK
    BY DEF HoldInv
<1>3. /\ stake_vault[n] \in Nat /\ supply \in Nat /\ supply <= U64_MAX
      /\ stake_vault[n] <= U64_MAX /\ U64_MAX \in Nat
      /\ oracle[n] \in OracleAccount /\ oracle[n].reward_emission \in Nat
    BY <1>1, <1>2, U64MaxAssumption DEF TypeOK, U64, OracleAccount
<1>4. burned \in Nat /\ (phase = "Resolved" => burned = 0)
      /\ (phase = "InvalidDeadend" => burned = oracle[n].reward_emission)
    BY <1>3
<1> HIDE DEF burned
<1>5. left \in Nat /\ left <= U64_MAX /\ left \in Int
    BY <1>1, <1>3, <1>4
<1>6. VaultsInSupply' /\ supply' \in U64
  <2>1. Balances(stake_vault) /\ n \in DOMAIN stake_vault /\ InVaults \in Nat
        /\ DOMAIN stake_vault = DOMAIN oracle
      BY <1>1, <1>2, VaultBalances
  <2>2. /\ DOMAIN stake_vault' = DOMAIN stake_vault /\ stake_vault'[n] = left
        /\ \A m \in DOMAIN stake_vault \ {n} : stake_vault'[m] = stake_vault[m]
      BY <1>1, <2>1
  <2> HIDE DEF left
  <2>3. SumFunction(stake_vault') = InVaults - stake_vault[n] + left
      BY <1>5, <2>1, <2>2, SumOfChanged DEF InVaults
  <2>4. InVaults <= supply /\ stake_vault[n] <= InVaults
    <3>1. SumFunctionOnSet(stake_vault, DOMAIN stake_vault) = InVaults
        BY DEF InVaults, SumFunction
    <3>2. NatOn(stake_vault, DOMAIN stake_vault) /\ IsFiniteSet(DOMAIN stake_vault)
        BY <1>2, <2>1, U64MaxAssumption DEF NatOn, TypeOK, U64, Balances
    <3>3. stake_vault[n] <= SumFunctionOnSet(stake_vault, DOMAIN stake_vault)
        BY <2>1, <3>2, SumOneOf
    <3> QED
        BY <3>1, <3>3 DEF HoldInv, VaultsInSupply
  <2>5. InVaults - stake_vault[n] + left <= supply - burned /\ supply - burned \in U64
      BY <1>1, <1>3, <1>4, <2>1, <2>4 DEF left, U64
  <2> QED
      BY <1>1, <2>3, <2>5 DEF VaultsInSupply, InVaults
<1>7. TypeOK'
  <2>1. DOMAIN oracle' \subseteq Nonces /\ oracle' \in [DOMAIN oracle' -> OracleAccount]
    <3>1. [oracle[n] EXCEPT !.phase = phase] \in OracleAccount
        BY <1>3 DEF OracleAccount
    <3>2. oracle' = [oracle EXCEPT ![n] = [oracle[n] EXCEPT !.phase = phase]]
        BY <1>1
    <3> QED
        BY <1>1, <1>2, <3>1, <3>2 DEF TypeOK
  <2>2. left \in U64
      BY <1>5 DEF U64
  <2>3. stake_vault' \in [DOMAIN oracle' -> U64]
      BY <1>1, <1>2, <2>2 DEF TypeOK
  <2> QED
      BY <1>1, <1>2, <1>6, <2>1, <2>3 DEF TypeOK
<1>8. VaultsReserve'
  <2> SUFFICES ASSUME NEW m \in DOMAIN oracle', ~oracle'[m].heir
               PROVE  SumFunction(StakeOf(m)') + Reserved(m)' <= stake_vault'[m]
      BY DEF VaultsReserve
  <2>1. StakeOf(m)' = StakeOf(m)
      BY <1>1 DEF StakeOf, StakesOn
  <2>2. m \in DOMAIN oracle /\ oracle[m].heir = oracle'[m].heir
      BY <1>1, <1>2, <1>3 DEF TypeOK, OracleAccount
  <2>3. SumFunction(StakeOf(m)) + Reserved(m) <= stake_vault[m]
      BY <2>2 DEF HoldInv, VaultsReserve
  <2>4. CASE m = n
    <3>1. stake_vault'[n] = left
        BY <1>1, <1>2 DEF TypeOK
    <3>2. oracle'[n].phase = phase /\ oracle'[n].reward_emission = oracle[n].reward_emission
        BY <1>1, <1>3 DEF OracleAccount
    <3>3. Reserved(n) = oracle[n].reward_emission
        BY <1>1 DEF Reserved
    <3>4. Reserved(n)' = oracle[n].reward_emission - burned
        BY <1>3, <1>4, <3>2 DEF Reserved
    <3>5. SumFunction(StakeOf(n)) \in Nat
        BY <1>2, StakeBalances
    <3> QED
        BY <1>3, <1>4, <2>1, <2>3, <2>4, <3>1, <3>3, <3>4, <3>5
  <2>5. CASE m # n
    <3>1. oracle'[m] = oracle[m] /\ stake_vault'[m] = stake_vault[m]
        BY <1>1, <2>2, <2>5, <1>2 DEF TypeOK
    <3>2. Reserved(m)' = Reserved(m)
        BY <3>1 DEF Reserved
    <3> QED
        BY <2>1, <2>3, <3>1, <3>2
  <2> QED
      BY <2>4, <2>5
<1> QED
    BY <1>6, <1>7, <1>8 DEF HoldInv

LEMMA StakeHolds ==
    ASSUME HoldInv, NEW s \in Stakers, NEW n \in Nonces, NEW amount \in Stakes,
           Stake(s, n, amount)
    PROVE  HoldInv'
<1> DEFINE more == stake_vault[n] + amount
<1>1. /\ n \in DOMAIN oracle /\ <<n, s>> \notin DOMAIN stake
      /\ oracle[n].phase = "Proposal"
      /\ more \in U64 /\ amount <= supply - InVaults
      /\ stake' = Create(stake, <<n, s>>, amount)
      /\ stake_vault' = [stake_vault EXCEPT ![n] = more]
      /\ oracle' = [oracle EXCEPT ![n].proposer_count = @ + 1]
      /\ signer' = "other"
      /\ UNCHANGED <<now, protocol, oracle_meta, supply, creations>>
    BY DEF Stake
<1>2. TypeOK
    BY DEF HoldInv
<1>3. /\ stake_vault[n] \in Nat /\ supply \in Nat /\ oracle[n] \in OracleAccount
      /\ amount \in U64 /\ amount \in Nat /\ more \in Nat
    BY <1>1, <1>2, ProtocolAssumption, U64MaxAssumption DEF TypeOK, U64
<1>4. VaultsInSupply'
  <2>1. Balances(stake_vault) /\ n \in DOMAIN stake_vault /\ InVaults \in Nat
        /\ DOMAIN stake_vault = DOMAIN oracle
      BY <1>1, <1>2, VaultBalances
  <2>2. /\ DOMAIN stake_vault' = DOMAIN stake_vault /\ stake_vault'[n] = more /\ more \in Int
        /\ \A m \in DOMAIN stake_vault \ {n} : stake_vault'[m] = stake_vault[m]
      BY <1>1, <1>3, <2>1
  <2> HIDE DEF more
  <2>3. SumFunction(stake_vault') = InVaults - stake_vault[n] + more
      BY <2>1, <2>2, SumOfChanged DEF InVaults
  <2>4. InVaults - stake_vault[n] + more <= supply
      BY <1>1, <1>3, <2>1 DEF more
  <2> QED
      BY <1>1, <2>3, <2>4 DEF VaultsInSupply, InVaults
<1>5. TypeOK'
  <2>1. DOMAIN oracle' \subseteq Nonces /\ oracle' \in [DOMAIN oracle' -> OracleAccount]
    <3>1. [oracle[n] EXCEPT !.proposer_count = @ + 1] \in OracleAccount
        BY <1>3 DEF OracleAccount
    <3>2. oracle' = [oracle EXCEPT ![n] = [oracle[n] EXCEPT !.proposer_count = @ + 1]]
        BY <1>1
    <3> QED
        BY <1>1, <1>2, <3>1, <3>2 DEF TypeOK
  <2> HIDE DEF more
  <2>2. stake_vault' \in [DOMAIN oracle' -> U64]
      BY <1>1, <1>2 DEF TypeOK
  <2>3. DOMAIN stake' \subseteq Nonces \X Stakers /\ stake' \in [DOMAIN stake' -> U64]
      BY <1>1, <1>2, <1>3 DEF TypeOK, Create
  <2> QED
      BY <1>1, <1>2, <2>1, <2>2, <2>3 DEF TypeOK
<1>6. VaultsReserve'
  <2> SUFFICES ASSUME NEW m \in DOMAIN oracle', ~oracle'[m].heir
               PROVE  SumFunction(StakeOf(m)') + Reserved(m)' <= stake_vault'[m]
      BY DEF VaultsReserve
  <2>1. m \in DOMAIN oracle /\ oracle[m].heir = oracle'[m].heir
        /\ oracle'[m].phase = oracle[m].phase
        /\ oracle'[m].reward_emission = oracle[m].reward_emission
      BY <1>1, <1>2, <1>3 DEF TypeOK, OracleAccount
  <2>2. SumFunction(StakeOf(m)) + Reserved(m) <= stake_vault[m]
      BY <2>1 DEF HoldInv, VaultsReserve
  <2>3. Reserved(m)' = Reserved(m)
      BY <2>1 DEF Reserved
  <2>4. CASE m = n
    <3>1. stake_vault'[n] = more
        BY <1>1, <1>2 DEF TypeOK
    <3>2. StakeOf(n)' = Create(StakeOf(n), s, amount) /\ s \notin DOMAIN StakeOf(n)
      <4>1. StakesOn(n)' = StakesOn(n) \cup {s} /\ s \notin StakesOn(n)
          BY <1>1 DEF StakesOn, Create
      <4>2. \A r \in StakesOn(n) : stake'[<<n, r>>] = stake[<<n, r>>]
          BY <1>1 DEF StakesOn, Create
      <4>3. stake'[<<n, s>>] = amount
          BY <1>1 DEF Create
      <4> QED
          BY <4>1, <4>2, <4>3 DEF StakeOf, Create
    <3>3. SumFunction(StakeOf(n)) \in Nat /\ Balances(StakeOf(n))
        BY <1>2, StakeBalances
    <3>4. SumFunction(Create(StakeOf(n), s, amount)) = SumFunction(StakeOf(n)) + amount
      <4>1. amount \in Int
          BY <1>3
      <4> QED
          BY <3>2, <3>3, <4>1, SumOfCreated
    <3>5. Reserved(n) \in Nat
        BY <1>3, U64MaxAssumption DEF Reserved, OracleAccount, U64
    <3> QED
        BY <1>3, <2>2, <2>3, <2>4, <3>1, <3>2, <3>3, <3>4, <3>5
  <2>5. CASE m # n
    <3>1. StakeOf(m)' = StakeOf(m)
      <4>1. \A k : k # <<n, s>> => /\ k \in DOMAIN stake' <=> k \in DOMAIN stake
                                   /\ k \in DOMAIN stake => stake'[k] = stake[k]
          BY <1>1 DEF Create
      <4> QED
          BY <2>5, <4>1, OthersKeepStakes
    <3>2. stake_vault'[m] = stake_vault[m]
        BY <1>1, <2>1, <2>5, <1>2 DEF TypeOK
    <3> QED
        BY <2>2, <2>3, <3>1, <3>2
  <2> QED
      BY <2>4, <2>5
<1> QED
    BY <1>4, <1>5, <1>6 DEF HoldInv

LEMMA ClaimHolds ==
    ASSUME HoldInv, NEW s \in Stakers, NEW n, Claim(n, s)
    PROVE  HoldInv'
<1> DEFINE paid == stake[<<n, s>>]
           left == stake_vault[n] - paid
<1>1. /\ n \in DOMAIN oracle /\ <<n, s>> \in DOMAIN stake
      /\ paid <= stake_vault[n]
      /\ stake' = Delete(stake, <<n, s>>)
      /\ stake_vault' = [stake_vault EXCEPT ![n] = left]
      /\ signer' = "other"
      /\ UNCHANGED <<now, protocol, oracle, oracle_meta, supply, creations>>
    BY DEF Claim
<1>2. TypeOK
    BY DEF HoldInv
<1>3. /\ stake_vault[n] \in Nat /\ supply \in Nat /\ stake_vault[n] <= U64_MAX
      /\ paid \in Nat /\ oracle[n] \in OracleAccount
    BY <1>1, <1>2, U64MaxAssumption DEF TypeOK, U64
<1> HIDE DEF paid
<1>4. left \in Nat /\ left \in U64
    BY <1>1, <1>3, U64MaxAssumption DEF U64
<1>5. VaultsInSupply'
  <2>1. Balances(stake_vault) /\ n \in DOMAIN stake_vault /\ InVaults \in Nat
        /\ DOMAIN stake_vault = DOMAIN oracle
      BY <1>1, <1>2, VaultBalances
  <2>2. /\ DOMAIN stake_vault' = DOMAIN stake_vault /\ stake_vault'[n] = left /\ left \in Int
        /\ \A m \in DOMAIN stake_vault \ {n} : stake_vault'[m] = stake_vault[m]
      BY <1>1, <1>4, <2>1
  <2> HIDE DEF left
  <2>3. SumFunction(stake_vault') = InVaults - stake_vault[n] + left
      BY <2>1, <2>2, SumOfChanged DEF InVaults
  <2>4. InVaults <= supply
      BY DEF HoldInv, VaultsInSupply
  <2>5. InVaults - stake_vault[n] + left <= supply
      BY <1>1, <1>3, <2>1, <2>4 DEF left
  <2> QED
      BY <1>1, <2>3, <2>5 DEF VaultsInSupply, InVaults
<1>6. TypeOK'
  <2> HIDE DEF left
  <2>1. stake_vault' \in [DOMAIN oracle' -> U64]
      BY <1>1, <1>2, <1>4 DEF TypeOK
  <2>2. DOMAIN stake' \subseteq Nonces \X Stakers /\ stake' \in [DOMAIN stake' -> U64]
      BY <1>1, <1>2 DEF TypeOK, Delete
  <2> QED
      BY <1>1, <1>2, <2>1, <2>2 DEF TypeOK
<1>7. VaultsReserve'
  <2> SUFFICES ASSUME NEW m \in DOMAIN oracle', ~oracle'[m].heir
               PROVE  SumFunction(StakeOf(m)') + Reserved(m)' <= stake_vault'[m]
      BY DEF VaultsReserve
  <2>1. SumFunction(StakeOf(m)) + Reserved(m) <= stake_vault[m]
      BY <1>1 DEF HoldInv, VaultsReserve
  <2>2. Reserved(m)' = Reserved(m)
      BY <1>1 DEF Reserved
  <2>3. CASE m = n
    <3>1. stake_vault'[n] = left
        BY <1>1, <1>2 DEF TypeOK
    <3>2. /\ StakeOf(n)' = Delete(StakeOf(n), s) /\ s \in DOMAIN StakeOf(n)
          /\ StakeOf(n)[s] = paid
      <4>1. StakesOn(n)' = StakesOn(n) \ {s} /\ s \in StakesOn(n)
          BY <1>1 DEF StakesOn, Delete
      <4>2. \A r \in StakesOn(n) \ {s} : stake'[<<n, r>>] = stake[<<n, r>>]
          BY <1>1 DEF StakesOn, Delete
      <4> QED
          BY <4>1, <4>2 DEF StakeOf, Delete, paid
    <3>3. SumFunction(StakeOf(n)) \in Nat /\ Balances(StakeOf(n))
        BY <1>2, StakeBalances
    <3>4. SumFunction(Delete(StakeOf(n), s)) = SumFunction(StakeOf(n)) - paid
        BY <3>2, <3>3, SumOfDeleted
    <3>5. Reserved(n) \in Nat
        BY <1>3, U64MaxAssumption DEF Reserved, OracleAccount, U64
    <3> QED
        BY <1>3, <2>1, <2>2, <2>3, <3>1, <3>2, <3>3, <3>4, <3>5
  <2>4. CASE m # n
    <3>1. StakeOf(m)' = StakeOf(m)
      <4>1. \A k : k # <<n, s>> => /\ k \in DOMAIN stake' <=> k \in DOMAIN stake
                                   /\ k \in DOMAIN stake => stake'[k] = stake[k]
          BY <1>1 DEF Delete
      <4> QED
          BY <2>4, <4>1, OthersKeepStakes
    <3>2. stake_vault'[m] = stake_vault[m]
        BY <1>1, <2>4, <1>2 DEF TypeOK
    <3> QED
        BY <2>1, <2>2, <3>1, <3>2
  <2> QED
      BY <2>3, <2>4
<1> QED
    BY <1>5, <1>6, <1>7 DEF HoldInv

LEMMA HoldInvStep == ProtocolInv /\ HoldInv /\ [Next]_vars => HoldInv'
<1> SUFFICES ASSUME ConfigUsable, HoldInv, [Next]_vars PROVE HoldInv'
    BY DEF ProtocolInv
<1>1. ASSUME NEW n \in Nonces, Live(n)
      PROVE  HoldInv'
    BY <1>1, CreateHolds, MetaHolds, StakeHolds, ClaimHolds, FinishHolds, SweepHolds DEF Live
<1>2. CASE Tick \/ UNCHANGED vars
  <2>1. /\ UNCHANGED <<protocol, oracle, stake_vault, oracle_meta, stake, supply, creations>>
        /\ now' \in {now, now + 1} /\ signer' \in {signer, "other"}
      BY <1>2 DEF Tick, vars
  <2>2. TypeOK'
      BY <2>1 DEF HoldInv, TypeOK
  <2>3. VaultsInSupply' /\ VaultsReserve'
      BY <2>1, NothingMoves
  <2> QED
      BY <2>2, <2>3 DEF HoldInv
<1> QED
    BY <1>1, <1>2, GovernHolds DEF Next

LEMMA HoldInvHolds == Spec => []HoldInv
<1>1. Init => HoldInv
  <2> SUFFICES ASSUME Init PROVE HoldInv
      OBVIOUS
  <2>1. /\ now = 0 /\ protocol = NoProtocol /\ supply = InitialSupply /\ creations = 0
        /\ signer = "other" /\ oracle = << >> /\ stake_vault = << >> /\ oracle_meta = << >>
        /\ stake = << >>
      BY DEF Init
  <2>2. /\ DOMAIN oracle = {} /\ DOMAIN stake_vault = {} /\ DOMAIN oracle_meta = {}
        /\ DOMAIN stake = {}
      BY <2>1
  <2>3. /\ oracle \in [{} -> OracleAccount] /\ stake_vault \in [{} -> U64]
        /\ oracle_meta \in [{} -> Nat] /\ stake \in [{} -> U64]
      BY <2>1
  <2>4. TypeOK
      BY <2>1, <2>2, <2>3, ProtocolAssumption DEF TypeOK
  <2>5. InVaults = 0
      BY <2>2, SumEmpty DEF InVaults, SumFunction
  <2>6. VaultsInSupply
      BY <2>1, <2>5, ProtocolAssumption, U64MaxAssumption DEF VaultsInSupply, U64
  <2>7. VaultsReserve
      BY <2>2 DEF VaultsReserve
  <2> QED
      BY <2>4, <2>6, <2>7 DEF HoldInv
<1> QED
    BY <1>1, HoldInvStep, ProtocolInvHolds, PTL DEF Spec

-----------------------------------------------------------------------------
\* What holders of KASS may rely on

\* No account outgrows its type, none underflows, and the vault of an oracle
\* that found nothing at its addresses covers the stakes on it, the burn of the
\* emission at a dead end included (create_oracle.rs, finalize_oracle.rs,
\* sweep_oracle.rs).
THEOREM VaultsStaySound == Spec => []VaultsAreSound
<1>1. HoldInv => VaultsAreSound
  <2> SUFFICES ASSUME HoldInv PROVE VaultsAreSound
      OBVIOUS
  <2>1. ASSUME NEW n \in DOMAIN oracle, ~oracle[n].heir
        PROVE  SumFunction(StakeOf(n)) <= stake_vault[n]
    <3>1. SumFunction(StakeOf(n)) + Reserved(n) <= stake_vault[n]
        BY <2>1 DEF HoldInv, VaultsReserve
    <3>2. SumFunction(StakeOf(n)) \in Nat
        BY StakeBalances DEF HoldInv
    <3>3. Reserved(n) \in Nat /\ stake_vault[n] \in Nat
        BY U64MaxAssumption DEF HoldInv, TypeOK, OracleAccount, Reserved, U64
    <3> QED
        BY <3>1, <3>2, <3>3
  <2> QED
      BY <2>1 DEF HoldInv, VaultsAreSound, VaultCoversStakes, StakeOf
<1> QED
    BY <1>1, HoldInvHolds, PTL

\* An emission fills at most what the cap of the day leaves, after the burn of
\* the fee, also when governance has lowered the cap under the supply
\* (create_oracle.rs).
THEOREM EmissionStaysWithinCap == Spec => EmissionWithinCap
<1>1. ProtocolInv /\ HoldInv /\ [Next]_vars =>
        [supply' > supply => supply' <= protocol.config.amount["total_supply_cap"]]_vars
  <2> SUFFICES ASSUME ConfigUsable, TypeOK, [Next]_vars, supply' > supply, TypeOK'
               PROVE  supply' <= protocol.config.amount["total_supply_cap"]
      BY HoldInvStep DEF ProtocolInv, HoldInv
  <2>1. supply \in U64 /\ U64 \subseteq Nat /\ supply \in Nat /\ supply' \in Nat
      BY U64MaxAssumption DEF TypeOK, U64
  <2>2. ASSUME NEW n, NEW phase, Finish(n, phase)
        PROVE  supply' <= supply
    <3> DEFINE burned == IF phase = "InvalidDeadend" THEN oracle[n].reward_emission ELSE 0
    <3>1. n \in DOMAIN oracle /\ supply' = supply - burned
        BY <2>2 DEF Finish
    <3>2. burned \in Nat
        BY <3>1, U64MaxAssumption DEF TypeOK, OracleAccount, U64
    <3> HIDE DEF burned
    <3>3. supply \in Nat
        BY <2>1
    <3> QED
        BY <3>1, <3>2, <3>3
  <2>3. ~(supply' <= supply) /\ ~(UNCHANGED supply)
      BY <2>1, <2>2
  <2>4. ASSUME NEW n \in Nonces, Live(n)
        PROVE  \E k, options_count, deadline, twap_window :
                   CreateOracle(k, n, options_count, deadline, twap_window)
      BY <2>2, <2>3, <2>4 DEF Live, WriteOracleMeta, Stake, Claim, SweepOracle
  <2>5. PICK n, k, options_count, deadline, twap_window :
            CreateOracle(k, n, options_count, deadline, twap_window)
      BY <2>3, <2>4 DEF Next, Govern, InitProtocol, SetGovernance, SetConfig, Tick, vars
  <2> DEFINE ema == decay_fee_ema(protocol.fee_ema, protocol.last_creation_unix, now)
             fee == fee_for_ema(ema)
             emission == compute_reward_emission(protocol.config, supply - fee)
  <2>6. Initialized /\ fee <= supply - InVaults /\ supply' = supply - fee + emission
      BY <2>5 DEF CreateOracle
  <2>7. protocol \in ProtocolAccount /\ protocol.config \in ConfigParams /\ Usable(protocol.config)
      BY <2>6 DEF TypeOK, Initialized, NoProtocol, ConfigUsable
  <2>8. ema \in Nat
    <3>1. protocol.fee_ema \in Nat
        BY <2>7, U64MaxAssumption DEF ProtocolAccount, U64
    <3>2. protocol.last_creation_unix \in Int /\ now \in Int
        BY <2>7 DEF ProtocolAccount, TypeOK
    <3> QED
        BY <3>1, <3>2, DecayBounded
  <2> HIDE DEF ema
  <2>9. fee \in U64
    <3>1. supply \in U64
        BY <2>1
    <3> QED
        BY <2>7, <2>8, <3>1, CreationAmounts
  <2> HIDE DEF fee
  <2>10. supply - fee \in U64
    <3>1. fee \in Nat /\ supply \in Nat /\ supply <= U64_MAX /\ U64_MAX \in Nat
        BY <2>1, <2>9, U64MaxAssumption DEF U64
    <3>2. InVaults \in Nat
        BY VaultBalances
    <3>3. supply - fee \in Nat /\ supply - fee <= U64_MAX
        BY <2>6, <3>1, <3>2
    <3> QED
        BY <3>3 DEF U64
  <2>11. emission \in U64 /\ (emission > 0 => emission + (supply - fee)
                                   <= protocol.config.amount["total_supply_cap"])
      BY <2>7, <2>8, <2>10, CreationAmounts
  <2> HIDE DEF emission
  <2>12. emission \in Nat /\ fee \in Nat /\ supply \in Nat
      BY <2>1, <2>9, <2>11
  <2>13. emission > 0
      BY <2>6, <2>12
  <2>14. supply' = emission + (supply - fee)
      BY <2>6, <2>12
  <2> QED
      BY <2>11, <2>13, <2>14
<1> QED
    BY <1>1, ProtocolInvHolds, HoldInvHolds, PTL DEF Spec, EmissionWithinCap

\* Waiting never costs a creator: the decayed average falls from second to
\* second, across the joins of the half-lives and their roundings, and never
\* exceeds what was stored (fee.rs).
THEOREM DecayStaysMonotone == Spec => []DecayIsMonotone
<1>1. HoldInv => DecayIsMonotone
  <2> SUFFICES ASSUME TypeOK, Initialized,
                      NEW t \in protocol.last_creation_unix .. MaxTime + FEE_EMA_HALFLIFE_SECS
               PROVE  /\ decay_fee_ema(protocol.fee_ema, protocol.last_creation_unix, t + 1)
                           <= decay_fee_ema(protocol.fee_ema, protocol.last_creation_unix, t)
                      /\ decay_fee_ema(protocol.fee_ema, protocol.last_creation_unix, t)
                           <= protocol.fee_ema
      BY DEF DecayIsMonotone, HoldInv
  <2>1. protocol \in ProtocolAccount
      BY DEF TypeOK, Initialized, NoProtocol
  <2>2. protocol.fee_ema \in Nat
      BY <2>1, U64MaxAssumption DEF ProtocolAccount, U64
  <2>3. protocol.last_creation_unix \in Int
      BY <2>1 DEF ProtocolAccount
  <2>4. MaxTime + FEE_EMA_HALFLIFE_SECS \in Int
      BY ProtocolAssumption
  <2>5. t \in Int /\ t >= protocol.last_creation_unix
      BY <2>3, <2>4
  <2> QED
      BY <2>2, <2>3, <2>5, DecayBounded, DecayFalls
<1> QED
    BY <1>1, HoldInvHolds, PTL
=============================================================================
