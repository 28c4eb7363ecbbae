------------------------------ MODULE Protocol ------------------------------
(* The Protocol account and the oracles created under it: configuration,      *)
(* hand-over to the DAO, creation with its fee, emission and snapshot, the    *)
(* metadata, and the sweep after which a nonce is free again.                 *)
(*                                                                            *)
(* What happens to an oracle between its creation and its sweep is the matter *)
(* of Dispute and Settlement; here it is reduced to stakes, an end and claims *)
(* of the stakes.  Accounts live at addresses derived from the nonce, so an   *)
(* oracle and its successor under the same nonce have the same addresses.     *)
EXTENDS Amounts, FiniteSets, Functions

CONSTANTS
    Nonces,             \* nonces under which oracles are created
    Keys,               \* who signs: initializers, creators, DAO executors
    DaoAuthorities,     \* those that are the vault of some futarchy DAO
    Stakers, Stakes,    \* who stakes on an oracle, and how much
    OptionCounts, Deadlines, TwapWindows,   \* arguments of create_oracle
    Configs,            \* configurations that governance may send
    GenesisConfig,      \* config.rs, as init_protocol writes it
    InitialSupply       \* KASS minted before the protocol

\* Constants of config.rs that creation uses as they are.
CONSTANTS FEE_EMA_HALFLIFE_SECS, FEE_EMA_SCALE, FEE_EMA_INCREMENT,
          FEE_PER_EMA_UNIT, SWEEP_GRACE, I64_MAX

CONSTANTS MaxTime, MaxCreations     \* bounds of the clock and of re-creation

VARIABLES
    now,
    protocol,       \* the singleton, or NoProtocol
    oracle,         \* the Oracle accounts, by nonce
    stake_vault,    \* the balance of each oracle's vault
    oracle_meta,    \* the options_count of each metadata account, by nonce
    stake,          \* the Proposer, Fact and FactVote accounts, <<nonce, staker>>
    supply,         \* KASS in circulation, the vaults included
    creations,      \* how many oracles were created (bounded by MaxCreations)
    signer          \* who signed the last instruction of governance, if it is
                    \* the last of all

vars == <<now, protocol, oracle, stake_vault, oracle_meta, stake, supply,
          creations, signer>>

-----------------------------------------------------------------------------
\* Types

Fractions == {"threshold", "market_threshold", "flip_slash", "fact_vote_slash",
              "emission", "challenge_fail_usdc_fee",
              "challenge_success_kass_fee"}
Windows == {"phase_window", "proposal_window", "fee_ema_halflife"}
Amounts64 == {"total_supply_cap", "fee_per_ema_unit", "fee_ema_increment",
              "reward_proposer_weight", "reward_fact_weight",
              "stake_floor_ema_threshold", "stake_floor_ema_cap",
              "stake_floor_max"}

\* The governable parameters, as a payload may carry them.
ConfigParams ==
    [fraction : [Fractions -> [num : U64, den : U64]],
     window : [Windows -> Int],
     amount : [Amounts64 -> U64]]

NoProtocol == [initialized |-> FALSE]

ProtocolAccount ==
    [initialized : {TRUE}, admin : Keys, governance_set : BOOLEAN,
     dao_authority : Keys \cup {"unset"}, fee_ema : U64, last_creation_unix : Nat,
     config : ConfigParams]

OracleAccount ==
    [creator : Keys, options_count : Nat, phase_ends_at : Nat,
     phase : {"Proposal", "Resolved", "InvalidDeadend"},
     proposer_count : Nat, reward_emission : U64, min_stake : U64,
     config : ConfigParams,
     heir : BOOLEAN]    \* found accounts of a predecessor at its addresses

ASSUME ProtocolAssumption ==
    /\ U64_MAX \in Nat \ {0} /\ I64_MAX \in Nat
    /\ IsFiniteSet(Nonces) /\ IsFiniteSet(Stakers)
    /\ DaoAuthorities \subseteq Keys
    /\ Stakes \subseteq U64 /\ InitialSupply \in U64
    /\ OptionCounts \subseteq Nat /\ Deadlines \subseteq Nat
    /\ TwapWindows \subseteq Int
    /\ Configs \subseteq ConfigParams /\ GenesisConfig \in ConfigParams
    /\ {FEE_EMA_HALFLIFE_SECS, FEE_EMA_SCALE} \subseteq Nat \ {0}
    /\ {FEE_EMA_INCREMENT, FEE_PER_EMA_UNIT} \subseteq U64
    /\ SWEEP_GRACE \in Nat /\ {MaxTime, MaxCreations} \subseteq Nat

TypeOK ==
    /\ now \in Nat
    /\ protocol \in {NoProtocol} \cup ProtocolAccount
    /\ DOMAIN oracle \subseteq Nonces
    /\ oracle \in [DOMAIN oracle -> OracleAccount]
    /\ stake_vault \in [DOMAIN oracle -> U64]
    /\ DOMAIN oracle_meta \subseteq Nonces
    /\ oracle_meta \in [DOMAIN oracle_meta -> Nat]
    /\ DOMAIN stake \subseteq Nonces \X Stakers
    /\ stake \in [DOMAIN stake -> U64]
    /\ supply \in U64
    /\ creations \in Nat
    /\ signer \in Keys \cup {"other"}

-----------------------------------------------------------------------------
\* The creation fee (fee.rs) and the stake floor (stake_floor.rs)

\* Mutant: the interpolation runs the wrong way within a half-life.
decay_fee_ema_Rising(fee_ema, last, t) ==
    LET h == FEE_EMA_HALFLIFE_SECS
        whole == (t - last) \div h
        rem == (t - last) % h
        base == fee_ema \div 2^whole
    IN  IF t <= last THEN fee_ema
        ELSE IF whole >= 64 THEN 0
        ELSE (base * (h + rem)) \div (2 * h)

\* The activity average halves every half-life, linearly in between.
decay_fee_ema(fee_ema, last, t) ==
    LET h == FEE_EMA_HALFLIFE_SECS
        whole == (t - last) \div h
        rem == (t - last) % h
        base == fee_ema \div 2^whole
    IN  IF t <= last THEN fee_ema
        ELSE IF whole >= 64 THEN 0
        ELSE (base * (2 * h - rem)) \div (2 * h)

Saturated(x) == IF x > U64_MAX THEN U64_MAX ELSE x

fee_for_ema(ema) == Saturated((FEE_PER_EMA_UNIT * ema) \div FEE_EMA_SCALE)

bumped_fee_ema(ema) == Saturated(ema + FEE_EMA_INCREMENT)

\* Nothing up to the threshold, then a linear ramp up to the maximum.
stake_floor(ema, c) ==
    LET threshold == c.amount["stake_floor_ema_threshold"]
        cap == c.amount["stake_floor_ema_cap"]
        max == c.amount["stake_floor_max"]
    IN  IF max = 0 \/ cap <= threshold \/ ema <= threshold THEN 0
        ELSE IF ema >= cap THEN max
        ELSE (max * (ema - threshold)) \div (cap - threshold)

-----------------------------------------------------------------------------
\* What create_oracle mints: a fraction of what the cap leaves, read after the
\* burn of the fee.

\* Mutant: a fraction of the cap, whatever is in circulation.
compute_reward_emission_OfCap(c, circulating) ==
    FloorFrac(c.amount["total_supply_cap"], c.fraction["emission"])

\* Mutant: the reservoir is not saturated at zero.
compute_reward_emission_Wrapped(c, circulating) ==
    FloorFrac(c.amount["total_supply_cap"] - circulating, c.fraction["emission"])

compute_reward_emission(c, circulating) ==
    LET cap == c.amount["total_supply_cap"]
        reservoir == IF cap > circulating THEN cap - circulating ELSE 0
        share == FloorFrac(reservoir, c.fraction["emission"])
    IN  IF c.fraction["emission"].num = 0 \/ cap = 0 THEN 0
        ELSE IF share > reservoir THEN reservoir ELSE share

-----------------------------------------------------------------------------
\* Configuration and hand-over

Positive(c) ==
    /\ \A f \in Fractions : c.fraction[f].den > 0
    /\ \A w \in Windows : c.window[w] > 0

AtMostOne(c) == \A f \in Fractions : c.fraction[f].num <= c.fraction[f].den

SomeRewardWeight(c) ==
    c.amount["reward_proposer_weight"] # 0 \/ c.amount["reward_fact_weight"] # 0

\* A flip slash and the fee of a successful challenge fit into one bond.
SlashAndFeeFit(c) ==
    LET flip == c.fraction["flip_slash"]
        fee == c.fraction["challenge_success_kass_fee"]
    IN  flip.num * fee.den + fee.num * flip.den <= flip.den * fee.den

\* Mutant: each fraction is checked, their sum is not.
ValidConfig_Separately(c) == Positive(c) /\ AtMostOne(c) /\ SomeRewardWeight(c)

ValidConfig(c) ==
    /\ Positive(c) /\ AtMostOne(c) /\ SomeRewardWeight(c) /\ SlashAndFeeFit(c)

\* The constants of config.rs would be admitted by set_config.
ASSUME GenesisAssumption == ValidConfig(GenesisConfig)

Initialized == protocol.initialized

\* Mutant: the initializer may come back.
LinkageAuthority_Admin == protocol.admin

\* Who may move the linkage: the initializer once, then the DAO it named.
LinkageAuthority ==
    IF protocol.governance_set THEN protocol.dao_authority ELSE protocol.admin

InitProtocol(k) ==
    /\ ~Initialized
    /\ protocol' = [initialized |-> TRUE, admin |-> k,
                    governance_set |-> FALSE, dao_authority |-> "unset",
                    fee_ema |-> 0, last_creation_unix |-> 0,
                    config |-> GenesisConfig]
    /\ signer' = k
    /\ UNCHANGED <<now, oracle, stake_vault, oracle_meta, stake, supply,
                   creations>>

\* k names DAO d; its authority must be the vault derived for that DAO.
SetGovernance(k, d) ==
    /\ Initialized
    /\ k = LinkageAuthority
    /\ d \in DaoAuthorities
    /\ protocol' = [protocol EXCEPT !.dao_authority = d, !.governance_set = TRUE]
    /\ signer' = k
    /\ UNCHANGED <<now, oracle, stake_vault, oracle_meta, stake, supply,
                   creations>>

\* Everything governable at once; the rest of the account and every oracle in
\* flight are left alone.
SetConfig(k, c) ==
    /\ Initialized
    /\ protocol.governance_set /\ k = protocol.dao_authority
    /\ ValidConfig(c)
    /\ protocol' = [protocol EXCEPT !.config = c]
    /\ signer' = k
    /\ UNCHANGED <<now, oracle, stake_vault, oracle_meta, stake, supply,
                   creations>>

-----------------------------------------------------------------------------
\* The life of an oracle

Create(accounts, key, account) ==
    [k \in DOMAIN accounts \cup {key} |->
        IF k = key THEN account ELSE accounts[k]]

\* Mutant: the account is paid but not closed.
Delete_Kept(accounts, key) == accounts

Delete(accounts, key) == [k \in DOMAIN accounts \ {key} |-> accounts[k]]

InVaults == SumFunction(stake_vault)

StakesOn(n) == { s \in Stakers : <<n, s>> \in DOMAIN stake }

\* An account of another oracle sits at an address derived from nonce n.
LeftBehind(n) == StakesOn(n) # {} \/ n \in DOMAIN oracle_meta

\* The program also refuses an address that is empty but holds lamports, which anybody
\* may send there at any time; likewise for metadata and stakes.  That disables the
\* instruction and does nothing else: what is shown here of every step holds without it.
NonceFree(n) == n \notin DOMAIN oracle

\* The parameters an oracle works from are copied from the protocol.
NewOracle(k, n, options_count, deadline, ema, emission) ==
    [creator |-> k, options_count |-> options_count,
     phase_ends_at |-> deadline + protocol.config.window["proposal_window"],
     phase |-> "Proposal",
     proposer_count |-> 0,
     reward_emission |-> emission,
     min_stake |-> stake_floor(ema, protocol.config),
     config |-> protocol.config,
     heir |-> LeftBehind(n)]

CreateOracle(k, n, options_count, deadline, twap_window) ==
    LET ema == decay_fee_ema(protocol.fee_ema, protocol.last_creation_unix, now)
        fee == fee_for_ema(ema)
        emission == compute_reward_emission(protocol.config, supply - fee)
    IN  /\ creations < MaxCreations
        /\ Initialized
        /\ options_count >= 2
        /\ deadline >= now
        /\ twap_window > 0
        /\ NonceFree(n)
        /\ fee <= supply - InVaults            \* the creator holds the fee
        /\ deadline + protocol.config.window["proposal_window"] <= I64_MAX
        /\ protocol' = [protocol EXCEPT !.fee_ema = bumped_fee_ema(ema),
                                        !.last_creation_unix = now]
        /\ oracle' = Create(oracle, n, NewOracle(k, n, options_count, deadline,
                                                 ema, emission))
        /\ stake_vault' = Create(stake_vault, n, emission)
        /\ supply' = supply - fee + emission
        /\ creations' = creations + 1
        /\ signer' = "other"
        /\ UNCHANGED <<now, oracle_meta, stake>>

\* Mutant: any list of options.
DescribesOracle_Any(n, options_count) == TRUE

DescribesOracle(n, options_count) == options_count = oracle[n].options_count

\* Once, and by the creator that the oracle account names (lamports: see NonceFree).
WriteOracleMeta(k, n, options_count) ==
    /\ n \in DOMAIN oracle
    /\ k = oracle[n].creator
    /\ DescribesOracle(n, options_count)
    /\ n \notin DOMAIN oracle_meta
    /\ oracle_meta' = Create(oracle_meta, n, options_count)
    /\ signer' = "other"
    /\ UNCHANGED <<now, protocol, oracle, stake_vault, stake, supply, creations>>

\* Mutant: the floor of the day.
FloorOf_Current(n) == stake_floor(protocol.fee_ema, protocol.config)

FloorOf(n) == oracle[n].min_stake

\* propose, submit_fact and vote_fact: a fresh account at an address of n, and
\* at least the floor into the vault.
Stake(s, n, amount) ==
    /\ n \in DOMAIN oracle
    /\ oracle[n].phase = "Proposal"
    /\ amount >= FloorOf(n)
    /\ <<n, s>> \notin DOMAIN stake
    /\ stake_vault[n] + amount \in U64
    /\ amount <= supply - InVaults             \* the staker holds it
    /\ stake' = Create(stake, <<n, s>>, amount)
    /\ stake_vault' = [stake_vault EXCEPT ![n] = @ + amount]
    /\ oracle' = [oracle EXCEPT ![n].proposer_count = @ + 1]
    /\ signer' = "other"
    /\ UNCHANGED <<now, protocol, oracle_meta, supply, creations>>

\* The last finalizer: a verdict, or a dead end that burns the emission.
Finish(n, phase) ==
    LET burned == IF phase = "InvalidDeadend" THEN oracle[n].reward_emission ELSE 0
    IN  /\ n \in DOMAIN oracle
        /\ oracle[n].phase = "Proposal"
        /\ now >= oracle[n].phase_ends_at
        /\ oracle[n].proposer_count > 0
        /\ burned <= stake_vault[n]
        /\ oracle' = [oracle EXCEPT ![n].phase = phase]
        /\ stake_vault' = [stake_vault EXCEPT ![n] = @ - burned]
        /\ supply' = supply - burned
        /\ signer' = "other"
        /\ UNCHANGED <<now, protocol, oracle_meta, stake, creations>>

\* claim_proposer, claim_fact, claim_fact_vote: the stake back, its account
\* closed.
Claim(n, s) ==
    /\ n \in DOMAIN oracle
    /\ oracle[n].phase # "Proposal"
    /\ <<n, s>> \in DOMAIN stake
    /\ stake[<<n, s>>] <= stake_vault[n]
    /\ stake_vault' = [stake_vault EXCEPT ![n] = @ - stake[<<n, s>>]]
    /\ stake' = Delete(stake, <<n, s>>)
    /\ signer' = "other"
    /\ UNCHANGED <<now, protocol, oracle, oracle_meta, supply, creations>>

\* Anybody, after the grace and once there is a DAO: the vault's rest to the
\* treasury, the oracle and its vault closed, the metadata only if it is passed.
SweepOracle(n, meta_passed) ==
    /\ n \in DOMAIN oracle
    /\ oracle[n].phase # "Proposal"
    /\ now >= oracle[n].phase_ends_at + SWEEP_GRACE
    /\ protocol.governance_set
    /\ oracle' = Delete(oracle, n)
    /\ stake_vault' = Delete(stake_vault, n)
    /\ oracle_meta' = IF meta_passed THEN Delete(oracle_meta, n) ELSE oracle_meta
    /\ signer' = "other"
    /\ UNCHANGED <<now, protocol, stake, supply, creations>>

Tick ==
    /\ now < MaxTime
    /\ now' = now + 1
    /\ signer' = "other"
    /\ UNCHANGED <<protocol, oracle, stake_vault, oracle_meta, stake, supply,
                   creations>>

Init ==
    /\ now = 0
    /\ protocol = NoProtocol
    /\ oracle = << >>
    /\ stake_vault = << >>
    /\ oracle_meta = << >>
    /\ stake = << >>
    /\ supply = InitialSupply
    /\ creations = 0
    /\ signer = "other"

Govern ==
    \E k \in Keys :
        \/ InitProtocol(k)
        \/ \E d \in DaoAuthorities : SetGovernance(k, d)
        \/ \E c \in Configs : SetConfig(k, c)

Live(n) ==
    \/ \E k \in Keys, options_count \in OptionCounts :
        \/ \E deadline \in Deadlines, twap_window \in TwapWindows :
                CreateOracle(k, n, options_count, deadline, twap_window)
        \/ WriteOracleMeta(k, n, options_count)
    \/ \E s \in Stakers :
        \/ \E amount \in Stakes : Stake(s, n, amount)
        \/ Claim(n, s)
    \/ \E phase \in {"Resolved", "InvalidDeadend"} : Finish(n, phase)
    \/ \E meta_passed \in BOOLEAN : SweepOracle(n, meta_passed)

Next == Govern \/ (\E n \in Nonces : Live(n)) \/ Tick

Spec == Init /\ [][Next]_vars

-----------------------------------------------------------------------------
\* Properties

\* The parameters of every oracle are what Dispute and Settlement assume of
\* theirs, whatever governance sent and however often: fractions up to one,
\* windows that pass, a reward split that divides, and a flip slash and a
\* challenge fee that one bond can pay together (set_config.rs, init_protocol).
Usable(c) ==
    /\ \A f \in Fractions : c.fraction[f] \in ProperRatio
    /\ \A w \in Windows : c.window[w] > 0
    /\ c.amount["reward_proposer_weight"] + c.amount["reward_fact_weight"] > 0
    /\ \A bond \in U64 :
           FloorFrac(bond, c.fraction["flip_slash"])
             + FloorFrac(bond, c.fraction["challenge_success_kass_fee"]) <= bond

SnapshotsUsable == \A n \in DOMAIN oracle : Usable(oracle[n].config)

\* Configuration and linkage change only by the hand of whoever governs at that
\* moment: the initializer until the hand-over, then the DAO named last, and
\* never the initializer again (set_governance.rs, set_config.rs).
OnlyTheAuthorityGoverns ==
    [][/\ Initialized
       /\ \/ protocol'.config # protocol.config
          \/ protocol'.dao_authority # protocol.dao_authority
          \/ protocol'.governance_set # protocol.governance_set
       => /\ protocol'.governance_set
          /\ signer' = IF protocol.governance_set THEN protocol.dao_authority
                                                  ELSE protocol.admin]_vars

\* No emission lifts the supply above the cap of the day, although the cap may
\* have been lowered under what already circulates (create_oracle.rs).
EmissionWithinCap ==
    [][supply' > supply =>
          supply' <= protocol.config.amount["total_supply_cap"]]_vars

\* The longer creators wait, the less they pay: the decayed average never rises
\* with time and never exceeds what was stored, across the joins of the
\* half-lives and their roundings (fee.rs:25-26).
DecayIsMonotone ==
    Initialized =>
        \A t \in protocol.last_creation_unix .. MaxTime + FEE_EMA_HALFLIFE_SECS :
            LET decayed(u) == decay_fee_ema(protocol.fee_ema,
                                            protocol.last_creation_unix, u)
            IN  decayed(t + 1) <= decayed(t) /\ decayed(t) <= protocol.fee_ema

\* Every stake meets the floor that its oracle was created with, whatever
\* governance does to the ramp meanwhile (stake_floor.rs:14-18), and the vault
\* covers all open stakes; but for an oracle that found accounts left behind
\* by a swept predecessor under its nonce, whose owners may then claim from it.
StakesMeetTheirFloor ==
    \A n \in DOMAIN oracle : ~oracle[n].heir =>
        \A s \in StakesOn(n) : stake[<<n, s>>] >= oracle[n].min_stake

VaultCoversStakes ==
    \A n \in DOMAIN oracle : ~oracle[n].heir =>
        SumFunction([s \in StakesOn(n) |-> stake[<<n, s>>]]) <= stake_vault[n]

\* The metadata found beside an oracle lists that oracle's options, unless it
\* is a swept predecessor's (write_oracle_meta.rs, sweep_oracle.rs).
MetaMatchesOracle ==
    \A n \in DOMAIN oracle \cap DOMAIN oracle_meta : ~oracle[n].heir =>
        oracle_meta[n] = oracle[n].options_count

\* What is found at an oracle's addresses is its own.
AccountsBelong == StakesMeetTheirFloor /\ MetaMatchesOracle

\* No account outgrows its type, none underflows, and no vault falls short.
VaultsAreSound == TypeOK /\ VaultCoversStakes
=============================================================================
