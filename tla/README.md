# Kassandra in TLA+

Kassandra is an optimistic oracle on Solana.  Proposers bond KASS on an answer;
when they disagree, facts are submitted and voted on, each proposer publishes
the answer an AI model gives on the agreed facts, anybody may challenge such a
claim on a pair of MetaDAO decision pools, and the survivors' plurality is the
verdict.  Prediction markets are built over these oracles by a second program;
an indexer, a command-line runner, SDKs and a web app surround the two.

This directory holds a formal model of the two programs (governance and creation, a
dispute, its settlement, prediction markets), of the indexer's two pipelines, of the
AI runner, and of what the web app decides for its users; the TLC configurations
that check them on small instances; and proofs for TLAPS of the facts that matter
most.  Paths below are relative to `src/`.

1. [Inventory](#1-inventory)
2. [Modules](#2-modules-and-how-they-follow-the-code)
3. [Runs](#3-runs)
4. [Proofs](#4-proofs)
5. [Where code and comments disagree](#5-where-code-and-comments-disagree)
6. [What is not modelled](#6-what-is-not-modelled)
7. [Plan](#7-plan)

## 1. Inventory

### The oracle program (`programs/oracles`)

Each instruction is one handler under `src/processor/`.  The state is in
accounts at derived addresses:

| account | created by | what it keeps |
|---|---|---|
| `Protocol` (one) | `init_protocol` | the governable parameters, the DAO's keys, the decaying activity average |
| `Oracle` | `create_oracle` | phase and its deadline, six counters, five KASS totals, the verdict, a snapshot of the parameters |
| `Proposer` (oracle, authority) | `propose` | bond, original and AI option, what was slashed and why |
| `Fact` (oracle, content hash) | `submit_fact` | stake, approve and duplicate totals, the voters' decision |
| `FactVote` (fact, voter) | `vote_fact` | kind and stake |
| `AiClaim` (oracle, proposer) | `submit_ai_claim` | the option and hashes a proposer publishes |
| `Market` (AI claim) | `open_challenge` | the challenge: MetaDAO question and pools, the challenger's USDC, its end |
| `stake_vault` (SPL token) | `create_oracle` | all KASS of the oracle outside challenges |
| an escrow vault per `Market` | `open_challenge` | the challenger's USDC |

The phases, and the instructions that leave them:

```
Proposal --finalize_proposals--> Resolved                    (all agree)
         --finalize_proposals--> FactProposal                (they disagree)
FactProposal --advance_phase--> FactVoting
FactVoting --finalize_facts (all facts settled)--> AiClaim
           --finalize_facts (no facts, all slashed)--> InvalidDeadend
AiClaim --finalize_ai_claims (all proposers)--> Challenge
Challenge --finalize_oracle--> Resolved | InvalidDeadend     (plurality or tie)
InvalidDeadend --resolve_deadend (DAO)--> Resolved
```

Nothing happens by itself.  A phase ends when somebody sends its finalizer after
`phase_ends_at`; all of these are permissionless.  The batched ones
(`finalize_facts`, `finalize_ai_claims`) take any subset of the accounts in a
call and finish when a counter in `Oracle` reaches its total; the one-shot ones
(`finalize_proposals`, `finalize_oracle`) want the full set, compared with a
counter.  In a terminal phase the stakers claim (`claim_proposer`, `claim_fact`,
`claim_fact_vote`), accounts are closed (`close_ai_claim`, `close_market`), and
after a grace anybody may sweep the vault to the DAO's treasury and close the
oracle (`sweep_oracle`).

*Interactions.*  KASS moves by SPL token transfers and burns.  `open_challenge`
splits a bond in MetaDAO's conditional vault into pass- and fail-KASS, reads the
KASS price from the DAO's spot pool, and records two AMM pools; `settle_challenge`
reads their TWAPs, resolves the MetaDAO question (the oracle PDA is its resolver,
and a question resolves once), redeems the bond and pays both sides.
`set_governance` hands the protocol over to a DAO, whose executor then signs
`set_config` and `resolve_deadend`.

*What is hard.*  Instructions of many parties interleave in every phase; counters
in one account stand for sets of other accounts and four handlers decrement
`surviving_count` on different paths; a challenge outlives the window that
`finalize_oracle` waits for; a proposer may be slashed twice (for a flip, then by
a challenge) and part of the second slash leaves the vault; four roundings must
add up so that the last claimant is paid; every step needs somebody to take it
and must stay possible whatever the parties did before.

*What makes it correct.*  Counters are exact; tokens are conserved and every
slash is in the pool exactly once; the vault covers all claims in any order and
strands only dust; no verdict while a challenge is open; the vote counted is the
one published; a proposed oracle always ends and an opened challenge always
settles.

### The other parts

| part | state and operations | hard behaviour | what makes it correct |
|---|---|---|---|
| Protocol and configuration (`init_protocol`, `set_config`, `set_governance`, `create_oracle`, `write_oracle_meta`, `fee.rs`, `stake_floor.rs`, `config.rs`) | parameters, DAO keys, activity average; fee burn, snapshot and KASS emission at creation; metadata beside an oracle | governance changes parameters while oracles are in flight; decay and ratio arithmetic at 0 and at the end of u64; a swept oracle's nonce is free again | an oracle works only from its snapshot, and the snapshot is usable; emission keeps to the cap; the price of an oracle falls with time; hand-over happens once |
| Prediction markets (`programs/markets`) | `Config`, `Market` (Funding, Active, Resolved, Void, Cancelled), `Contribution`; crowdfund, activate into a MetaDAO pool, late liquidity, resolve from the oracle, fee crank, LP claims, refunds, close | a market is resolved before or after `resolve_deadend`; the oracle may be swept under it; shares are fractions of a total that the fee crank and the last claimer change | `open_contributions` is exact; refunds and shares are covered by the two vaults in any order, proportional and complete; no claim before the fee, and no fee above the one the market was created under; YES pays iff the oracle said so when the market was resolved; every market comes to its end |
| Indexer, events (`indexer/src/main.rs`, `processor.rs`, `state.rs`, `db`, `meta_fetch.rs`) | `events`, `indexer_cursor`, `oracle_metadata`, `oracle_meta_json`; crawl, process, promote the cursor, fetch or take the JSON that an oracle commits to | transactions come newest first, ten at a time; three writes per event; a crash between any two; the cursor is promoted on a heuristic (`frontier_stable`) | nothing is left behind the cursor; everything is indexed in the end; committed metadata is served |
| Indexer, account mirrors (`oracle_accounts.rs`, `reconcile.rs`, `market`) | `oracle_accounts`, `market_accounts`, written by the same code twice: a websocket tail and a periodic snapshot, a slot gate, a prune | the tail is late, loses updates and says nothing of closed accounts; the snapshot's slot is read before its data | a row does not go back; a live account's row stays; a pass refreshes the table; it converges |
| Indexer, price series (`market/price_subscribe.rs`) | a sample per pool update, aggregated into candles | not modelled (section 6) | |
| Runner (`runner`) | none durable; reads the oracle and its facts, fetches them, queries a model, submits one `submit_ai_claim`, or verifies one | a confirmation times out although the transaction lands; forks; reruns; facts are still being settled | at most one claim, confirmed only if it stays; inputs anybody can reproduce; each run ends and a claim lands |
| App, sequences (`useActionSequence`, `useComposeSequence`, `send.ts`) | the statuses on screen; several transactions per click, packed, relayed, polled, resumed | lost answers, late landings, double clicks, reloads | what is shown as done is done; nothing is paid twice; pressing again completes |
| App, oracle page (`pages/OracleDetail`, `components/oracles`, `data/actions`) | reads only; cranks, forms, claims, sweep | the page repeats the program's conditions, sends whole sets in packets of limited size and needs a nonce the chain does not store | every step the program waits for is offered; the page takes nothing back |
| App, market page (`pages/MarketDetail`, `components/markets`, `marketView.ts`) | reads only; nine lifecycle and liquidity controls | the same | offers and acceptance agree; the position shown is the one paid |
| SDKs (`sdks`), docs site, scripts, skills | none beyond the chain | | builders match the programs' layouts |

`PROJECT.json` lists all components with their status, and the hazards of the
code line by line with the property that watches each.

## 2. Modules, and how they follow the code

| module | models | extends |
|---|---|---|
| `Amounts` | u64 amounts, fractions and their two roundings | |
| `Plurality` | what `plurality()` promises | |
| `PluralityScan` | the loops of `plurality()` (`plurality.rs`) | `Plurality` |
| `Dispute` | an oracle from creation to verdict | `Amounts`, `Plurality` |
| `Reward` | the split of the reward pool (`reward.rs`) | `Amounts` |
| `Settlement` | claims, closures, sweep, hand-over to the DAO | `Dispute`, `Reward` |
| `OracleApp` | the app's oracle page over `Settlement` | `Settlement` |
| `Verdict` | what an oracle promises to its readers; `Settlement` implements it | `Plurality` |
| `PredictionMarket` | a sub-market over an oracle, with the governed `Config` | `Amounts`, `Plurality`; an instance of `Verdict` |
| `MarketApp` | the app's market page over `PredictionMarket` | `PredictionMarket` |
| `Protocol` | configuration, hand-over, the creation and re-creation of oracles | `Amounts` |
| `EventIndexer` | transactions to events, the cursor, metadata | |
| `AccountMirror` | the account tables: tail, snapshot, prune | |
| `Runner` | keepers and verifiers against a moving chain | |
| `ActionSequence` | writes of several transactions in the app | |
| `MC...` | values of the constants for TLC | |
| `Sums` | facts about sums over finite sets, for the proofs | |
| `DisputeProofs`, `SettlementProofs`, `PredictionMarketProofs`, `ProtocolProofs`, `IndexerProofs`, `RunnerProofs`, `SequenceProofs` | the proofs; `DisputeProofs` ends with those of `PluralityScan`, `IndexerProofs` are those of both indexer modules | the module proved about, with the page over it (`OracleApp`, `MarketApp`), `Sums` |

### The programs

**Granularity.**  One instruction is one action: the runtime runs an instruction
whole or rolls it back, and serialises those that write the same account (nearly
every instruction here writes the oracle).  So there are no half-done handlers to
model; every failing check is a guard.  Everything below a handler (a transfer, a
CPI, a burn) is part of its action, and a CPI that can fail (resolving a resolved
question, paying more than a balance) is a guard of it.

**Accounts.**  `proposer`, `fact`, `fact_vote`, `ai_claim` and `market` are
functions whose domain is the set of accounts that exist; their values are
records with the code's field names.  `oracle` is one record.  That the account
passed to an instruction is the right one (owner, seeds, type tag) appears as the
range of a quantifier.

**Tokens.**  `kass` says where the oracle's KASS is: in the vault, behind a
question's conditional vault, burned, or with challengers.  `usdc` says the same
of the challengers' USDC.  Amounts are `0 .. U64_MAX`; each `checked_add` is a
guard `x + y \in U64`, so a sum that would overflow disables the instruction as in
the code.  `U64_MAX` is 13 in the run that watches `Dispute`'s type invariant, so that
deposits do reach it.

**Clock.**  `now` moves by `Tick`.  `phase_ends_at` and `twap_end` are computed as
in the code.  `MaxLag` bounds how long past a deadline the clock is followed: a
finalizer may be sent late, the next window then starts late, and further
lateness only shifts every later deadline.

**Snapshot.**  The parameters of an oracle are constants.  That is the code's own
rule: `create_oracle` copies them, so that `set_config` does not reach an oracle
in flight.  Their assumptions are what `set_config` enforces (fractions at most
one, positive denominators and windows).

**External code.**  A question of MetaDAO's conditional vault is a balance and
membership in `resolved_question`; TWAPs and prices are values from small sets.
A challenger picks a question from `QuestionsFor[p]`: the handler checks that the
question's resolver is the oracle and that it has two outcomes, not that it
belongs to the claim.

**Batches.**  `finalize_facts` and `finalize_ai_claims` loop over the accounts
given; since an account passed twice is refused (it is marked when first met), a
call is a non-empty subset, and its effects are sums over the subset.

**Settlement.**  `SettlementNext` is a step of the dispute or one of the claims,
closures, the sweep and the hand-over.  Closing an account removes its key.
`governance_set` gates the three instructions that need a DAO: the price read in
`open_challenge`, `resolve_deadend`, and the sweep's treasury.  `close_market` wants an
escrow of exactly nothing, and anybody can send USDC to one: `donated` says to which.

**The verdict.**  `Verdict` is the oracle as the market program reads it: pending,
then resolved or at a dead end, from which only the DAO resolves it; at any time
after that the account may be swept.  `Settlement` defines `VerdictStatus` and
`VerdictOption` over its own state, and `ImplementsVerdict` (run `Settle`)
is that its behaviours are behaviours of `Verdict`.  So `PredictionMarket` runs
over an instance of `Verdict` and the two programs need not be multiplied in one
run.

**Prediction markets.**  `PredictionMarket` is one sub-market: `create_market`,
`contribute`, `activate`, `add_liquidity`, `cancel`, `refund`, `resolve_market`,
`collect_fee`, `claim_lp`, `close_market` and `update_config`, one action each; a
state with the singleton `Config` initialised is the initial one.  `market` and
`contribution` are the accounts with the code's field names, `escrow` and
`lp_vault` the balances of the two vaults, `payout` the numerators the question is
resolved with.  A market that is closed may be created again for the same oracle.
The instructions act on accounts of one market only; sub-markets of one oracle
share its account, which they only read.  MetaDAO's pool is external: the LP tokens
it mints and the KASS value `collect_fee` computes from its reserves are values
from sets, since trades between two instructions move them at will.  Outsiders may
also seed the pool before `activate`, which then fails, so nothing assumes that
`activate` ever succeeds.  Anybody may send tokens to the two vaults (`DonateKass`,
`DonateLp`, bounded by `MaxDonation`).  The oracle may be swept at any time after it
finished, whether the market still needs it or not.

**Protocol.**  One action per instruction of governance, sent by anybody with valid
and invalid parameters, and `create_oracle` with the decaying fee average, the burn, the
ramp of the stake floor, the emission and the snapshot.  What happens between an
oracle's creation and its sweep is the matter of `Dispute` and `Settlement` and is
reduced to stakes, an end and claims of the stakes.  Accounts live at addresses
derived from the nonce: an oracle created under the nonce of a swept one may find
stakes and metadata that the first left behind.  Such an oracle is marked `heir` (a
history variable of the model), and the properties about what is found at an
oracle's addresses except it: that is what the code does (section 5).

### Around the programs

**EventIndexer.**  A transaction is its number in chain order and carries one
instruction.  Carbon's crawler is external: it lists what is newer than its `until`,
newest first, and has `MaxConcurrent` transactions in flight, any of which may arrive
next.  Each database write is a step of its own (`Process`, `IndexMetadata`,
`NoteProcessed`, `Promote`, `Fetch`), because a crash may come between any two and each
may fail; `Crash` forgets everything that is not a table.  `passed` and `failed` are
history: what the cursor was promoted over, and what an insert failed for.

**AccountMirror.**  The oracle's and the market's tables are written by the same
statements, so there is one module.  What an account holds is named by the slot it was
written in.  `Slot` writes or closes any accounts; the tail delivers an update late or
loses it; a pass reads the slot, then the accounts, then upserts row by row, then
prunes, one action per await.

**Runner.**  One action per await of `run --submit` and `verify`: read the oracle's
metadata and their JSON, read the agreed facts, fetch one fact after the other, ask the
model, send, poll.  Each may fail.  The cluster processes, confirms or forks;
`finalize_facts` settles the facts page by page while runs read them, and once the oracle is
done `claim_fact` closes their accounts (`CloseFact`), after which a list no longer
has them; hosts hand out altered bytes and are repaired.  What no rerun mends is part of the
state: metadata that are missing, until the creator writes them, or unusable (`meta`), facts
whose uri does not decode (`unlistable`) or whose content cannot be had as committed
(`unreadable`), a claim address that a stranger funded (`funded`).  An oracle created under a
swept nonce may start beside facts and metadata of the first, so that its labels (`Labels`)
need not be as many as its options.  A prompt is the set of its inputs.

**ActionSequence.**  A step is what it creates, what it needs and what must not be there
yet; a transaction is a batch of steps, all or none.  A form's `run()` probes, packs,
signs, relays and polls, one action per await, and judges by the statuses of the render
that was clicked, so two runs may overlap.  A transaction whose run gave up stays in
`flight` and may land later.  `Reload` forgets all but the chain; `OtherActor` lands
somebody else's step; `EditOracle` and `Refresh` are the form's input and the polled list.

**OracleApp, MarketApp.**  The pages keep no state that outlives a click.  They are
operators over `Settlement` and `PredictionMarket`: which control is offered in which
state, and what the program says to it.  For that an instruction's checks are operators of
their own where a page asks for them (`CanFinalizeOracle`, `CanPay`, `CanRefund` and so
on); the action is the checks and the assignments.  So the properties compare two texts
that were written apart, the TypeScript condition and the Rust handler's checks, in every
state the handlers can reach.

### Mutants

Definitions named `X_Something` are wrong variants of `X`.  Nothing uses them; each is
there to be put in the place of `X` in a run, to see that a property then fails.
`PROJECT.json` names one for each property.  Where a property is a conjunction of named
parts, the modules keep a variant for each of several parts (`RedeemedAt_NotBurned`,
`ClaimFact_AnyTime`, `settleOpen_ResolvedOnly`, `Waits_Unbounded` and so on).

## 3. Runs

`tlc -workers 4 -config <cfg> <module>`; `Settle` and `Runner` take some three
minutes, the others one or less.

| run | module | what it asks | states |
|---|---|---|---|
| `PluralityScan` | `PluralityScan` | do the loops return the strict plurality | 3,458 |
| `DisputeChallenge` | `MCDispute` | safety of a dispute with three proposers, two questions, a late clock and u64 at its end; is it ever stuck | 621,574 |
| `DisputeLive` | `MCDispute` | the pool with two facts and stakes that round; does a dispute end and do challenges settle | 207,827 |
| `Settle` | `MCSettlement` | claims after every kind of dispute; the verdict as others see it; the app's oracle page | 2,840,738 |
| `Protocol` | `MCProtocol` | governance and creation, two nonces used twice | 476,168 |
| `MarketShares` | `MCPredictionMarket` | a market of three contributors with fees, late liquidity, donations and the sweep | 725,733 |
| `MarketLive` | `MCPredictionMarket` | is the market page honest, and does every market close from it | 194,154 |
| `EventIndexer` | `MCEventIndexer` | crawl, crash and promotion; metadata | 101,991 |
| `AccountMirror` | `AccountMirror` | tail against snapshot | 1,103,212 |
| `ActionSequence` | `MCActionSequence` | four forms with overlapping runs and a fault | 241,223 |
| `Runner` | `Runner` | a keeper and a verifier with faults, late readings and inputs that cannot be read | 540,110 |
| `ZeroBond` | `MCDispute` | section 5 | stops at a violation |

**What is checked.**  A property in *italics* is a part of the one before it.

The dispute (`DisputeChallenge`, `DisputeLive`):

* `CountersAccurate`: the six counters equal the number of accounts they stand
  for.  The finalizers compare sets with them.
* `BondPoolIsTheSlashes`: `bond_pool` is the sum of all `slashed_amount`s and of
  what rejected facts forfeit, whichever of the slash paths was taken.
* `TokensAccounted`: no KASS appears or vanishes (*`KassConserved`*); a challenger's
  reward is what is missing from the slash of its own target
  (*`ChallengersPaidFromBonds`*); an open challenge's escrow is whole, a settled one's
  empty, which `close_market` needs (*`EscrowBacksOpenMarkets`*).
* `VerdictIsEarned`: no verdict while a challenge is open (*`NoVerdictDuringChallenge`*);
  the counted vote is the published one (*`SurvivorsHaveClaimed`*).
* `SlashesStand`: a slash is never undone, also when a second one is computed on top.
* `NeverStuck`: an overdue dispute has an instruction that anybody may send and the
  program accepts, whatever batches, slashes and challenges came before and whatever the
  pools show: no counter, total or balance blocks all finalizers.  Two cases are excepted
  (section 5): a challenge on a resolved question and a dispute of empty bonds.  Unlike
  `DisputesEnd` it assumes nothing about who sends what.
* `DisputesEnd`, `ChallengesSettle`: liveness.  Both except a challenge that was built on
  a question already resolved (section 5).

Settlement and its readers (`Settle`):

* `ClaimsArePaid`: in a terminal phase the vault holds at least what all open
  accounts may claim, so the order of claims does not matter and nobody is the
  last in an empty vault, through a dead end, its burn and a later `resolve_deadend`
  (*`VaultCoversClaims`*); what the claims leave is dust, at most a unit per account and
  one for the split of the pool (*`NoPoolStranded`*); no fact is closed while a vote
  with a stake on it is open (*`VotersKeepTheirFact`*).
* `ImplementsVerdict`: whoever reads an oracle sees at most one verdict, which
  stands until the account goes; only a dead end may still become one.
* `PageServesEverybody`: whenever the program accepts a permissionless step of a dispute,
  the page offers one, but for four named cases (*`AppKeepsUp`*); it offers every move a
  party may make, but for a stake of zero and a second challenge (*`PartiesAreServed`*),
  and every payout and closure, but for a submitter who must wait for voters, a vote whose
  fact is gone and a challenge to whose escrow a stranger sent USDC (*`PayoutsServed`*); the stages and verdicts it showed stand
  (*`PageStandsByItsWord`*).

Governance and creation (`Protocol`):

* `SnapshotsUsable`: the parameters of every oracle are what `Dispute` and `Settlement`
  assume of theirs: proper fractions, windows that pass, a reward split that divides, a
  flip slash and a challenge fee that one bond can pay together.
* `DecayIsMonotone`: waiting never makes an oracle dearer, across the joins of the
  half-lives and their roundings.
* `AccountsBelong`: stakes meet the floor their oracle was created with
  (*`StakesMeetTheirFloor`*) and its metadata lists its options (*`MetaMatchesOracle`*),
  but for an heir.
* `VaultsAreSound`: types, and each vault covers its stakes (*`VaultCoversStakes`*).
* `OnlyTheAuthorityGoverns`: the initializer until the hand-over, then the DAO named last.
* `EmissionWithinCap`: no emission lifts the supply above the cap of the day.

Prediction markets (`MarketShares`, `MarketLive`):

* `ContributionsCounted`: a market's counter is the number of its contributions;
  the last to leave takes the rest, and `close_market` waits for zero.
* `FeeComesFirst`: no LP token leaves before the fee is cut (*`NoClaimBeforeFee`*), and
  the fee stays within the rate the market was created under, whatever governance does to
  `Config` and outsiders to the pool (*`FeeWithinSnapshot`*).
* `VaultsCoverClaims`: until activation the escrow is exactly the contributions and what
  strangers sent (*`EscrowBacksRefunds`*); the LP vault covers all open shares in any order
  of claims (*`SharesCovered`*); nothing beyond rounding is left without an owner
  (*`NoShareStranded`*).
* `SharesAreProportional`: each share is its owner's part of everything ever minted, the
  funders' and the late depositors', rounded down at most twice.
* `PayoutFollowsVerdict`: an outcome is only paid if the oracle's verdict is that
  outcome, also when `resolve_deadend` came before the market was resolved.  (A market
  resolved at the dead end is void and stays so.)
* `PageIsHonest`: every step the program would accept is offered (*`AcceptedIsOffered`*);
  everything offered would be accepted, but for four named cases (*`OffersAreAccepted`*);
  the position shown is the one paid, to within rounding (*`PositionIsHonest`*).
* `MarketsClose`: every market pays everybody and is closed, sent from the page alone,
  unless its oracle is swept before.

The indexer (`EventIndexer`, `AccountMirror`):

* `NothingMissed`: below the durable cursor every event is stored (*`IndexedUpToCursor`*) and
  every announced metadata has a row (*`MetadataFollowsEvents`*), but for what was `passed`:
  the cursor was promoted while a transaction was still queued, or after its insert
  failed.  No crash, poll or order of arrival opens a gap in another way.
* `CursorAdvances`: the cursor moves only to a stored event of a later slot.
* `IndexerCatchesUp`: every event is indexed in the end, and the cursor reaches them.
* `MetadataServed`: a committed JSON that its host serves is served in the end, unless
  `Batch` newer oracles are missing theirs.
* `RowsAdvance`: a row goes back only where a snapshot stamped it older than its data.
* `LiveRowsAreKept`: the prune never removes the row that shows an account as it is.
* `PassesRefresh`: after a pass without failures no row is older than the pass.
* `Converges`: once the chain is quiet, the table becomes what it holds.

Runner and app (`Runner`, `ActionSequence`):

* `OneConfirmedClaim`: reruns after timeouts, lost answers and forks give a proposer one
  claim at most (*`AtMostOneClaim`*); a run that reports a confirmation has its own
  payload on chain for good (*`ConfirmedIsOnChain`*).
* `InputsAreReproducible`: keeper and verifier ask the model the same question, over the
  committed rules and all agreed facts, for as long as the facts' accounts are there: a run
  that reads the list before all facts are settled, or after `claim_fact` closed one, asks
  about fewer, never about others.  A claim that landed was not made from a late list, but it
  may have been from an early one.
* `RunsSucceed`: every run ends (*`RunsEnd`*); a claim lands as long as the phase lasts
  and the inputs can be read (`Claimable`: metadata that are there and lead to a prompt, no
  more labels than options, facts that can be listed, fetched and decoded), unless a stranger
  funded its address (*`ClaimLands`*).
* `ReportsAreTrue`: a step shown as done is on chain (*`DoneStepsLanded`*); a click on
  Deposit pays each market once at most (*`DepositsCounted`*).
* `SequencesComplete`: pressing the button again completes an activation, a creation and a
  composition, with the exceptions that the three parts name (section 5).

**Bounds, and why they are enough.**  Two proposers are the least that disagree;
three give a plurality of two against one, a tie of one each once one is out,
and two simultaneous challenges against different survivors.  Two options suffice
for every branch of the dispute, which treats a plurality only as won or not; the
scan itself runs with three.  Two questions allow one per challenge and one for
both.  Two facts (`DisputeLive`) let a batch settle one before the other and let
one be approved, duplicate or rejected beside a different one; two voters on one
fact (`Settle`) outvote each other and share its rounding.  Windows
last one tick, so that each guard on a deadline sees the instant before, at and
after it.  Bonds and stakes are chosen so that each fraction rounds (31 and thirds,
stakes of 8 and of nothing), and the weights 2 and 1 so that the split of the pool does.
`DisputeChallenge` runs with `U64_MAX = 13` against bonds of 2 and 3, so that deposits are
refused; `Settle` with 120.  `Settle` is cut by the constraint `SmallElectorate`: two
proposers with two votes, or three with one.  The
TWAPs contain a fail price above the margin and equal values, in `DisputeChallenge` also 0 (no price).
The page's limits, really 24 accounts before it hides a crank and some 28 in a
packet, are both 2 against three proposers, so that both sides of them occur.
`Protocol` sends two valid and five invalid configurations; with a half-life of two ticks
and a clock of two the average passes the join; a cap of 30, then 20, against a supply
of 21 makes room for some emissions and for none.
A market's amounts are 8 and 13 with LP
mints of 0, 10 and 23 and fees of 0, 2 and 10 per cent, so that shares and fees
round and may be zero; with `U64_MAX = 37` totals reach the end of u64 after two or
three deposits, and `U16_MAX` of 2 or 3 lets the contribution counter fill.  A pool value of 0 or 400 is a
loss or a profit.  Three contributors let one leave before, between and after two
others, of whom one funded and one came late.
The indexer has three transactions in two slots, so that a slot is shared and the
cursor has a distance to move; two crashes let one follow a promotion and one a resume; a
batch of one oracle instead of fifty is starved by one other.  In `AccountMirror` three
slots allow a state, a newer one and a closure, or a closure and a re-creation, around
one pass.  `ActionSequence` packs two steps of size one into a transaction: an activation
and a deposit take several transactions, two outcomes are created in one unless one of
them is there already, a composition always sends step by step; `Unedited` stops at an edited oracle,
of which nothing is promised.  `Runner` sends at most twice with at most one fault, so
that a rerun after the fault is not stopped by the bound; a stranger's donation and the
closure of a fact count as the fault, one of either being enough to be noticed.
`MaxDonations` is 1 in `Settle`: one escrow with a donation beside one without.

Proposers, voters, questions, contributors, nonces and keys are interchangeable where
symmetry is declared: each set's elements occur in the formulas only through
quantifiers and function application, and `QuestionsFor` is the same for all.
`Settle`, `DisputeChallenge` and `Protocol` have temporal formulas beside it, but these are
`[]`-formulas over states and steps, symmetric in those sets; no run with a liveness
property uses symmetry.

Deadlock checking is off: an oracle, a market or a form may stop when it has come to its
end or when the parties have nothing left to send and the clock is not followed further.
That none stops before its end is what the liveness properties say.

**Fairness.**  `Dispute`'s `FairSpec` assumes weak fairness of the clock and of each
permissionless finalizer, one by one and per market for `settle_challenge`: time
passes, and whoever has a stake in an oracle sends the crank that would succeed.
The program has no scheduler; its documentation gives these instructions to anyone
for this reason.  Nothing is assumed of proposers, submitters, voters, claimants
of AI options, challengers or the DAO: the oracle must end whatever they omit.

`AppMarketSpec` assumes that the oracle finishes and that somebody presses a crank
the page offers (cancel, resolve, collect the fee, close), each contributor their own
refund or claim.  Nothing is assumed of contributions, of `activate` or of the DAO.  That
the oracle is not swept first is a condition in `MarketsClose`.

`EventIndexer` assumes that a supervisor restarts the process and that its loops (poll,
process, tick, fetch) run as long as it does; nothing obliges the chain to produce, a
client to POST, or a fault to come.  `AccountMirror` assumes that an update is handled or
lost in the end and that the reconcile loop goes on; deliveries as such are not assumed.
`Runner` assumes that a started run goes on (every await has a client timeout), that a
keeper whose run ended unconfirmed is started again, that the model answers in the end,
that the cluster decides what it holds, and that a broken host is repaired; the vote, the
end of the phase, the metadata and the claims on facts are never forced.  `ActionSequence` assumes the event loop's turns, that a relayed transaction
lands or expires, and that the user presses the button while it is offered.  Crashes,
faults, reloads and forks have no fairness and are bounded.

## 4. Proofs

`tlapm <module>`; every obligation is proved by Z3, Zenon or LS4.

| theorem | module | says, for every value of the constants |
|---|---|---|
| `ScanTypeCorrect`, `ScanReturnsStrictPlurality` | `DisputeProofs` | the loops of `plurality()` keep their types and return exactly the strict plurality |
| `DisputeTypeCorrect` | `DisputeProofs` | every account keeps its shape and no balance or total leaves u64 |
| `CountersCount` | `DisputeProofs` | `CountersAccurate` |
| `VerdictEarned` | `DisputeProofs` | `VerdictIsEarned`, from `SurvivorsClaimed` and `VerdictAfterChallenges` |
| `SlashesNeverUndone` | `DisputeProofs` | `SlashesStand` |
| `PoolIsTheSlashes` | `DisputeProofs` | `BondPoolIsTheSlashes` |
| `TokensAreAccounted` | `DisputeProofs` | `TokensAccounted`, from `KassIsAccounted` and `EscrowIsBacked` |
| `PromiseKept` | `SettlementProofs` | `ImplementsVerdict`: an oracle's whole life implements `Verdict` |
| `SettlementTypeCorrect` | `SettlementProofs` | types through claims, closures and the sweep |
| `ClaimsPaid` | `SettlementProofs` | `BondsPositive => ClaimsArePaid`, with `VaultPaysEverybody` and `VotersKeepFacts`, which hold without `BondsPositive`; the last is about votes with a stake, since one of no stake does lose its fact |
| `DisputeNeverStuck` | `SettlementProofs` | `NeverStuck` |
| `PageServes` | `SettlementProofs` | `PageServesEverybody`, from `ChallengesOver` and `DueIsPayable`; its step properties are `PartiesStayServed` and `PageKeepsItsWord` |
| `MarketTypeCorrect` | `PredictionMarketProofs` | a market's types; its two vaults are never overdrawn |
| `ContributionsAreCounted` | `PredictionMarketProofs` | `ContributionsCounted` |
| `FeeIsSafe` | `PredictionMarketProofs` | `FeeComesFirst`, from `NoClaimComesFirst` and `FeeIsWithinSnapshot` |
| `VerdictIsPaid` | `PredictionMarketProofs` | `PayoutFollowsVerdict` |
| `VaultsPayEverybody` | `PredictionMarketProofs` | `VaultsCoverClaims`: escrow, shares, and nothing stranded |
| `SharesAreFair` | `PredictionMarketProofs` | `SharesAreProportional` |
| `PageStaysHonest` | `PredictionMarketProofs` | `PageIsHonest`; the position is `PositionStaysHonest` |
| `SomebodyCanMove` | `PredictionMarketProofs` | a market whose oracle is done and not swept can be moved from the page until it is closed |
| `MarketWindsDown` | `PredictionMarketProofs` | from then on each such move takes it closer to its end, within `U16_MAX + 3` of them, and nobody takes it further away |
| `SnapshotsStayUsable` | `ProtocolProofs` | `SnapshotsUsable` |
| `AccountsAreOwn` | `ProtocolProofs` | `AccountsBelong`, from `FloorsAreMet` and `MetadataMatches` |
| `OnlyAuthorityGoverns` | `ProtocolProofs` | `OnlyTheAuthorityGoverns` |
| `VaultsStaySound` | `ProtocolProofs` | `VaultsAreSound`: the types of the protocol's accounts, and stakes that the vault covers |
| `EmissionStaysWithinCap` | `ProtocolProofs` | `EmissionWithinCap` |
| `DecayStaysMonotone` | `ProtocolProofs` | `DecayIsMonotone` |
| `CursorHidesNothing` | `IndexerProofs` | `NothingMissed`, from `NothingLeftBehind` and `MetadataNotLeftBehind` |
| `CursorOnlyAdvances` | `IndexerProofs` | `CursorAdvances` |
| `MirrorTypeCorrect` | `IndexerProofs` | the types of the tables and the pass |
| `RowsNeverGoBack` | `IndexerProofs` | `RowsAdvance` |
| `PruneSparesLiveRows` | `IndexerProofs` | `LiveRowsAreKept` |
| `PassRefreshes` | `IndexerProofs` | `PassesRefresh` |
| `OneClaimConfirmed` | `RunnerProofs` | `OneConfirmedClaim` |
| `InputsReproducible` | `RunnerProofs` | `InputsAreReproducible` |
| `ReportsStayTrue` | `SequenceProofs` | `ReportsAreTrue` |

*Assumptions.*  Those named in the modules: `U64MaxAssumption`,
`OptionsAssumption`, `MaxVotesAssumption`, `DisputeAssumption`, `WeightAssumption`,
`GraceAssumption`, `MarketAssumption`, `ProtocolAssumption`, `GenesisAssumption`,
`IndexerAssumption`, `MirrorAssumption`, `RunnerAssumption`, `SequenceAssumption`, `TailAssumption`.
They say that the sets of proposers, facts and contributors are finite, that amounts
are u64, and that the parameters are what `set_config` admits; `GenesisAssumption` that
`config.rs` holds such parameters; `IndexerAssumption` that slots do not descend;
`RunnerAssumption` that the counts are positive and a fault leaves a send;
`SequenceAssumption` that a group, an oracle's options and a transaction's room are not
empty; `DisputeAssumption` and `MarketAssumption` also that the sets of TWAPs and of pool
values are not empty, that is, that a pool can be read.  The two fees of a challenge need
no joint bound: the code caps the KASS fee at what earlier slashes left of the bond.

*Sums.*  Totals of stakes, bonds, shares and claims are sums over the accounts there are.
An induction over finite sets with the property as a parameter is not available, but for
one given property the smallest subset where it fails is a set like any other
(`SmallestSubset`, from the well-foundedness of strict inclusion).  In this way `Sums` shows
that the sum takes one element after the other (`SumElement`), and from it what the
invariants need: one value changed, one account left, a set split or grouped, one sum
bounded by another, and how much the floors of a division leave over (`SharesFit`).

*The scan.*  `ScanInv` says what the loops know midway: `tally[o]` is the number
of the first `i` votes for `o`; `best_count` bounds the counts of the options
scanned and is reached by `best_option`; `tied` holds exactly when another scanned
option reaches it too.  At the end of the scan this determines the outcome.

*Types.*  `TypeOK` alone is not inductive.  An update of an account that does not
exist would not give a record, so `AccountsLinked` (an AI claim has a proposer, a
challenge has an AI claim) is added; and a settlement subtracts from an escrow, so
`EscrowBacksOpenMarkets` is.  Their conjunction is `TypeInv`.

*The dispute.*  `DisputeInv` is `TypeInv` with

* `CountersAccurate`, which is inductive given types: each action's lemma shows
  which set grows or shrinks and by how much;
* `ClaimsMatch`: a vote is that of an AI claim, and a finalized survivor has one.
  `SurvivorsHaveClaimed` speaks of the challenge phase only and follows with
* `PhasesOrdered`: in the challenge phase all proposers are finalized (this is
  where the counters are needed: the phase begins when `ai_finalized_count` equals
  `proposer_count`), challenges exist only from then on, and none is open in a
  terminal phase;
* `SlashesOrdered`: a slash is within its bond, and a survivor not yet finalized
  has none, so that the top-up of a second slash starts from the first;
* `VaultsBackChallenges`: a conditional vault holds KASS only for an open challenge,
  which with the last gives the second half of `NoVerdictDuringChallenge`.

Each has a lemma per action that disturbs it; `DisputeInvStep` collects them.

*The books.*  `BooksInv` adds to `DisputeInv` three equations that every instruction keeps
although none of them checks it: the pool is the sum of the slashes and of what rejected
facts and their approvers forfeit, the challengers hold what disqualified bonds lost beyond
their slash, and no KASS appears or disappears (`Books`).  An instruction that slashes
counts on the account not having been slashed before, a vote on the fact not being
settled: `OrderInv` says that a slash without its mark is none (`SlashesMarked`), that a
challenged proposer still stands (`ChallengedStand`) and that the flags of a fact come with
its settlement, after which the vote is over (`FactsInOrder`).  Each instruction has a
lemma, `<Instruction>Books`, that says which term of which sum it changes by how much.

*The verdict.*  `VerdictEffect` lists what an instruction may do to the phase and
the option of the `Oracle` account, and `PartyEffect` and `CrankEffect` show that each
does one of these things.  `EffectKeepsPromise` maps each to a step of `Verdict` or
a stutter.  No invariant is needed beyond the account having these fields, because
the option of a verdict is one by the definition of `Plurality` and by the arguments
of the two other instructions that resolve.

*Settlement's types.*  Claims break `AccountsLinked`, but only in a terminal phase,
where the DAO's is the only instruction of the dispute left (`TerminalStep`); so
`SettleInv` asks for `TypeInv` outside these phases alone.

*Claims.*  `LifeInv` has two halves, as the life of an oracle has.  Before the verdict it is
`BooksInv` and `StakesInv`: tallies are the sums of the votes, totals of correct bonds and
approved stakes are those of the accounts that will claim them.  The instruction that
decides (`finalize_oracle`, or a finalizer that ends in a dead end) moves from the books to the claims: what
everybody together is entitled to is the vault or less, by the split of the pool and by
the floors of each share.  After the verdict `ClaimsInv` keeps that inequality; a claim or
closure takes from both sides what it pays.  `ClaimsArePaid` also says that nothing but dust
lacks a claimant.  That half needs `BondsPositive`, that a bond which meets the stake floor is not
0 (as in the `Settle` instance): at a stake floor of 0 the right proposers may all have
bonds of 0 while the pool is full of facts' stakes, and then the proposers' part of the
pool is nobody's.  `VaultPaysEverybody` and `VotersKeepFacts`, what a claimant depends on, are proved
without it.

*Prediction markets.*  `MarketInv` adds to the types: the counter; that nothing is
settled before the oracle is (`StatusFollowsOracle`, `FeeAfterVerdict`), which makes
`PayoutFollowsVerdict` inductive against an oracle that moves on; that a market begins
without LP tokens of strangers (`BeginsClean`), so that the vault's balance is the
total from the start; that what a contribution records is within the market's totals
(`WithinTotals`), so that top-ups cannot overflow unchecked; and that the totals
shares are divided by are positive (`PositiveBases`).  `FeeInv` adds that until the
fee is settled no LP token is missing; a floor of a floor of the total is then within
the rate (`FeeWithinRate`).  The oracle enters by `Verdict` alone: `OracleMoved`.

*A market's vaults.*  That the escrow holds all refunds and the LP vault all open shares is
not kept by a step on its own: when a market activates, the balance of the vault becomes
the sum of shares nobody has computed yet.  `VaultInv` adds what ties the two: until somebody
leaves, the contributions add up to the market's totals, in KASS and in LP tokens
(`BooksBalance`); a market without late liquidity has one rate for all (`OneRate`), since
`claim_lp` then divides by another total; strangers cannot have sent KASS to a
market before it exists (`FreshEscrow`); and fee and claims only lower `lp_total`
(`NothingAboveGross`).  A share is a floor over another floor; `SharesFit` and `SharesAbove` bound
all of them together by the total from above and, to within two tokens for each contributor,
from below, which is `NoShareStranded` and `SharesAreProportional`.

*Governance and creation.*  `ProtocolInv` is the shapes of the accounts, `ConfigUsable`
(the parameters of the day are usable, from `GenesisAssumption` and `ValidIsUsable`: what
`set_config` admits is usable, which is arithmetic about fractions), and the three
properties themselves.  `ProtocolStep`, `OracleStep`, `StakeStep` and `MetaStep` say what any
instruction may do to each kind of account; the invariant then follows from these effects.

*Supply and vaults.*  `HoldInv` is the accounts' types, that the vaults hold no more than what
circulates (`VaultsInSupply`), which keeps every credit within u64, and that a vault that did not
inherit anything holds its stakes and the emission not yet burned (`VaultsReserve`).  An oracle created
over a swept one counts anew; `heir` marks those whose vault was not empty.

*Decay.*  The fee halves with every half-life and is interpolated between.  `PowerDoubles`
counts subsets, since `2^n` has no other theory here: a set of `n` elements has `2^n` of them, and
one more element doubles their number.  Within a half-life the interpolation falls
(`InterpolationFalls`); where two meet, the floor of half a floor is the floor of the
half (`HalvedAgain`), so that they join without a step up (`InterpolationJoins`).

*The indexer's cursor.*  `NothingMissed` speaks of the cursor, but the danger is what
will be promoted next.  `CursorInv` follows a transaction on its way: what is at or below
the `until` of the crawler and not stored is in the queue, at hand, failed or passed
(`Listed`, `ListedBelow`, `GoneBy`), the head of the session and what is being promoted
are stored events (`HeadsFollow`), a process that is down has nothing in memory
(`DownIsIdle`).

*The account mirror.*  `MirrorInv` says that nothing comes from the future
(`Dated`); that a live account holds its latest state, and that what is under way is the
latest state up to the slot it will be stamped with (`InOrder`); that a row a snapshot does
not hold is not newer than both its stamp and the pass (`StampedInPass`), and its account
is closed or was written since (`AbsentIsClosed`); that a row ahead of the pass is no older
than the account was at its begin (`AheadIsFresh`); and that an account of the snapshot is
still to be upserted or has been (`PassGoesOn`).

*The runner.*  `RunsInv` says what every run on a machine knows of the chain (`GoodRun`): a run
that waits has a transaction, one that reports a confirmation has one that landed, a list
of facts holds agreed ones only, and one read after their settlement and before a
closure holds all of them, committed or to be fetched (`ReadsCommitted`); nothing is closed before the
claims are over, so a list that is late is read when no claim lands any more; that a claim built from the chain's data carries the prompt of the
commitment (`GoodClaim`); and that the fork holds one transaction at most, because the
account a claim creates exists on it.  `Onward` is the other side: what steps of other
machines, forks and rollbacks leave as it was, so that a run's knowledge stays true.

*The sequences.*  A run of the app is judged beside the world it runs in, what is on screen
and on chain.  `Truth` says what it and the statuses may rely on (`GoodRun`, `GoodStatuses`):
the batches it will send are disjoint sets of steps, a step it marks as done is on chain, and
what it has probed and not found missing is there.  Accounts are only ever added and an oracle
is only replaced by the edit that the property excludes, so other runs, other users and
reloads leave this true (`Onward`, `RunStays`).  A transaction in flight belongs to the run that waits
for it or to nobody (`GoodFlight`).  `Deposits` counts: each click owes each market one
deposit, which is with a run that has not sent it or with a transaction in flight, so
that `paid`, the runs still owing and the transactions carrying it are together no more than
the clicks; and every run that may yet report success has been paid for.  Relaying moves the
debt from run to transaction, landing from there to `paid`, reporting to `finished`; giving
up only drops it (`Follows`, `Calmer`).  That packing loses no step and repeats none is
`Packed`, about the function that `packSteps` is here.

*A dispute never stuck.*  Most checks of the finalizers are overflow and balance checks
that a correct history never fails, and that no single handler can tell will not fail.
`ProgressInv` says why.  All KASS that came into an oracle, with the emission, was within
u64 when it came (`SupplyFits`), so by the books a batch's slashes on top of the pool are as
well (`PoolTakes`), and so is the sum of the winning bonds.  What a dead end burns is in the
vault: before the AI claims every slashed proposer is out and nothing was paid to challengers
(`SlashedAreOut`, `ChallengersWait`), afterwards `OrderInv` and the books account for the
rest.  The vault of a question that is not resolved still holds the bond of every
open challenge on it (`BondsInVaults`), so the fee of a settlement can be paid.  A phase
whose batches are through has been left (`CountsByPhase`), so in an overdue phase there is
an account that has not been handled, and it alone is a batch that is accepted.  There is
one lemma per finalizer (`ProposalsFinalize`, `SlashAccepted`, `SettleAccepted`,
`AiClaimsAccepted`, `MarketSettles`, `OracleFinalizes`).

*The pages.*  On the market page each of nine controls is compared with the checks of its
instruction, under `MarketInv` and `VaultInv`; the balances are those of
`VaultsCoverClaims`.  The position shown and the share that `claim_lp` pays are two floors of
different products; `ShownProRata` and `ShownGross` bound each by the other, the first with
`OneRate`.  `StepsLeft` counts what a market has before it: the resolution or
cancellation, the fee, the contributions, the closure.  On the oracle page
`CrankOfPhase` says which phase an accepted crank belongs to, and `WholeSetsAccepted`, by
the lemmas above, that the whole set the page sends is accepted too unless a batch was begun.
Payouts rest on `DueIsPayable`, since a single claim is within the sum that
`VaultPaysEverybody` bounds, and on `ChallengesOver`: no escrow keeps anything of a challenge, so
that only a stranger's USDC can block a closure.
`MoveIsOffered` goes through a party's instructions and shows that the form accepts
what the program did.  `PhaseEffect` lists the phases a step may lead to (`LaterPhases`);
the strip then only grows (`StripReaches`).

*Only model-checked.*  The liveness properties `DisputesEnd`, `ChallengesSettle`,
`MarketsClose`, `IndexerCatchesUp`, `MetadataServed`, `Converges`, `RunsSucceed` and
`SequencesComplete`: fairness is a matter of `ENABLED`, which this prover does not know.
What they rest on beside fairness is proved where it is hardest: that a step exists
(`DisputeNeverStuck`, `SomebodyCanMove`) and, for a market, that each step leads on
(`MarketWindsDown`).  The refinement of `Verdict` is of its safety; that the oracle moves on is a
property of the runs.  The recursion of the fold itself is unfolded in `Sums`; no other
recursive definition is reasoned about.

## 5. Where code and comments disagree

One disagreement is a run that expects a violation:

* `ZeroBond`: at a stake floor of 0 a bond of 0 is legal, "a weightless proposer"
  (`propose.rs:77`), and the stake-floor design says that such oracles still resolve.
  `finalize_facts` refuses an oracle whose `dispute_bond_total` is 0, so a dispute
  of zero bonds stays in FactVoting for good.

The others were met while modelling.  Where a property excepts the case, it is named.

*The oracle program.*

* Claims are "challengeable in parallel" (`README.md:33`), and `open_challenge` guards
  against markets that block `finalize_oracle` for ever; but two challenges may be built
  on one question, which resolves once (`Stranded` in `DisputesEnd` and
  `ChallengesSettle`).  The app composes every challenge of an oracle on one
  `DEFAULT_QUESTION_ID` (`app/src/data/actions/challengeCompose/constants.ts:17`).
* On a dead end `resolved_option` should be the sentinel; the path in `finalize_facts`
  leaves it at 0.  Readers that look at the phase first do not notice (`Verdict` reads
  the option in phase Resolved only).
* `close_market` "asserts [the escrow] is empty" because "settle_challenge drained it"
  (`close_market.rs:104`); one unit of USDC sent to it by anybody blocks the closure, and with
  it the return of the challenger's rent, for good (`donated` in `PayoutsServed`).
* `claim_fact` looks at stakes, so a vote of stake 0 does not hold the fact open and
  cannot be closed once the fact is gone (`VotersKeepTheirFact`, `PayoutsServed`).
* The entitlement matrix in the head comment of
  `claims/mod.rs` gives a disqualified proposer `bond - slashed_amount` and rounds a
  voter's slash down; the code gives 0 and rounds up, and with the comment's rules
  `ClaimsArePaid` fails.
* `docs-site/protocol/instructions.mdx:131`
  says that `propose` refuses a zero bond with `ZeroStake`; the handler compares with
  the oracle's stake floor and answers `BelowMinStake`.
* `create_oracle` charges by the `FEE_*` constants of `config.rs`, not by fields of the
  protocol; `set_config` has no upper bound on windows.
* An oracle created under a swept nonce finds what the first left behind: stakes that
  may be claimed from its vault, metadata that may list another number of options
  (`heir` in the properties of `Protocol`).

*The market program.*

* The market design says that a market whose oracle resolves during
  Funding is cancelled and refunds everything, "there is no forfeiture"
  (`docs/plans/2026-07-03-kassandra-market-design.md:94`).  `cancel` and
  `resolve_market` read the oracle account, which `sweep_oracle` may have closed before:
  then no instruction leaves Funding (or Active) and the contributions stay
  (`MarketsClose`).

*The indexer.*

* "At-least-once, gap-free indexing across restarts" (`indexer/README.md:26`), "so nothing
  is missed" (`main.rs:5-8`), "never advances mid-backfill" (`main.rs:236`): the cursor is
  promoted when the oldest slot processed did not move between two ticks, also when the
  crawl is merely slow, and a crash then skips what was still queued.  An insert that
  failed is likewise never retried once the cursor has passed it (`passed`).
* "An older event can never clobber a newer one" (`market/db.rs:5-7`) and reconcile
  upserts "always win the slot-gate" (`market/rpc.rs:39-40`): a snapshot is stamped with a
  slot read before its data, so a newer row beats it, and an update between stamp and data
  may then put the older state back until the next pass (`RowsAdvance`).
* `oracle_metadata` keeps the first row of an address, so it stays the first one's when an
  oracle is created again under its nonce.
* The fetcher tries the newest fifty oracles without JSON at every tick: fifty dead uris
  keep all older ones out (`Starved`).
* Contributions are listed by the slot of their row, which each reconcile restamps.
* The price series: the baseline is stamped with a slot read after it; `ON CONFLICT DO
  NOTHING` on `(market, slot)` keeps the first swap of a slot; a swap between the
  baseline and the subscription is missed.

*The runner.*

* A claim made from facts read before the settlement finished lands, and nobody can
  reproduce it (`InputsAreReproducible`; `cli/config.rs:193` reads the facts of the
  moment, and the runner never looks at the phase).
* A verifier that reads the facts after `claim_fact` has closed some of their accounts
  (`claims/fact.rs:61`) judges the claim by the rest, with no error: `fetch_agreed_facts` lists
  what exists (`rpc/fetch.rs:200`; `late` in `InputsAreReproducible`).
* Some inputs stop every run, and the vote that made a fact agreed does not prevent it
  (`Claimable` in `ClaimLands`): no metadata account (`rpc/fetch.rs:168`), an empty uri, a JSON
  that is malformed or has no prompt text (`cli/config.rs:144-178`), a fact uri that is not
  UTF-8 (`rpc/fetch.rs:256`) or not http(s) (`fetch/http.rs:79`), a body over the cap
  (`http.rs:109-131`) or not UTF-8 (`fetch/types.rs:159`).  And the program refuses a claim
  whose address holds lamports, which anybody can send there (`submit_ai_claim.rs:117`; `funded`).
* A failed submission prints nothing, and the raw response is never printed, so the
  `io_hash` cannot be recomputed.  `TxFailed` is reported for an error at `processed`,
  and the transaction may still land after a fork.
* `--prompt-file` and its check against `prompt_hash` are documented (`cli/args.rs:55-59`)
  and unused.

*The app's sequences.*

* "The idempotent ATA-creates + the deterministic PDAs make a resume safe"
  (`hooks/useComposeSequence.ts:10`, `ChallengeComposeForm.tsx:100-101`): the resume does
  not probe, so a step that landed although its answer was lost fails for ever (`Wedged`).
* `CreateMarketForm` refuses an oracle that has a market, also one whose other outcomes
  are to be retried (`listed`); `initialRunState` compares lengths only, and takes over
  the statuses of another oracle's steps (`edited`).
* A second click while the composition is being built starts a second run; a second
  Deposit after a partial failure deposits again to the markets that were paid.

*The app's pages.*

* Subset-capable finalizes "are chunked" (`data/actions/finalize.ts:28`); the page sends
  the whole set, so it cannot go on with a batch that another tool began (`BatchBegun`),
  and it stops at its packet size (`SetTooLarge`).
* Of several challenges the page shows the first the node returns
  (`data/oracles.ts:255`; `MarketHidden`).  An oracle with a random nonce can be cranked
  only from the browser that created it (`NonceMissing`).
* `ChallengeMarketPanel.tsx:101` calls the proposer out at equality of the two prices,
  where the program lets it survive.
* `MarketDetail` offers to activate a market whose oracle is swept, liquidity for a
  market whose oracle is done, a refund to a wallet that never funded, a deposit that does
  not fit (`OffersAreAccepted`).  The cancel control says "under its floor", though a fully
  funded market is cancelled too when its oracle is done first.
  `outcomeResolutionText` (`marketView.ts`) announces YES or NO for a market that was
  settled void before `resolve_deadend`.
* The position is shown before the fee is taken off it.

## 6. What is not modelled

* Rent and which mints the protocol records.
* Lamports.  The instructions that create an account refuse an address that holds any,
  also one that is otherwise empty (`create_oracle.rs:126`, `write_oracle_meta.rs:121`,
  `propose.rs:135`, `submit_fact.rs:125`, `vote_fact.rs:111`, `open_challenge/entry.rs:167`,
  `submit_ai_claim.rs:117`, `create_market.rs:98`; in `contribute.rs:53` and
  `add_liquidity.rs:258` a funded address passes for an account that exists and then fails to load).
  A stranger who funds such an address thus forbids that one account.  Only `Runner`, which
  says that a claim lands, has this.  Elsewhere the refusal is left out: it only takes steps
  away, so what holds of every step and state holds with it, and the liveness of disputes and
  markets asks for no instruction that creates an account.  `OffersAreAccepted` and
  `SequencesComplete`, which do speak of such instructions, assume that nobody funded the address.
* Addresses, seeds, signers, account tags, byte layouts and the encoding of CPIs
  (`guards.rs`, `cpi/`).  What they ensure, that an account is the one it should
  be, is the range of a quantifier.
* The arithmetic of MetaDAO's pools and of the KASS price: a TWAP or price is any value of
  a set that is not empty.  So a bond too small to be worth one USDC unit, whose claim
  nobody can challenge (`open_challenge/entry.rs:271`), does not occur, nor a pool that
  cannot be read or TWAPs whose products leave u128 (`settle_challenge/entry.rs:149`):
  in either case `settle_challenge` would fail until the pool shows something else.
* Claims after the sweep: `sweep_oracle` documents that what is unclaimed at the end
  of the grace is forfeit, so `ClaimsArePaid` speaks of an open oracle.  The grace counts
  from `phase_ends_at`, not from the verdict (`sweep_oracle.rs:122`), so a late finalizer
  shortens it.
* Whether the market's fee destination still is a token account (`collect_fee.rs:128`): if
  its owner closes it, `collect_fee` and with it every LP claim waits until `update_config`
  names another.
* The market's conditional vault as traders use it: splitting, merging, redeeming.
* Lost transactions of Carbon's crawler: it gives up on a request after five retries
  (`main.rs:273-276`), `EventIndexer` takes it to deliver everything it listed unless the
  process stops.
* The indexer's price series, a log with one writer per market that is read for charts
  only; its read-only routes and its RPC gateway; the decoding of instructions.
* In the runner the bytes of prompt, hashes and payload, and the keypair file.
* In the app trading, redeeming, charts, the create-oracle form and the bulk withdrawal
  (`onWithdraw`).
* The SDKs' instruction builders and decoders, the docs site and the scripts: stateless
  over the programs.

## 7. Plan

In place: all modules of section 2 with their runs, and the proofs of section 4.  What is
left, in this order:

1. The client side of the programs: the flows that create oracles and markets, and the
   trade panel.
2. The bulk withdrawal of the app as a fifth form of `ActionSequence`.
3. The price series: one writer per market, baseline and subscription.
4. The fee destination as state of `PredictionMarket`, with a `MarketsClose` that assumes
   governance repairs it.
5. Larger instances: two facts with three proposers in `Settle`, three slots with four
   transactions in `EventIndexer`.
