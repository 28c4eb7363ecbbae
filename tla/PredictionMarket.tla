-------------------------- MODULE PredictionMarket ---------------------------
(* One sub-market of the prediction-market program: the bet that an oracle    *)
(* resolves to OutcomeIndex.  Contributors crowdfund it; activation turns the *)
(* escrowed KASS into liquidity of a MetaDAO pool, whose LP tokens the market *)
(* holds for them; the oracle's verdict settles it, the protocol takes its    *)
(* fee out of the LP tokens, and everybody leaves with a share of the rest.   *)
(*                                                                            *)
(* Every action is one instruction, sent by anybody whose tokens it does not  *)
(* take.  The oracle is known by its promise alone (Verdict).  The pool is    *)
(* external: the LP tokens it mints and the KASS value it shows are values    *)
(* from sets.  Outsiders may seed it before activate, which then fails, so    *)
(* nothing here relies on activate ever happening.                            *)
EXTENDS Amounts, Plurality, FiniteSets, Functions

CONSTANTS
    U16_MAX,            \* 2^16 - 1 in the program: the limit of open_contributions
    OutcomeIndex,       \* the outcome this sub-market is about
    Contributors,       \* who may fund it or add liquidity
    Contributions,      \* amounts of KASS they may bring
    LpMints,            \* LP tokens the pool may mint for them
    PoolValues,         \* KASS values the market's share of the pool may have
    MinLiquidities, Fees,   \* what governance may set
    MaxDonation         \* bound: tokens strangers send to the market's accounts

ASSUME MarketAssumption ==
    /\ U16_MAX \in Nat \ {0}
    /\ OutcomeIndex \in Options
    /\ IsFiniteSet(Contributors)
    /\ Contributions \subseteq U64 \ {0}
    /\ LpMints \subseteq U64
    /\ PoolValues \subseteq Nat /\ PoolValues # {}
    /\ MinLiquidities \subseteq U64
    /\ Fees \subseteq Nat
    /\ MaxDonation \in Nat

MAX_FEE_BPS == 1000
FEE_SCALE == 10000

VARIABLES
    verdict,        \* the oracle, as far as this program reads it
    config,         \* the governed singleton
    market,         \* the Market account; all zero when there is none
    contribution,   \* the Contribution accounts, by contributor
    escrow,         \* KASS in escrow_vault
    lp_vault,       \* LP tokens in lp_vault
    payout,         \* the numerators of the market's question (external)
    donated         \* what strangers sent to escrow_vault and lp_vault

marketVars == <<verdict, config, market, contribution, escrow, lp_vault,
                payout, donated>>

Oracle == INSTANCE Verdict

-----------------------------------------------------------------------------
\* Accounts

Configs == { c \in [min_liquidity : MinLiquidities, fee_bps : Fees] :
                c.fee_bps <= MAX_FEE_BPS }

MarketAccount ==
    [status : {"None", "Funding", "Active", "Resolved", "Void", "Cancelled"},
     min_liquidity : U64, fee_bps : 0 .. MAX_FEE_BPS,
     total_contributed : U64, open_contributions : 0 .. U16_MAX,
     lp_total : U64, activation_lp : U64, activation_contributed : U64,
     gross_lp_total : U64, settled : BOOLEAN, fee_collected : BOOLEAN]

NoMarket ==
    [status |-> "None", min_liquidity |-> 0, fee_bps |-> 0,
     total_contributed |-> 0, open_contributions |-> 0,
     lp_total |-> 0, activation_lp |-> 0, activation_contributed |-> 0,
     gross_lp_total |-> 0, settled |-> FALSE, fee_collected |-> FALSE]

ContributionAccount == [amount : U64, late_lp : U64]

Unresolved == <<0, 0>>
YesPays == <<1, 0>>
NoPays == <<0, 1>>
EveryLegPaysHalf == <<1, 1>>

TypeOK ==
    /\ verdict \in Oracle!Verdicts
    /\ config \in Configs
    /\ market \in MarketAccount
    /\ DOMAIN contribution \subseteq Contributors
    /\ \A c \in DOMAIN contribution : contribution[c] \in ContributionAccount
    /\ escrow \in Nat
    /\ lp_vault \in Nat
    /\ payout \in {Unresolved, YesPays, NoPays, EveryLegPaysHalf}
    /\ donated \in [kass : 0 .. MaxDonation, lp : 0 .. MaxDonation]

OracleTerminal == verdict.status \in {"Resolved", "InvalidDeadend"}
Activated == market.status \in {"Active", "Resolved", "Void"}

\* The oracle account is there and not finished.
OraclePending == verdict.status = "Pending"

Init ==
    /\ Oracle!Init
    /\ config \in Configs
    /\ market = NoMarket
    /\ contribution = [c \in {} |-> 0]
    /\ escrow = 0
    /\ lp_vault = 0
    /\ payout = Unresolved
    /\ donated = [kass |-> 0, lp |-> 0]

-----------------------------------------------------------------------------
\* Funding

UpdateConfig(c) ==
    /\ config' = c
    /\ UNCHANGED <<verdict, market, contribution, escrow, lp_vault, payout, donated>>

\* Mutant: a top-up replaces what was there.
Credit_Overwrite(c, amount, late_lp) ==
    contribution' =
        [d \in DOMAIN contribution \cup {c} |->
            IF d = c THEN [amount |-> amount, late_lp |-> late_lp]
            ELSE contribution[d]]

\* Create or increment c's Contribution, and what that adds to the counter.
Credit(c, amount, late_lp) ==
    contribution' =
        [d \in DOMAIN contribution \cup {c} |->
            IF d \in DOMAIN contribution \ {c} THEN contribution[d]
            ELSE IF c \in DOMAIN contribution
                 THEN [amount |-> contribution[c].amount + amount,
                       late_lp |-> contribution[c].late_lp + late_lp]
                 ELSE [amount |-> amount, late_lp |-> late_lp]]

\* Mutant: a top-up counts as a new contribution.
NewlyOpen_TopUp(c) == 1

NewlyOpen(c) == IF c \in DOMAIN contribution THEN 0 ELSE 1

CreateMarket(creator, seed) ==
    /\ market.status = "None"
    /\ OraclePending
    /\ market' = [NoMarket EXCEPT
            !.status = "Funding",
            !.min_liquidity = config.min_liquidity,
            !.fee_bps = config.fee_bps,
            !.total_contributed = seed,
            !.open_contributions = 1]
    /\ Credit(creator, seed, 0)
    /\ escrow' = escrow + seed
    /\ UNCHANGED <<verdict, config, lp_vault, payout, donated>>

\* For each instruction that moves a market along, what it requires is a
\* predicate of its own, so that what may be done can be told from what is.
CanContribute(c, amount) ==
    /\ market.status = "Funding"
    /\ market.total_contributed + amount \in U64
    /\ market.open_contributions + NewlyOpen(c) <= U16_MAX

\* Mutant: the new total is not checked.
Contribute_Unchecked(c, amount) ==
    /\ market.status = "Funding"
    /\ market' = [market EXCEPT
            !.total_contributed = @ + amount,
            !.open_contributions = @ + NewlyOpen(c)]
    /\ Credit(c, amount, 0)
    /\ escrow' = escrow + amount
    /\ UNCHANGED <<verdict, config, lp_vault, payout, donated>>

\* contribute does not look at the oracle: a market whose oracle is finished
\* takes contributions until somebody cancels it.
Contribute(c, amount) ==
    /\ CanContribute(c, amount)
    /\ market' = [market EXCEPT
            !.total_contributed = @ + amount,
            !.open_contributions = @ + NewlyOpen(c)]
    /\ Credit(c, amount, 0)
    /\ escrow' = escrow + amount
    /\ UNCHANGED <<verdict, config, lp_vault, payout, donated>>

CanCancel == market.status = "Funding" /\ OracleTerminal

\* Mutant: a market that reached its floor cannot be cancelled.
Cancel_Underfunded ==
    /\ CanCancel
    /\ market.total_contributed < market.min_liquidity
    /\ market' = [market EXCEPT !.status = "Cancelled"]
    /\ UNCHANGED <<verdict, config, contribution, escrow, lp_vault, payout, donated>>

Cancel ==
    /\ CanCancel
    /\ market' = [market EXCEPT !.status = "Cancelled"]
    /\ UNCHANGED <<verdict, config, contribution, escrow, lp_vault, payout, donated>>

\* What refund and claim_lp do to the Contribution they have paid.
Leave(c) ==
    /\ contribution' = Restrict(contribution, DOMAIN contribution \ {c})
    /\ market' = [market EXCEPT !.open_contributions = @ - 1]

CanRefund(c) == market.status = "Cancelled" /\ contribution[c].amount <= escrow

Refund(c) ==
    /\ CanRefund(c)
    /\ escrow' = escrow - contribution[c].amount
    /\ Leave(c)
    /\ UNCHANGED <<verdict, config, lp_vault, payout, donated>>

-----------------------------------------------------------------------------
\* Liquidity

CanActivate ==
    /\ market.status = "Funding"
    /\ market.total_contributed >= market.min_liquidity
    /\ OraclePending
    /\ market.total_contributed <= escrow

\* The whole of the contributions goes through the conditional vault into an
\* empty pool.
Activate(lp) ==
    /\ CanActivate
    /\ escrow' = escrow - market.total_contributed
    /\ lp_vault' = lp
    /\ market' = [market EXCEPT
            !.status = "Active",
            !.lp_total = lp,
            !.activation_lp = lp,
            !.activation_contributed = market.total_contributed,
            !.gross_lp_total = lp]
    /\ UNCHANGED <<verdict, config, contribution, payout, donated>>

CanAddLiquidity(c, amount, lp_new) ==
    /\ market.status = "Active"
    /\ OraclePending
    /\ lp_new > 0
    /\ {market.lp_total + lp_new, market.gross_lp_total + lp_new,
        market.total_contributed + amount} \subseteq U64
    /\ market.open_contributions + NewlyOpen(c) <= U16_MAX

\* Late liquidity passes through the escrow and is credited in LP tokens.  What
\* the pool's ratio leaves over goes back to the depositor.
AddLiquidity(c, amount, lp_new) ==
    /\ CanAddLiquidity(c, amount, lp_new)
    /\ market' = [market EXCEPT
            !.lp_total = @ + lp_new,
            !.gross_lp_total = @ + lp_new,
            !.total_contributed = @ + amount,
            !.open_contributions = @ + NewlyOpen(c)]
    /\ Credit(c, 0, lp_new)
    /\ lp_vault' = lp_vault + lp_new
    /\ UNCHANGED <<verdict, config, escrow, payout, donated>>

-----------------------------------------------------------------------------
\* Settlement

\* Mutant: a dead end is read as an outcome other than this one.
Settled_DeadendIsNo ==
    IF verdict.option = OutcomeIndex
    THEN [status |-> "Resolved", numerators |-> YesPays]
    ELSE [status |-> "Resolved", numerators |-> NoPays]

\* The terminal status and the question's numerators.
Settled ==
    IF verdict.status = "InvalidDeadend"
    THEN [status |-> "Void", numerators |-> EveryLegPaysHalf]
    ELSE [status |-> "Resolved",
          numerators |-> IF verdict.option = OutcomeIndex THEN YesPays ELSE NoPays]

CanResolveMarket == ~market.settled /\ market.status = "Active" /\ OracleTerminal

ResolveMarket ==
    /\ CanResolveMarket
    /\ payout' = Settled.numerators
    /\ market' = [market EXCEPT
            !.settled = TRUE,
            !.status = Settled.status,
            !.fee_collected = market.fee_bps = 0 \/ market.lp_total = 0]
    /\ UNCHANGED <<verdict, config, contribution, escrow, lp_vault, donated>>

\* Mutant: the fee of the day, not the one the market was created under.
FeeBps_Current == config.fee_bps

FeeBps == market.fee_bps

\* The LP tokens that are the protocol's share of the profit, when this
\* market's share of the pool is worth realized.
FeeLp(realized) ==
    LET accrued == SaturatingSub(realized, market.total_contributed)
    IN  IF accrued = 0 THEN 0
        ELSE (((market.lp_total * accrued) \div realized) * FeeBps) \div FEE_SCALE

CanCollectFee(realized) ==
    /\ ~market.fee_collected
    /\ market.status \in {"Resolved", "Void"}
    /\ FeeLp(realized) <= lp_vault

\* The fee's LP tokens are withdrawn and redeemed into the escrow, all of
\* which then goes to the protocol.
CollectFee(realized) ==
    /\ CanCollectFee(realized)
    /\ market' = [market EXCEPT !.lp_total = @ - FeeLp(realized), !.fee_collected = TRUE]
    /\ lp_vault' = lp_vault - FeeLp(realized)
    /\ escrow' = IF FeeLp(realized) > 0 THEN 0 ELSE escrow
    /\ UNCHANGED <<verdict, config, contribution, payout, donated>>

\* A contribution's share when all LP tokens were minted at one rate.
ProRataShare(c) ==
    (market.lp_total * contribution[c].amount) \div market.total_contributed

\* The LP tokens that a contribution stands for, before the fee.
GrossLp(c) ==
    (market.activation_lp * contribution[c].amount) \div market.activation_contributed
      + contribution[c].late_lp

\* Mutant: shares are rounded up.
GrossLpShare_RoundUp(c) ==
    (market.lp_total * GrossLp(c) + market.gross_lp_total - 1) \div market.gross_lp_total

GrossLpShare(c) == (market.lp_total * GrossLp(c)) \div market.gross_lp_total

\* Mutant: late liquidity is not told apart.
Share_ProRata(c) == ProRataShare(c)

Share(c) ==
    IF market.gross_lp_total = market.activation_lp
    THEN ProRataShare(c)
    ELSE GrossLpShare(c)

\* Mutant: the last to leave takes a rounded share as well.
ClaimableLp_NoSweep(c) == Share(c)

\* The last to leave takes what is there.
ClaimableLp(c) == IF market.open_contributions = 1 THEN lp_vault ELSE Share(c)

\* Mutant: claims are open as soon as there is a pool.
ClaimsOpen_Activated == Activated

ClaimsOpen == Activated /\ market.fee_collected

CanClaimLp(c) == ClaimsOpen /\ ClaimableLp(c) <= lp_vault

ClaimLp(c) ==
    /\ CanClaimLp(c)
    /\ lp_vault' = lp_vault - ClaimableLp(c)
    /\ Leave(c)
    /\ UNCHANGED <<verdict, config, escrow, payout, donated>>

CanCloseMarket ==
    /\ market.status \in {"Resolved", "Void", "Cancelled"}
    /\ market.status # "Cancelled" => market.fee_collected
    /\ market.open_contributions = 0

\* The token accounts go only when they are empty; a donation stays in them.
CloseMarket ==
    /\ CanCloseMarket
    /\ market' = NoMarket
    /\ UNCHANGED <<verdict, config, contribution, escrow, lp_vault, payout, donated>>

-----------------------------------------------------------------------------
\* Everybody else

\* Anybody can send tokens to an account whose address is known.
DonateKass ==
    /\ market.status # "None"
    /\ donated.kass < MaxDonation
    /\ escrow' = escrow + 1
    /\ donated' = [donated EXCEPT !.kass = @ + 1]
    /\ UNCHANGED <<verdict, config, market, contribution, lp_vault, payout>>

DonateLp ==
    /\ Activated
    /\ donated.lp < MaxDonation
    /\ lp_vault' = lp_vault + 1
    /\ donated' = [donated EXCEPT !.lp = @ + 1]
    /\ UNCHANGED <<verdict, config, market, contribution, escrow, payout>>

OracleMoves ==
    /\ \/ Oracle!Finish
       \/ \E option \in Options : Oracle!ResolveDeadend(option)
       \/ Oracle!Sweep
    /\ UNCHANGED <<config, market, contribution, escrow, lp_vault, payout, donated>>

Next ==
    \/ \E c \in Configs : UpdateConfig(c)
    \/ \E c \in Contributors, amount \in Contributions :
        \/ CreateMarket(c, amount)
        \/ Contribute(c, amount)
        \/ \E lp \in LpMints : AddLiquidity(c, amount, lp)
    \/ \E lp \in LpMints : Activate(lp)
    \/ \E realized \in PoolValues : CollectFee(realized)
    \/ \E c \in DOMAIN contribution : Refund(c) \/ ClaimLp(c)
    \/ Cancel
    \/ ResolveMarket
    \/ CloseMarket
    \/ DonateKass
    \/ DonateLp
    \/ OracleMoves

MarketSpec == Init /\ [][Next]_marketVars

-----------------------------------------------------------------------------
\* Properties

\* close_market waits for open_contributions to reach zero, and the share of
\* whoever finds it at one is everything left: the counter is the number of
\* Contribution accounts through creations, top-ups and departures.
ContributionsCounted == market.open_contributions = Cardinality(DOMAIN contribution)

RefundsDue == [c \in DOMAIN contribution |-> contribution[c].amount]

\* Until activation the escrow holds every contribution in full, so that all
\* refunds succeed in any order, with strangers' tokens in it or not.
EscrowBacksRefunds ==
    market.status \in {"Funding", "Cancelled"} =>
        escrow = donated.kass + SumFunction(RefundsDue)

\* No LP token leaves the market before the fee is cut, so the fee is cut of
\* the whole position (claim_lp.rs calls its gate non-bypassable).
NoClaimBeforeFee ==
    Activated /\ ~market.fee_collected => lp_vault = market.lp_total + donated.lp

\* Governance cannot take more of a market than the fee it was created under.
FeeWithinSnapshot ==
    (market.gross_lp_total - market.lp_total) * FEE_SCALE
      <= market.gross_lp_total * market.fee_bps

\* The fee is cut first, of everything, and never above its rate.
FeeComesFirst == NoClaimBeforeFee /\ FeeWithinSnapshot

SharesDue == Activated /\ market.fee_collected
OpenShares == SumFunction([c \in DOMAIN contribution |-> Share(c)])

\* Whatever the order of claims, the vault can pay everybody who is left.
SharesCovered == SharesDue => OpenShares <= lp_vault

\* A contribution's share is its part of all LP tokens ever minted for the
\* market, rounded down twice: late liquidity takes nothing from the funders,
\* nor they from it.
SharesAreProportional ==
    LET minted == market.gross_lp_total * market.activation_contributed
        due(c) == market.lp_total
                    * (market.activation_lp * contribution[c].amount
                         + market.activation_contributed * contribution[c].late_lp)
    IN  SharesDue => \A c \in DOMAIN contribution :
            /\ Share(c) * minted <= due(c)
            /\ due(c) < (Share(c) + 2) * minted \/ minted = 0

\* No share is left in the vault without an owner: beyond the open shares it
\* holds less than two units for each contributor and what strangers sent,
\* and nothing but the latter once everybody has left.
NoShareStranded ==
    SharesDue =>
        lp_vault - OpenShares
          <= donated.lp + (IF DOMAIN contribution = {} THEN 0
                           ELSE 2 * Cardinality(Contributors))

\* Refunds and shares: both vaults hold what is owed, and nothing but dust on
\* top of it.
VaultsCoverClaims == EscrowBacksRefunds /\ SharesCovered /\ NoShareStranded

\* A market that paid out an outcome paid the one that the oracle's only
\* verdict names, also when that verdict came after a dead end.
PayoutFollowsVerdict ==
    market.status = "Resolved" /\ verdict.status = "Resolved" =>
        payout = IF verdict.option = OutcomeIndex THEN YesPays ELSE NoPays

\* Every market comes to its end, with all contributors paid, unless its oracle
\* is swept first.
MarketsClose ==
    market.status # "None" ~> market.status = "None" \/ verdict.status = "Swept"
=============================================================================
