------------------------------ MODULE MarketApp -------------------------------
(* The market page of the web app over PredictionMarket: which control it     *)
(* offers in which state, what the form behind it requires, and what it says  *)
(* of a contributor's position.                                               *)
(*                                                                            *)
(* The app keeps no state of its own that outlives a click: it reads the      *)
(* market, its contributions and its oracle, and repeats in TypeScript the    *)
(* conditions under which the program accepts an instruction.  The two were   *)
(* written apart, and a control that is missing is money nobody can move who  *)
(* has only the app.  Left out: trading, redeeming, and the group panel,      *)
(* whose sequences are in ActionSequence.                                     *)
EXTENDS PredictionMarket

\* The instructions that this page sends.
Cranks == {"activate", "cancel", "resolve_market", "collect_fee", "close_market"}
Transfers == {"contribute", "add_liquidity", "claim_lp", "refund"}

-----------------------------------------------------------------------------
\* What the page offers

\* The oracle of a detail read is null once the account is swept, and an oracle
\* that cannot be read counts as live.
oracleTerminal == OracleTerminal

funded ==
    market.min_liquidity = 0 \/ market.total_contributed >= market.min_liquidity

\* Mutant: only a market that missed its floor is cancelled, which is what the
\* control's own text says.
fundingActions_UnderFloor ==
    [canActivate |-> funded /\ ~oracleTerminal, canCancel |-> ~funded /\ oracleTerminal]

fundingActions ==
    [canActivate |-> funded /\ ~oracleTerminal, canCancel |-> oracleTerminal]

showCollectFee == market.fee_bps > 0 /\ ~market.fee_collected

canClose ==
    /\ market.open_contributions = 0
    /\ market.status # "Cancelled" => market.fee_collected

MarketLifecycleActions ==
    { a \in Cranks :
        CASE market.status = "Funding" ->
                \/ a = "activate" /\ fundingActions.canActivate
                \/ a = "cancel" /\ fundingActions.canCancel
          [] market.status = "Active" -> a = "resolve_market" /\ oracleTerminal
          [] market.status \in {"Resolved", "Void"} ->
                \/ a = "collect_fee" /\ showCollectFee
                \/ a = "close_market" /\ canClose
          [] market.status = "Cancelled" -> a = "close_market" /\ canClose
          [] OTHER -> FALSE }

\* Mutant: the claim does not wait for the fee.
claimShown_BeforeFee(wallet) == wallet \in DOMAIN contribution

\* ClaimLpControl hides from whoever has no open contribution, and is disabled
\* until the fee is collected.
claimShown(wallet) == wallet \in DOMAIN contribution /\ market.fee_collected

MarketLiquidityActions(wallet, isGrouped) ==
    { a \in Transfers :
        CASE market.status = "Funding" -> a = "contribute" /\ ~isGrouped
          [] market.status = "Active" ->
                \/ a = "add_liquidity"
                \/ a = "claim_lp" /\ claimShown(wallet)
          [] market.status \in {"Resolved", "Void"} ->
                a = "claim_lp" /\ claimShown(wallet)
          [] market.status = "Cancelled" ->
                a = "refund" /\ market.open_contributions > 0
          [] OTHER -> FALSE }

-----------------------------------------------------------------------------
\* The controls: what the program does once one is pressed

CancelControl == "cancel" \in MarketLifecycleActions /\ Cancel

ActivateControl == \E lp \in LpMints : "activate" \in MarketLifecycleActions /\ Activate(lp)

ResolveControl == "resolve_market" \in MarketLifecycleActions /\ ResolveMarket

CollectFeeControl ==
    \E realized \in PoolValues :
        "collect_fee" \in MarketLifecycleActions /\ CollectFee(realized)

CloseMarketControl == "close_market" \in MarketLifecycleActions /\ CloseMarket

\* A form refuses an amount that is not positive, and so does its builder.
buildContributeIxs(wallet, amount) == amount > 0 /\ Contribute(wallet, amount)

ContributeForm(wallet) ==
    \E amount \in Contributions :
        /\ "contribute" \in MarketLiquidityActions(wallet, FALSE)
        /\ buildContributeIxs(wallet, amount)

buildAddLiquidityIxs(wallet, amount, lp) == amount > 0 /\ AddLiquidity(wallet, amount, lp)

AddLiquidityControl(wallet) ==
    \E amount \in Contributions, lp \in LpMints :
        /\ "add_liquidity" \in MarketLiquidityActions(wallet, FALSE)
        /\ buildAddLiquidityIxs(wallet, amount, lp)

\* Both pay the connected wallet, into a token account that the same
\* transaction creates.
ClaimLpControl(wallet) ==
    "claim_lp" \in MarketLiquidityActions(wallet, FALSE) /\ ClaimLp(wallet)

RefundControl(wallet) ==
    /\ "refund" \in MarketLiquidityActions(wallet, FALSE)
    /\ wallet \in DOMAIN contribution
    /\ Refund(wallet)

\* Everything that ends a market, sent from the page alone: every contributor
\* takes its own, anybody sends the rest.
AppCrank ==
    \/ CancelControl
    \/ ResolveControl
    \/ CollectFeeControl
    \/ \E wallet \in Contributors : RefundControl(wallet) \/ ClaimLpControl(wallet)
    \/ CloseMarketControl

\* The oracle finishes, and people press what the page offers them.
AppMarketSpec ==
    /\ MarketSpec
    /\ WF_marketVars(Oracle!Finish /\ OracleMoves)
    /\ WF_marketVars(AppCrank)

-----------------------------------------------------------------------------
\* What the page shows

\* Mutant: late liquidity is not shown.
contributorLp_FundingOnly(c) ==
    IF market.activation_contributed > 0
    THEN (contribution[c].amount * market.activation_lp) \div market.activation_contributed
    ELSE 0

\* The position that LiquidityOverview shows a contributor.
contributorLp(c) ==
    (IF market.activation_contributed > 0
     THEN (contribution[c].amount * market.activation_lp) \div market.activation_contributed
     ELSE 0)
    + contribution[c].late_lp

-----------------------------------------------------------------------------
\* Properties

\* What the program would accept from this wallet, whatever the page offers.
Accepted(a, wallet) ==
    CASE a = "activate" -> CanActivate
      [] a = "cancel" -> CanCancel
      [] a = "resolve_market" -> CanResolveMarket
      [] a = "collect_fee" -> \A realized \in PoolValues : CanCollectFee(realized)
      [] a = "close_market" -> CanCloseMarket
      [] a = "contribute" -> \E amount \in Contributions : CanContribute(wallet, amount)
      [] a = "add_liquidity" ->
            \E amount \in Contributions, lp \in LpMints : CanAddLiquidity(wallet, amount, lp)
      [] a = "claim_lp" -> wallet \in DOMAIN contribution /\ CanClaimLp(wallet)
      [] a = "refund" -> wallet \in DOMAIN contribution /\ CanRefund(wallet)

Offered(wallet, isGrouped) ==
    MarketLifecycleActions \cup MarketLiquidityActions(wallet, isGrouped)

\* Nobody needs more than the page: whatever step the market is open to, fee
\* before claims, departures before the closure, its control is there; only an
\* outcome of a group is funded elsewhere, in the group's panel.
AcceptedIsOffered ==
    \A wallet \in Contributors, isGrouped \in BOOLEAN, a \in Cranks \cup Transfers :
        Accepted(a, wallet) =>
            \/ a \in Offered(wallet, isGrouped)
            \/ a = "contribute" /\ isGrouped

\* A counter of the market that has no room for one more deposit.
Full(wallet) ==
    \/ market.open_contributions + NewlyOpen(wallet) > U16_MAX
    \/ \A amount \in Contributions : market.total_contributed + amount \notin U64
    \/ \A lp \in LpMints \ {0} : market.gross_lp_total + lp \notin U64

\* And the page offers nothing that the program refuses, but for four things:
\* activation once the oracle is swept, which the page takes for a live one;
\* liquidity for a pool whose oracle is done; a refund to a wallet that did not
\* fund the market; a deposit that does not fit.
OffersAreAccepted ==
    \A wallet \in Contributors : \A a \in Offered(wallet, FALSE) :
        \/ Accepted(a, wallet)
        \/ a = "activate" /\ verdict.status = "Swept"
        \/ a = "add_liquidity" /\ ~OraclePending
        \/ a = "refund" /\ wallet \notin DOMAIN contribution
        \/ a \in {"contribute", "add_liquidity"} /\ Full(wallet)

\* The LP position a contributor is shown, scaled down by the fee once that is
\* taken, is what claim_lp pays it, to within the rounding of either formula
\* and whichever of the two the program uses (the app calls its own the honest
\* basis that claim_lp pays out on).
PositionIsHonest ==
    SharesDue =>
        \A c \in DOMAIN contribution :
            LET paid == Share(c) * market.gross_lp_total
                shown == contributorLp(c) * market.lp_total
            IN  market.gross_lp_total > 0 =>
                    /\ paid <= shown + market.gross_lp_total
                    /\ shown <= paid + market.gross_lp_total

\* The page is a true picture of the program: of what it accepts and of what it
\* will pay.
PageIsHonest == AcceptedIsOffered /\ OffersAreAccepted /\ PositionIsHonest
=============================================================================
