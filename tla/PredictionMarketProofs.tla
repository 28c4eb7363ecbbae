----------------------- MODULE PredictionMarketProofs ------------------------
(* Proofs about PredictionMarket: type correctness, the counter that          *)
(* close_market and the last claimer rely on, the fee before the claims, the  *)
(* payout after the verdict, that both vaults pay everybody, and what a share *)
(* is worth.                                                                  *)
EXTENDS MarketApp, Sums

\* A settled market has seen its oracle finish, and an outcome is only paid on
\* a decision, never on a dead end.
StatusFollowsOracle ==
    /\ market.status \in {"Resolved", "Void", "Cancelled"} => ~OraclePending
    /\ market.status = "Resolved" => verdict.status \in {"Resolved", "Swept"}

\* A market begins without contributions and LP tokens, also those of
\* strangers: there is no lp_vault to send them to before activation.
BeginsClean ==
    /\ market.status = "None" => DOMAIN contribution = {}
    /\ market.status = "Funding" => market.gross_lp_total = 0 /\ donated.lp = 0
    /\ market.status = "None" /\ OraclePending => donated.lp = 0

\* The fee is settled after the market, not before.
FeeAfterVerdict == market.fee_collected => market.status \in {"Resolved", "Void"}

\* What a contribution records is part of the market's totals, so it cannot
\* overflow where they do not.
WithinTotals ==
    \A c \in DOMAIN contribution :
        /\ contribution[c].amount <= market.total_contributed
        /\ contribution[c].late_lp <= market.gross_lp_total

\* The totals that shares are divided by.
PositiveBases ==
    /\ market.status # "None" => market.total_contributed > 0
    /\ Activated => /\ market.activation_contributed > 0
                    /\ market.activation_lp <= market.gross_lp_total

MarketInv ==
    /\ TypeOK
    /\ ContributionsCounted
    /\ StatusFollowsOracle
    /\ BeginsClean
    /\ FeeAfterVerdict
    /\ WithinTotals
    /\ PositiveBases
    /\ NoClaimBeforeFee
    /\ PayoutFollowsVerdict

-----------------------------------------------------------------------------
\* Arithmetic and accounts

\* A share of x in proportion a : b is at most x when a is at most b.
LEMMA PartBounds ==
    ASSUME NEW x \in Nat, NEW a \in Nat, NEW b \in Nat, b > 0, a <= b
    PROVE  (x * a) \div b \in Nat /\ (x * a) \div b <= x
<1> DEFINE p == x * a
<1>1. p \in Nat /\ p <= x * b /\ x * b \in Nat
    OBVIOUS
<1> HIDE DEF p
<1>2. p \div b \in Nat /\ p \div b <= x
    BY <1>1
<1> QED
    BY <1>2 DEF p

\* The fee never exceeds the position it is taken from.
LEMMA FeeBounds ==
    ASSUME TypeOK, NEW realized \in Nat
    PROVE  FeeLp(realized) \in Nat /\ FeeLp(realized) <= market.lp_total
<1> DEFINE accrued == SaturatingSub(realized, market.total_contributed)
<1> DEFINE lp == (market.lp_total * accrued) \div realized
<1>1. /\ market.lp_total \in Nat /\ market.total_contributed \in Nat
      /\ market.fee_bps \in Nat /\ market.fee_bps <= FEE_SCALE
    BY U64MaxAssumption DEF TypeOK, MarketAccount, U64, MAX_FEE_BPS, FEE_SCALE
<1>2. accrued \in Nat /\ accrued <= realized
    BY <1>1 DEF SaturatingSub
<1>3. CASE accrued = 0
    BY <1>1, <1>3 DEF FeeLp
<1>4. CASE accrued # 0
    <2> HIDE DEF accrued
    <2>1. realized > 0
        BY <1>2, <1>4
    <2>2. lp \in Nat /\ lp <= market.lp_total
        BY <1>1, <1>2, <2>1, PartBounds
    <2> HIDE DEF lp
    <2>3. FEE_SCALE \in Nat /\ FEE_SCALE > 0
        BY DEF FEE_SCALE
    <2>4. /\ (lp * market.fee_bps) \div FEE_SCALE \in Nat
          /\ (lp * market.fee_bps) \div FEE_SCALE <= lp
        BY <1>1, <2>2, <2>3, PartBounds
    <2>5. FeeLp(realized) = (lp * market.fee_bps) \div FEE_SCALE
        BY <1>4 DEF FeeLp, FeeBps, accrued, lp
    <2> QED
        BY <1>1, <2>2, <2>4, <2>5
<1> QED
    BY <1>3, <1>4

\* An open contribution's share and claim are numbers of LP tokens.
LEMMA ShareTypes ==
    ASSUME MarketInv, Activated, NEW c \in DOMAIN contribution
    PROVE  Share(c) \in Nat
<1>1. /\ market.lp_total \in Nat /\ market.total_contributed \in Nat
      /\ market.activation_lp \in Nat /\ market.activation_contributed \in Nat
      /\ market.gross_lp_total \in Nat
      /\ contribution[c].amount \in Nat /\ contribution[c].late_lp \in Nat
      /\ lp_vault \in Nat
    BY U64MaxAssumption
    DEF MarketInv, TypeOK, MarketAccount, ContributionAccount, U64
<1>2. /\ market.total_contributed > 0 /\ market.activation_contributed > 0
      /\ market.activation_lp <= market.gross_lp_total
    BY DEF MarketInv, PositiveBases, Activated
<1>3. CASE market.gross_lp_total = market.activation_lp
    <2>1. ProRataShare(c) \in Nat
        <3> DEFINE x == market.lp_total * contribution[c].amount
        <3> DEFINE y == market.total_contributed
        <3>1. x \in Nat /\ y \in Nat /\ y > 0
            BY <1>1, <1>2
        <3> HIDE DEF x, y
        <3>2. x \div y \in Nat
            BY <3>1
        <3> QED
            BY <3>2 DEF ProRataShare, x, y
    <2> QED
        BY <1>1, <1>3, <2>1 DEF Share
<1>4. CASE market.gross_lp_total # market.activation_lp
    <2>1. GrossLp(c) \in Nat
        <3> DEFINE x == market.activation_lp * contribution[c].amount
        <3> DEFINE y == market.activation_contributed
        <3>1. x \in Nat /\ y \in Nat /\ y > 0
            BY <1>1, <1>2
        <3> HIDE DEF x, y
        <3>2. x \div y \in Nat
            BY <3>1
        <3> QED
            BY <1>1, <3>2 DEF GrossLp, x, y
    <2>2. GrossLpShare(c) \in Nat
        <3> DEFINE x == market.lp_total * GrossLp(c)
        <3> DEFINE y == market.gross_lp_total
        <3>1. x \in Nat /\ y \in Nat /\ y > 0
            BY <1>1, <1>2, <1>4, <2>1
        <3> HIDE DEF x, y
        <3>2. x \div y \in Nat
            BY <3>1
        <3> QED
            BY <3>2 DEF GrossLpShare, x, y
    <2> QED
        BY <1>1, <1>4, <2>2 DEF Share
<1> QED
    BY <1>3, <1>4

LEMMA ClaimTypes ==
    ASSUME MarketInv, ClaimsOpen, NEW c \in DOMAIN contribution
    PROVE  ClaimableLp(c) \in Nat
<1>1. lp_vault \in Nat
    BY DEF MarketInv, TypeOK
<1> QED
    BY <1>1, ShareTypes DEF ClaimableLp, ClaimsOpen

\* A checked increment of the counter stays in its type.
LEMMA OpenedCount ==
    ASSUME NEW n \in 0 .. U16_MAX, NEW k \in {0, 1}, n + k <= U16_MAX
    PROVE  n + k \in 0 .. U16_MAX
BY MarketAssumption

LEMMA FiniteContributions ==
    ASSUME TypeOK
    PROVE  /\ IsFiniteSet(DOMAIN contribution)
           /\ Cardinality(DOMAIN contribution) \in Nat
BY MarketAssumption, FS_Subset, FS_CardinalityType DEF TypeOK

\* What a credit does to the set of contributions and to one of them.
LEMMA CreditEffect ==
    ASSUME TypeOK, NEW c \in Contributors, NEW amount \in Nat, NEW late \in Nat,
           Credit(c, amount, late)
    PROVE  /\ DOMAIN contribution' = DOMAIN contribution \cup {c}
           /\ \A d \in DOMAIN contribution \ {c} : contribution'[d] = contribution[d]
           /\ c \in DOMAIN contribution =>
                contribution'[c] = [amount |-> contribution[c].amount + amount,
                                    late_lp |-> contribution[c].late_lp + late]
           /\ c \notin DOMAIN contribution =>
                contribution'[c] = [amount |-> amount, late_lp |-> late]
           /\ Cardinality(DOMAIN contribution')
                = Cardinality(DOMAIN contribution) + NewlyOpen(c)
<1>1. /\ DOMAIN contribution' = DOMAIN contribution \cup {c}
      /\ \A d \in DOMAIN contribution \ {c} : contribution'[d] = contribution[d]
      /\ c \in DOMAIN contribution =>
            contribution'[c] = [amount |-> contribution[c].amount + amount,
                                late_lp |-> contribution[c].late_lp + late]
      /\ c \notin DOMAIN contribution =>
            contribution'[c] = [amount |-> amount, late_lp |-> late]
    BY DEF Credit
<1>2. /\ IsFiniteSet(DOMAIN contribution)
      /\ Cardinality(DOMAIN contribution) \in Nat
    BY FiniteContributions
<1>3. Cardinality(DOMAIN contribution \cup {c})
        = IF c \in DOMAIN contribution THEN Cardinality(DOMAIN contribution)
          ELSE Cardinality(DOMAIN contribution) + 1
    BY <1>2, FS_AddElement
<1>4. Cardinality(DOMAIN contribution')
        = Cardinality(DOMAIN contribution) + NewlyOpen(c)
    BY <1>1, <1>2, <1>3 DEF NewlyOpen
<1> QED
    BY <1>1, <1>4

\* A departure takes one contribution out and leaves the others as they are.
LEMMA LeaveEffect ==
    ASSUME TypeOK, NEW c \in DOMAIN contribution, Leave(c)
    PROVE  /\ DOMAIN contribution' = DOMAIN contribution \ {c}
           /\ \A d \in DOMAIN contribution' : contribution'[d] = contribution[d]
           /\ Cardinality(DOMAIN contribution') = Cardinality(DOMAIN contribution) - 1
           /\ Cardinality(DOMAIN contribution) > 0
<1>1. /\ DOMAIN contribution' = DOMAIN contribution \ {c}
      /\ \A d \in DOMAIN contribution' : contribution'[d] = contribution[d]
    BY DEF Leave, Restrict
<1>2. /\ Cardinality(DOMAIN contribution \ {c}) = Cardinality(DOMAIN contribution) - 1
      /\ Cardinality(DOMAIN contribution \ {c}) \in Nat
    BY FiniteContributions, FS_RemoveElement, FS_CardinalityType
<1> QED
    BY <1>1, <1>2, FiniteContributions

-----------------------------------------------------------------------------
\* The Market record

MarketFields(m) ==
    [status |-> m.status,
     min_liquidity |-> m.min_liquidity,
     fee_bps |-> m.fee_bps,
     total_contributed |-> m.total_contributed,
     open_contributions |-> m.open_contributions,
     lp_total |-> m.lp_total,
     activation_lp |-> m.activation_lp,
     activation_contributed |-> m.activation_contributed,
     gross_lp_total |-> m.gross_lp_total,
     settled |-> m.settled,
     fee_collected |-> m.fee_collected]

MarketFieldsTyped(m) ==
    /\ m.status \in {"None", "Funding", "Active", "Resolved", "Void", "Cancelled"}
    /\ m.min_liquidity \in U64
    /\ m.fee_bps \in 0 .. MAX_FEE_BPS
    /\ m.total_contributed \in U64
    /\ m.open_contributions \in 0 .. U16_MAX
    /\ m.lp_total \in U64
    /\ m.activation_lp \in U64
    /\ m.activation_contributed \in U64
    /\ m.gross_lp_total \in U64
    /\ m.settled \in BOOLEAN
    /\ m.fee_collected \in BOOLEAN

LEMMA MarketRecord ==
    ASSUME NEW m, m = MarketFields(m), MarketFieldsTyped(m)
    PROVE  m \in MarketAccount
BY DEF MarketFields, MarketFieldsTyped, MarketAccount

LEMMA MarketTypes ==
    ASSUME TypeOK
    PROVE  market = MarketFields(market) /\ MarketFieldsTyped(market)
BY DEF TypeOK, MarketFields, MarketFieldsTyped, MarketAccount

-----------------------------------------------------------------------------
\* What a credit, a departure and the oracle leave intact

LEMMA CreditKeeps ==
    ASSUME TypeOK, WithinTotals,
           NEW c \in Contributors, NEW amount \in Nat, NEW late \in Nat,
           Credit(c, amount, late), market' \in MarketAccount,
           market.total_contributed + amount <= market'.total_contributed,
           market.gross_lp_total + late <= market'.gross_lp_total
    PROVE  /\ DOMAIN contribution' \subseteq Contributors
           /\ \A d \in DOMAIN contribution' : contribution'[d] \in ContributionAccount
           /\ WithinTotals'
<1>1. DOMAIN contribution' \subseteq Contributors
    BY CreditEffect DEF TypeOK
<1>2. /\ market.total_contributed \in Nat /\ market.gross_lp_total \in Nat
      /\ market'.total_contributed \in U64 /\ market'.gross_lp_total \in U64
    BY U64MaxAssumption DEF TypeOK, MarketAccount, U64
<1>3. DOMAIN contribution' = DOMAIN contribution \cup {c}
    BY CreditEffect
<1>5. ASSUME NEW d \in DOMAIN contribution'
      PROVE  /\ contribution'[d] \in ContributionAccount
             /\ contribution'[d].amount <= market'.total_contributed
             /\ contribution'[d].late_lp <= market'.gross_lp_total
    <2>1. d \in DOMAIN contribution =>
            /\ contribution[d] \in ContributionAccount
            /\ contribution[d].amount \in Nat /\ contribution[d].late_lp \in Nat
            /\ contribution[d].amount <= market.total_contributed
            /\ contribution[d].late_lp <= market.gross_lp_total
        BY U64MaxAssumption DEF TypeOK, ContributionAccount, U64, WithinTotals
    <2>2. CASE d = c /\ c \in DOMAIN contribution
        <3>1. contribution'[d] = [amount |-> contribution[c].amount + amount,
                                  late_lp |-> contribution[c].late_lp + late]
            BY <2>2, CreditEffect
        <3> QED
            BY <1>2, <2>1, <2>2, <3>1, U64MaxAssumption DEF ContributionAccount, U64
    <2>3. CASE d = c /\ c \notin DOMAIN contribution
        <3>1. contribution'[d] = [amount |-> amount, late_lp |-> late]
            BY <2>3, CreditEffect
        <3> QED
            BY <1>2, <3>1, U64MaxAssumption DEF ContributionAccount, U64
    <2>4. CASE d # c
        <3>1. d \in DOMAIN contribution \ {c}
            BY <1>3, <2>4
        <3>2. contribution'[d] = contribution[d]
            BY <3>1, CreditEffect
        <3>3. market'.total_contributed \in Nat /\ market'.gross_lp_total \in Nat
            BY <1>2, U64MaxAssumption DEF U64
        <3> QED
            BY <1>2, <2>1, <3>1, <3>2, <3>3
    <2> QED
        BY <2>2, <2>3, <2>4
<1> QED
    BY <1>1, <1>5 DEF WithinTotals

LEMMA LeaveKeeps ==
    ASSUME MarketInv, NEW c \in DOMAIN contribution, Leave(c)
    PROVE  /\ DOMAIN contribution' \subseteq Contributors
           /\ \A d \in DOMAIN contribution' : contribution'[d] \in ContributionAccount
           /\ WithinTotals'
           /\ ContributionsCounted'
           /\ market' \in MarketAccount
           /\ market'.status = market.status
           /\ market'.total_contributed = market.total_contributed
           /\ market'.lp_total = market.lp_total
           /\ market'.activation_lp = market.activation_lp
           /\ market'.activation_contributed = market.activation_contributed
           /\ market'.gross_lp_total = market.gross_lp_total
           /\ market'.fee_collected = market.fee_collected
<1>1. TypeOK /\ market \in MarketAccount /\ WithinTotals
    BY DEF MarketInv, TypeOK
<1>2. market.open_contributions = Cardinality(DOMAIN contribution)
    BY DEF MarketInv, ContributionsCounted
<1>3. Cardinality(DOMAIN contribution) > 0 /\ Cardinality(DOMAIN contribution) \in Nat
    BY <1>1, LeaveEffect, FiniteContributions
<1>4. /\ market'.open_contributions = market.open_contributions - 1
      /\ market'.total_contributed = market.total_contributed
      /\ market'.gross_lp_total = market.gross_lp_total
    BY <1>1 DEF Leave, MarketAccount
<1>5. market' \in MarketAccount
    <2>1. market' = MarketFields(market')
        BY <1>1 DEF MarketFields, MarketAccount, Leave
    <2>2. MarketFieldsTyped(market)
        BY <1>1, MarketTypes
    <2>3. market'.open_contributions \in 0 .. U16_MAX
        <3> DEFINE n == market.open_contributions
        <3>1. n \in 0 .. U16_MAX /\ n > 0
            BY <1>2, <1>3, <2>2 DEF MarketFieldsTyped
        <3>2. market'.open_contributions = n - 1
            BY <1>4
        <3> HIDE DEF n
        <3>3. n - 1 \in 0 .. U16_MAX
            BY <3>1, MarketAssumption
        <3> QED
            BY <3>2, <3>3
    <2>4. /\ market'.status = market.status
          /\ market'.min_liquidity = market.min_liquidity
          /\ market'.fee_bps = market.fee_bps
          /\ market'.total_contributed = market.total_contributed
          /\ market'.lp_total = market.lp_total
          /\ market'.activation_lp = market.activation_lp
          /\ market'.activation_contributed = market.activation_contributed
          /\ market'.gross_lp_total = market.gross_lp_total
          /\ market'.settled = market.settled
          /\ market'.fee_collected = market.fee_collected
        BY <1>1 DEF MarketAccount, Leave
    <2>5. MarketFieldsTyped(market')
        BY <2>2, <2>3, <2>4 DEF MarketFieldsTyped
    <2> QED
        BY <2>1, <2>5, MarketRecord
<1>6. /\ DOMAIN contribution' \subseteq Contributors
      /\ \A d \in DOMAIN contribution' : contribution'[d] \in ContributionAccount
    BY <1>1, LeaveEffect DEF TypeOK
<1>7. WithinTotals'
    BY <1>1, <1>4, LeaveEffect DEF WithinTotals
<1>8. ContributionsCounted'
    BY <1>1, <1>2, <1>4, LeaveEffect DEF ContributionsCounted
<1>9. /\ market'.status = market.status
      /\ market'.total_contributed = market.total_contributed
      /\ market'.lp_total = market.lp_total
      /\ market'.activation_lp = market.activation_lp
      /\ market'.activation_contributed = market.activation_contributed
      /\ market'.gross_lp_total = market.gross_lp_total
      /\ market'.fee_collected = market.fee_collected
    BY <1>1 DEF Leave, MarketAccount
<1> QED
    BY <1>5, <1>6, <1>7, <1>8, <1>9

\* The oracle leaves Pending for good, and no verdict replaces a verdict.
LEMMA OracleMoved ==
    ASSUME verdict \in Oracle!Verdicts, OracleMoves
    PROVE  /\ verdict' \in Oracle!Verdicts
           /\ verdict'.status # "Pending"
           /\ verdict.status \in {"Resolved", "Swept"} => verdict'.status = "Swept"
<1>1. CASE Oracle!Finish
    BY <1>1
    DEF Oracle!Finish, Oracle!DeadEnd, Oracle!Decide, Oracle!WithoutOption, Oracle!Verdicts
<1>2. CASE \E option \in Options : Oracle!ResolveDeadend(option)
    BY <1>2 DEF Oracle!ResolveDeadend, Oracle!Verdicts, Oracle!Options, Options
<1>3. CASE Oracle!Sweep
    BY <1>3 DEF Oracle!Sweep, Oracle!WithoutOption, Oracle!Verdicts
<1> QED
    BY <1>1, <1>2, <1>3 DEF OracleMoves

-----------------------------------------------------------------------------
\* The initial state

LEMMA EmptyMarketType == NoMarket \in MarketAccount
<1>1. NoMarket = MarketFields(NoMarket)
    BY DEF NoMarket, MarketFields
<1>2. MarketFieldsTyped(NoMarket)
    BY U64MaxAssumption, MarketAssumption
       DEF NoMarket, MarketFieldsTyped, U64, MAX_FEE_BPS
<1> QED
    BY <1>1, <1>2, MarketRecord

LEMMA MarketInvInit == Init => MarketInv
<1> SUFFICES ASSUME Init PROVE MarketInv
    OBVIOUS
<1>1. NoMarket \in MarketAccount
    BY EmptyMarketType
<1>2. verdict = [status |-> "Pending", option |-> CLAIM_OPTION_NONE]
    BY DEF Init, Oracle!Init, Oracle!WithoutOption, Oracle!CLAIM_OPTION_NONE,
        CLAIM_OPTION_NONE
<1>3. DOMAIN contribution = {} /\ market = NoMarket
    BY DEF Init
<1>4. TypeOK
    BY <1>1, <1>2, <1>3, MarketAssumption
    DEF Init, TypeOK, Oracle!Verdicts, Oracle!CLAIM_OPTION_NONE, CLAIM_OPTION_NONE,
        Unresolved
<1>5. market.status = "None" /\ market.open_contributions = 0
    BY <1>3 DEF NoMarket
<1>6. ContributionsCounted
    BY <1>3, <1>5, FS_EmptySet DEF ContributionsCounted
<1>7. donated = [kass |-> 0, lp |-> 0] /\ ~market.fee_collected
    BY <1>3 DEF Init, NoMarket
<1> QED
    BY <1>3, <1>4, <1>5, <1>6, <1>7
    DEF MarketInv, StatusFollowsOracle, BeginsClean, FeeAfterVerdict, WithinTotals,
        PositiveBases, Activated, NoClaimBeforeFee, PayoutFollowsVerdict

-----------------------------------------------------------------------------
\* One lemma per instruction

LEMMA CreateMarketStep ==
    ASSUME MarketInv, NEW c \in Contributors, NEW seed \in Contributions,
           CreateMarket(c, seed)
    PROVE  MarketInv'
<1>1. seed \in U64 /\ seed \in Nat /\ seed > 0
    BY MarketAssumption, U64MaxAssumption DEF U64
<1>2. DOMAIN contribution = {} /\ verdict.status = "Pending" /\ donated.lp = 0
    BY DEF MarketInv, BeginsClean, CreateMarket, OraclePending
<1>3. TypeOK /\ Credit(c, seed, 0)
    BY DEF MarketInv, CreateMarket
<1>4. /\ DOMAIN contribution' = {c}
      /\ contribution'[c] = [amount |-> seed, late_lp |-> 0]
      /\ Cardinality(DOMAIN contribution') = 1
    <2>1. c \notin DOMAIN contribution
        BY <1>2
    <2>2. /\ DOMAIN contribution' = DOMAIN contribution \cup {c}
          /\ contribution'[c] = [amount |-> seed, late_lp |-> 0]
          /\ Cardinality(DOMAIN contribution')
                = Cardinality(DOMAIN contribution) + NewlyOpen(c)
        <3>1. seed \in Nat /\ 0 \in Nat
            BY <1>1
        <3> QED
            BY <1>3, <2>1, <3>1, CreditEffect
    <2>3. NewlyOpen(c) = 1
        BY <2>1 DEF NewlyOpen
    <2>4. Cardinality(DOMAIN contribution) = 0
        BY <1>2, FS_EmptySet
    <2> QED
        BY <1>2, <2>2, <2>3, <2>4
<1>5. market' = [status |-> "Funding", min_liquidity |-> config.min_liquidity,
                 fee_bps |-> config.fee_bps, total_contributed |-> seed,
                 open_contributions |-> 1, lp_total |-> 0, activation_lp |-> 0,
                 activation_contributed |-> 0, gross_lp_total |-> 0,
                 settled |-> FALSE, fee_collected |-> FALSE]
    BY DEF CreateMarket, NoMarket
<1>6. market' \in MarketAccount
    <2>1. config.min_liquidity \in U64 /\ config.fee_bps \in 0 .. MAX_FEE_BPS
        <3>1. /\ config.min_liquidity \in MinLiquidities /\ config.fee_bps \in Fees
              /\ config.fee_bps <= MAX_FEE_BPS
            BY <1>3 DEF TypeOK, Configs
        <3>2. MinLiquidities \subseteq U64 /\ Fees \subseteq Nat
            BY MarketAssumption
        <3>3. config.fee_bps \in Nat
            BY <3>1, <3>2
        <3>4. MAX_FEE_BPS \in Nat
            BY DEF MAX_FEE_BPS
        <3> QED
            BY <3>1, <3>2, <3>3, <3>4
    <2>2. market' = MarketFields(market')
        BY <1>5 DEF MarketFields
    <2>3. 0 \in U64 /\ 1 \in 0 .. U16_MAX
        BY U64MaxAssumption, MarketAssumption DEF U64
    <2>4. MarketFieldsTyped(market')
        BY <1>1, <1>5, <2>1, <2>3 DEF MarketFieldsTyped
    <2> QED
        BY <2>2, <2>4, MarketRecord
<1>7. TypeOK'
    <2>1. contribution'[c] \in ContributionAccount
        BY <1>1, <1>4, U64MaxAssumption DEF ContributionAccount, U64
    <2>2. escrow' \in Nat
        BY <1>1, <1>3 DEF TypeOK, CreateMarket
    <2> QED
        BY <1>3, <1>4, <1>6, <2>1, <2>2 DEF TypeOK, CreateMarket
<1>8. WithinTotals'
    BY <1>1, <1>4, <1>5 DEF WithinTotals
<1>9. /\ market'.status = "Funding" /\ market'.total_contributed > 0
      /\ market'.gross_lp_total = 0 /\ market'.fee_collected = FALSE
      /\ market'.open_contributions = 1
    BY <1>1, <1>5
<1> QED
    BY <1>2, <1>4, <1>7, <1>8, <1>9
    DEF MarketInv, ContributionsCounted, StatusFollowsOracle, BeginsClean, FeeAfterVerdict,
        PositiveBases, Activated, NoClaimBeforeFee, PayoutFollowsVerdict, CreateMarket

LEMMA ContributeStep ==
    ASSUME MarketInv, NEW c \in Contributors, NEW amount \in Contributions,
           Contribute(c, amount)
    PROVE  MarketInv'
<1>1. amount \in Nat /\ amount > 0
    BY MarketAssumption, U64MaxAssumption DEF U64
<1>2. /\ TypeOK /\ WithinTotals /\ market \in MarketAccount
      /\ Credit(c, amount, 0) /\ market.status = "Funding"
    BY DEF MarketInv, TypeOK, Contribute, CanContribute
<1>3. /\ market'.status = market.status
      /\ market'.min_liquidity = market.min_liquidity
      /\ market'.fee_bps = market.fee_bps
      /\ market'.total_contributed = market.total_contributed + amount
      /\ market'.open_contributions = market.open_contributions + NewlyOpen(c)
      /\ market'.lp_total = market.lp_total
      /\ market'.activation_lp = market.activation_lp
      /\ market'.activation_contributed = market.activation_contributed
      /\ market'.gross_lp_total = market.gross_lp_total
      /\ market'.settled = market.settled
      /\ market'.fee_collected = market.fee_collected
      /\ market' = MarketFields(market')
    BY <1>2 DEF Contribute, CanContribute, MarketAccount, MarketFields
<1>4. market' \in MarketAccount
    <2>1. MarketFieldsTyped(market)
        BY <1>2, MarketTypes
    <2>2. market'.total_contributed \in U64
        BY <1>3 DEF Contribute, CanContribute
    <2>3. market'.open_contributions \in 0 .. U16_MAX
        <3>1. /\ market.open_contributions \in 0 .. U16_MAX
              /\ market.open_contributions + NewlyOpen(c) <= U16_MAX
            BY <2>1 DEF MarketFieldsTyped, Contribute, CanContribute
        <3>2. NewlyOpen(c) \in {0, 1}
            BY DEF NewlyOpen
        <3> QED
            BY <1>3, <3>1, <3>2, OpenedCount
    <2>4. MarketFieldsTyped(market')
        BY <1>3, <2>1, <2>2, <2>3 DEF MarketFieldsTyped
    <2> QED
        BY <1>3, <2>4, MarketRecord
<1>5. /\ market.total_contributed \in Nat /\ market.gross_lp_total \in Nat
      /\ market.total_contributed > 0 /\ market.gross_lp_total = 0
      /\ donated.lp = 0
    BY <1>2, U64MaxAssumption
    DEF MarketAccount, U64, MarketInv, PositiveBases, BeginsClean
<1>6. /\ DOMAIN contribution' \subseteq Contributors
      /\ \A d \in DOMAIN contribution' : contribution'[d] \in ContributionAccount
      /\ WithinTotals'
    <2>1. market.total_contributed + amount <= market'.total_contributed
        BY <1>1, <1>3, <1>5
    <2>2. market.gross_lp_total + 0 <= market'.gross_lp_total
        BY <1>3, <1>5
    <2> QED
        BY <1>1, <1>2, <1>4, <2>1, <2>2, CreditKeeps
<1>7. TypeOK'
    <2>1. escrow' \in Nat
        BY <1>1, <1>2 DEF TypeOK, Contribute, CanContribute
    <2> QED
        BY <1>2, <1>4, <1>6, <2>1 DEF TypeOK, Contribute, CanContribute
<1>8. ContributionsCounted'
    BY <1>1, <1>2, <1>3, CreditEffect DEF MarketInv, ContributionsCounted
<1>9. market'.total_contributed > 0
    BY <1>1, <1>3, <1>5
<1> QED
    BY <1>2, <1>3, <1>5, <1>6, <1>7, <1>8, <1>9
    DEF MarketInv, StatusFollowsOracle, BeginsClean, FeeAfterVerdict, PositiveBases,
        Activated, NoClaimBeforeFee, PayoutFollowsVerdict, Contribute, CanContribute

LEMMA AddLiquidityStep ==
    ASSUME MarketInv, NEW c \in Contributors, NEW amount \in Contributions,
           NEW lp_new \in LpMints, AddLiquidity(c, amount, lp_new)
    PROVE  MarketInv'
<1>1. amount \in Nat /\ lp_new \in Nat /\ lp_new > 0
    BY MarketAssumption, U64MaxAssumption DEF U64, AddLiquidity, CanAddLiquidity
<1>2. /\ TypeOK /\ WithinTotals /\ market \in MarketAccount
      /\ Credit(c, 0, lp_new) /\ market.status = "Active"
    BY DEF MarketInv, TypeOK, AddLiquidity, CanAddLiquidity
<1>3. /\ market'.status = market.status
      /\ market'.min_liquidity = market.min_liquidity
      /\ market'.fee_bps = market.fee_bps
      /\ market'.total_contributed = market.total_contributed + amount
      /\ market'.open_contributions = market.open_contributions + NewlyOpen(c)
      /\ market'.lp_total = market.lp_total + lp_new
      /\ market'.activation_lp = market.activation_lp
      /\ market'.activation_contributed = market.activation_contributed
      /\ market'.gross_lp_total = market.gross_lp_total + lp_new
      /\ market'.settled = market.settled
      /\ market'.fee_collected = market.fee_collected
      /\ market' = MarketFields(market')
    BY <1>2 DEF AddLiquidity, CanAddLiquidity, MarketAccount, MarketFields
<1>4. market' \in MarketAccount
    <2>1. MarketFieldsTyped(market)
        BY <1>2, MarketTypes
    <2>2. /\ market'.total_contributed \in U64
          /\ market'.lp_total \in U64
          /\ market'.gross_lp_total \in U64
        BY <1>3 DEF AddLiquidity, CanAddLiquidity
    <2>3. market'.open_contributions \in 0 .. U16_MAX
        <3>1. /\ market.open_contributions \in 0 .. U16_MAX
              /\ market.open_contributions + NewlyOpen(c) <= U16_MAX
            BY <2>1 DEF MarketFieldsTyped, AddLiquidity, CanAddLiquidity
        <3>2. NewlyOpen(c) \in {0, 1}
            BY DEF NewlyOpen
        <3> QED
            BY <1>3, <3>1, <3>2, OpenedCount
    <2>4. MarketFieldsTyped(market')
        BY <1>3, <2>1, <2>2, <2>3 DEF MarketFieldsTyped
    <2> QED
        BY <1>3, <2>4, MarketRecord
<1>5. /\ market.total_contributed \in Nat /\ market.gross_lp_total \in Nat
      /\ market.lp_total \in Nat /\ market.activation_lp \in Nat
      /\ market.total_contributed > 0
      /\ market.activation_contributed > 0
      /\ market.activation_lp <= market.gross_lp_total
    BY <1>2, U64MaxAssumption
    DEF MarketAccount, U64, MarketInv, PositiveBases, Activated
<1>6. /\ DOMAIN contribution' \subseteq Contributors
      /\ \A d \in DOMAIN contribution' : contribution'[d] \in ContributionAccount
      /\ WithinTotals'
    <2>1. market.total_contributed + 0 <= market'.total_contributed
        BY <1>1, <1>3, <1>5
    <2>2. market.gross_lp_total + lp_new <= market'.gross_lp_total
        BY <1>1, <1>3, <1>5
    <2> QED
        BY <1>1, <1>2, <1>4, <2>1, <2>2, CreditKeeps
<1>7. TypeOK'
    <2>1. lp_vault' \in Nat
        BY <1>1, <1>2 DEF TypeOK, AddLiquidity, CanAddLiquidity
    <2> QED
        BY <1>2, <1>4, <1>6, <2>1 DEF TypeOK, AddLiquidity, CanAddLiquidity
<1>8. ContributionsCounted'
    BY <1>1, <1>2, <1>3, CreditEffect DEF MarketInv, ContributionsCounted
<1>9. PositiveBases'
    BY <1>1, <1>3, <1>5 DEF PositiveBases
<1>10. NoClaimBeforeFee'
    <2>1. lp_vault = market.lp_total + donated.lp
        BY <1>2 DEF MarketInv, NoClaimBeforeFee, FeeAfterVerdict, Activated
    <2>2. donated.lp \in Nat
        BY <1>2, MarketAssumption DEF TypeOK
    <2>3. lp_vault' = market'.lp_total + donated.lp
        BY <1>1, <1>3, <1>5, <2>1, <2>2 DEF AddLiquidity, CanAddLiquidity
    <2> QED
        BY <2>3 DEF NoClaimBeforeFee, AddLiquidity, CanAddLiquidity
<1> QED
    BY <1>2, <1>3, <1>6, <1>7, <1>8, <1>9, <1>10
    DEF MarketInv, StatusFollowsOracle, BeginsClean, FeeAfterVerdict, PayoutFollowsVerdict,
        AddLiquidity, CanAddLiquidity

LEMMA CancelStep ==
    ASSUME MarketInv, Cancel
    PROVE  MarketInv'
<1>1. TypeOK /\ market \in MarketAccount /\ market.status = "Funding" /\ OracleTerminal
    BY DEF MarketInv, TypeOK, Cancel, CanCancel
<1>2. market' = [market EXCEPT !.status = "Cancelled"]
    BY DEF Cancel, CanCancel
<1>3. market' \in MarketAccount
    BY <1>1, <1>2 DEF MarketAccount
<1>4. /\ market'.status = "Cancelled"
      /\ market'.total_contributed = market.total_contributed
      /\ market'.open_contributions = market.open_contributions
      /\ market'.gross_lp_total = market.gross_lp_total
      /\ market'.fee_collected = market.fee_collected
    BY <1>1, <1>2 DEF MarketAccount
<1>5. TypeOK'
    BY <1>1, <1>3 DEF TypeOK, Cancel, CanCancel
<1>6. ContributionsCounted' /\ WithinTotals' /\ PositiveBases'
    BY <1>1, <1>4
    DEF MarketInv, ContributionsCounted, WithinTotals, PositiveBases, Activated, Cancel, CanCancel
<1>7. ~market.fee_collected
    BY <1>1 DEF MarketInv, FeeAfterVerdict
<1> QED
    BY <1>1, <1>4, <1>5, <1>6, <1>7
    DEF MarketInv, StatusFollowsOracle, OracleTerminal, OraclePending, BeginsClean,
        FeeAfterVerdict, NoClaimBeforeFee, Activated, PayoutFollowsVerdict, Cancel, CanCancel

LEMMA RefundStep ==
    ASSUME MarketInv, NEW c \in DOMAIN contribution, Refund(c)
    PROVE  MarketInv'
<1>1. TypeOK /\ market.status = "Cancelled" /\ Leave(c)
    BY DEF MarketInv, Refund, CanRefund
<1>2. escrow' \in Nat
    BY <1>1, U64MaxAssumption DEF TypeOK, ContributionAccount, U64, Refund, CanRefund
<1>3. TypeOK'
    BY <1>1, <1>2, LeaveKeeps DEF TypeOK, Refund, CanRefund
<1>4. ContributionsCounted' /\ WithinTotals' /\ market'.status = "Cancelled"
    BY <1>1, LeaveKeeps
<1>5. PositiveBases'
    BY <1>1, <1>4, LeaveKeeps DEF MarketInv, PositiveBases, Activated
<1>6. FeeAfterVerdict'
    BY <1>1, <1>4, LeaveKeeps DEF MarketInv, FeeAfterVerdict
<1> QED
    BY <1>1, <1>3, <1>4, <1>5, <1>6
    DEF MarketInv, StatusFollowsOracle, OraclePending, BeginsClean, NoClaimBeforeFee,
        Activated, PayoutFollowsVerdict, Refund, CanRefund

LEMMA ActivateStep ==
    ASSUME MarketInv, NEW lp \in LpMints, Activate(lp)
    PROVE  MarketInv'
<1>1. lp \in U64 /\ lp \in Nat
    BY MarketAssumption, U64MaxAssumption DEF U64
<1>2. TypeOK /\ market \in MarketAccount /\ market.status = "Funding"
    BY DEF MarketInv, TypeOK, Activate, CanActivate
<1>3. /\ market'.status = "Active"
      /\ market'.min_liquidity = market.min_liquidity
      /\ market'.fee_bps = market.fee_bps
      /\ market'.total_contributed = market.total_contributed
      /\ market'.open_contributions = market.open_contributions
      /\ market'.lp_total = lp
      /\ market'.activation_lp = lp
      /\ market'.activation_contributed = market.total_contributed
      /\ market'.gross_lp_total = lp
      /\ market'.settled = market.settled
      /\ market'.fee_collected = market.fee_collected
      /\ market' = MarketFields(market')
    BY <1>2 DEF Activate, CanActivate, MarketAccount, MarketFields
<1>4. market' \in MarketAccount
    <2>1. MarketFieldsTyped(market)
        BY <1>2, MarketTypes
    <2>2. MarketFieldsTyped(market')
        BY <1>1, <1>3, <2>1 DEF MarketFieldsTyped
    <2> QED
        BY <1>3, <2>2, MarketRecord
<1>5. /\ market.total_contributed \in Nat /\ market.total_contributed > 0
      /\ market.gross_lp_total = 0 /\ donated.lp = 0 /\ market.fee_collected = FALSE
    BY <1>2, U64MaxAssumption
    DEF MarketAccount, U64, MarketInv, PositiveBases, BeginsClean, FeeAfterVerdict
<1>6. TypeOK'
    <2>1. escrow' \in Nat
        BY <1>2, <1>5 DEF TypeOK, Activate, CanActivate
    <2> QED
        BY <1>1, <1>2, <1>4, <2>1 DEF TypeOK, Activate, CanActivate
<1>7. WithinTotals'
    <2> SUFFICES ASSUME NEW d \in DOMAIN contribution
                 PROVE  /\ contribution[d].amount <= market.total_contributed
                        /\ contribution[d].late_lp <= lp
        BY <1>3 DEF WithinTotals, Activate, CanActivate
    <2>1. /\ contribution[d].amount <= market.total_contributed
          /\ contribution[d].late_lp <= 0
        BY <1>5 DEF MarketInv, WithinTotals
    <2>2. contribution[d].late_lp \in Nat
        BY <1>2, U64MaxAssumption DEF TypeOK, ContributionAccount, U64
    <2> QED
        BY <1>1, <2>1, <2>2
<1>8. ContributionsCounted'
    BY <1>3 DEF MarketInv, ContributionsCounted, Activate, CanActivate
<1>9. PositiveBases'
    BY <1>1, <1>3, <1>5 DEF PositiveBases
<1>10. NoClaimBeforeFee'
    BY <1>1, <1>3, <1>5 DEF NoClaimBeforeFee, Activate, CanActivate
<1> QED
    BY <1>3, <1>5, <1>6, <1>7, <1>8, <1>9, <1>10
    DEF MarketInv, StatusFollowsOracle, BeginsClean, FeeAfterVerdict, PayoutFollowsVerdict

LEMMA ResolveMarketStep ==
    ASSUME MarketInv, ResolveMarket
    PROVE  MarketInv'
<1>1. TypeOK /\ market \in MarketAccount /\ market.status = "Active"
    BY DEF MarketInv, TypeOK, ResolveMarket, CanResolveMarket
<1>2. /\ market'.status = Settled.status
      /\ market'.min_liquidity = market.min_liquidity
      /\ market'.fee_bps = market.fee_bps
      /\ market'.total_contributed = market.total_contributed
      /\ market'.open_contributions = market.open_contributions
      /\ market'.lp_total = market.lp_total
      /\ market'.activation_lp = market.activation_lp
      /\ market'.activation_contributed = market.activation_contributed
      /\ market'.gross_lp_total = market.gross_lp_total
      /\ market'.settled = TRUE
      /\ market'.fee_collected = (market.fee_bps = 0 \/ market.lp_total = 0)
      /\ market' = MarketFields(market')
    BY <1>1 DEF ResolveMarket, CanResolveMarket, MarketAccount, MarketFields
<1>3. /\ Settled.status \in {"Resolved", "Void"}
      /\ Settled.numerators \in {YesPays, NoPays, EveryLegPaysHalf}
      /\ Settled.status = "Resolved" => verdict.status # "InvalidDeadend"
      /\ Settled.status = "Resolved" =>
            Settled.numerators = IF verdict.option = OutcomeIndex THEN YesPays ELSE NoPays
    BY DEF Settled
<1>4. /\ market'.status \in {"Resolved", "Void"}
      /\ payout' = Settled.numerators
      /\ verdict' = verdict
      /\ verdict.status \in {"Resolved", "InvalidDeadend"}
    BY <1>2, <1>3 DEF ResolveMarket, CanResolveMarket, OracleTerminal
<1>5. market' \in MarketAccount
    <2>1. MarketFieldsTyped(market)
        BY <1>1, MarketTypes
    <2>2. MarketFieldsTyped(market')
        BY <1>2, <1>4, <2>1 DEF MarketFieldsTyped
    <2> QED
        BY <1>2, <2>2, MarketRecord
<1>6. TypeOK'
    BY <1>1, <1>3, <1>4, <1>5 DEF TypeOK, ResolveMarket, CanResolveMarket
<1>7. ContributionsCounted' /\ WithinTotals'
    BY <1>2 DEF MarketInv, ContributionsCounted, WithinTotals, ResolveMarket, CanResolveMarket
<1>8. PositiveBases'
    BY <1>1, <1>2 DEF MarketInv, PositiveBases, Activated
<1>9. NoClaimBeforeFee'
    <2>1. lp_vault = market.lp_total + donated.lp
        BY <1>1 DEF MarketInv, NoClaimBeforeFee, FeeAfterVerdict, Activated
    <2> QED
        BY <1>2, <2>1 DEF NoClaimBeforeFee, ResolveMarket, CanResolveMarket
<1>10. StatusFollowsOracle' /\ PayoutFollowsVerdict'
    BY <1>2, <1>3, <1>4 DEF StatusFollowsOracle, OraclePending, PayoutFollowsVerdict
<1> QED
    BY <1>4, <1>6, <1>7, <1>8, <1>9, <1>10
    DEF MarketInv, BeginsClean, FeeAfterVerdict

LEMMA CollectFeeStep ==
    ASSUME MarketInv, NEW realized \in PoolValues, CollectFee(realized)
    PROVE  MarketInv'
<1>1. /\ TypeOK /\ market \in MarketAccount
      /\ market.status \in {"Resolved", "Void"} /\ realized \in Nat
    BY MarketAssumption DEF MarketInv, TypeOK, CollectFee, CanCollectFee
<1>2. FeeLp(realized) \in Nat /\ FeeLp(realized) <= market.lp_total
    BY <1>1, FeeBounds
<1>3. /\ market'.status = market.status
      /\ market'.min_liquidity = market.min_liquidity
      /\ market'.fee_bps = market.fee_bps
      /\ market'.total_contributed = market.total_contributed
      /\ market'.open_contributions = market.open_contributions
      /\ market'.lp_total = market.lp_total - FeeLp(realized)
      /\ market'.activation_lp = market.activation_lp
      /\ market'.activation_contributed = market.activation_contributed
      /\ market'.gross_lp_total = market.gross_lp_total
      /\ market'.settled = market.settled
      /\ market'.fee_collected = TRUE
      /\ market' = MarketFields(market')
    BY <1>1 DEF CollectFee, CanCollectFee, MarketAccount, MarketFields
<1>4. market' \in MarketAccount
    <2>1. MarketFieldsTyped(market)
        BY <1>1, MarketTypes
    <2>2. market.lp_total - FeeLp(realized) \in U64
        BY <1>2, <2>1, U64MaxAssumption DEF MarketFieldsTyped, U64
    <2>3. MarketFieldsTyped(market')
        BY <1>3, <2>1, <2>2 DEF MarketFieldsTyped
    <2> QED
        BY <1>3, <2>3, MarketRecord
<1>5. TypeOK'
    <2>1. lp_vault' \in Nat /\ escrow' \in Nat
        BY <1>1, <1>2 DEF TypeOK, CollectFee, CanCollectFee
    <2> QED
        BY <1>1, <1>4, <2>1 DEF TypeOK, CollectFee, CanCollectFee
<1>6. ContributionsCounted' /\ WithinTotals'
    BY <1>3 DEF MarketInv, ContributionsCounted, WithinTotals, CollectFee, CanCollectFee
<1>7. PositiveBases'
    BY <1>1, <1>3 DEF MarketInv, PositiveBases, Activated
<1> QED
    BY <1>1, <1>3, <1>5, <1>6, <1>7
    DEF MarketInv, StatusFollowsOracle, OraclePending, BeginsClean, FeeAfterVerdict,
        NoClaimBeforeFee, PayoutFollowsVerdict, CollectFee, CanCollectFee

LEMMA ClaimLpStep ==
    ASSUME MarketInv, NEW c \in DOMAIN contribution, ClaimLp(c)
    PROVE  MarketInv'
<1>1. /\ TypeOK /\ Leave(c) /\ market.fee_collected
      /\ market.status \in {"Resolved", "Void"}
    BY DEF MarketInv, FeeAfterVerdict, ClaimLp, CanClaimLp, ClaimsOpen
<1>2. ClaimableLp(c) \in Nat
    BY ClaimTypes DEF ClaimLp, CanClaimLp
<1>3. lp_vault' \in Nat
    BY <1>1, <1>2 DEF TypeOK, ClaimLp, CanClaimLp
<1>4. TypeOK'
    BY <1>1, <1>3, LeaveKeeps DEF TypeOK, ClaimLp, CanClaimLp
<1>5. /\ ContributionsCounted' /\ WithinTotals'
      /\ market'.status = market.status /\ market'.fee_collected = market.fee_collected
    BY <1>1, LeaveKeeps
<1>6. PositiveBases'
    BY <1>1, <1>5, LeaveKeeps DEF MarketInv, PositiveBases, Activated
<1> QED
    BY <1>1, <1>4, <1>5, <1>6
    DEF MarketInv, StatusFollowsOracle, OraclePending, BeginsClean, FeeAfterVerdict,
        NoClaimBeforeFee, PayoutFollowsVerdict, ClaimLp, CanClaimLp

LEMMA CloseMarketStep ==
    ASSUME MarketInv, CloseMarket
    PROVE  MarketInv'
<1>1. /\ TypeOK /\ market.status \in {"Resolved", "Void", "Cancelled"}
      /\ market.open_contributions = 0 /\ market' = NoMarket
    BY DEF MarketInv, CloseMarket, CanCloseMarket
<1>2. DOMAIN contribution = {}
    BY <1>1, FiniteContributions, FS_EmptySet DEF MarketInv, ContributionsCounted
<1>3. ~OraclePending
    BY <1>1 DEF MarketInv, StatusFollowsOracle
<1>4. TypeOK'
    BY <1>1, EmptyMarketType DEF TypeOK, CloseMarket, CanCloseMarket
<1>5. market'.status = "None" /\ market'.open_contributions = 0 /\ ~market'.fee_collected
    BY <1>1 DEF NoMarket
<1>6. DOMAIN contribution' = {} /\ ~OraclePending'
    BY <1>2, <1>3 DEF CloseMarket, CanCloseMarket, OraclePending
<1>7. ContributionsCounted'
    BY <1>5, <1>6, FS_EmptySet DEF ContributionsCounted
<1> QED
    BY <1>4, <1>5, <1>6, <1>7
    DEF MarketInv, StatusFollowsOracle, BeginsClean, FeeAfterVerdict, WithinTotals,
        PositiveBases, NoClaimBeforeFee, Activated, PayoutFollowsVerdict

LEMMA DonateStep ==
    ASSUME MarketInv, DonateKass \/ DonateLp
    PROVE  MarketInv'
<1>1. TypeOK /\ donated \in [kass : 0 .. MaxDonation, lp : 0 .. MaxDonation]
    BY DEF MarketInv, TypeOK
<1>2. UNCHANGED <<verdict, config, market, contribution, payout>>
    BY DEF DonateKass, DonateLp
<1>3. CASE DonateKass
    <2>1. /\ escrow' \in Nat /\ lp_vault' = lp_vault /\ donated'.lp = donated.lp
          /\ donated' \in [kass : 0 .. MaxDonation, lp : 0 .. MaxDonation]
        BY <1>1, <1>3, MarketAssumption DEF TypeOK, DonateKass
    <2>2. TypeOK'
        BY <1>1, <1>2, <2>1 DEF TypeOK
    <2> QED
        BY <1>2, <2>1, <2>2
        DEF MarketInv, ContributionsCounted, StatusFollowsOracle, OraclePending, BeginsClean,
            FeeAfterVerdict, WithinTotals, PositiveBases, NoClaimBeforeFee, Activated,
            PayoutFollowsVerdict
<1>4. CASE DonateLp
    <2>1. /\ escrow' = escrow /\ lp_vault' = lp_vault + 1 /\ donated'.lp = donated.lp + 1
          /\ lp_vault' \in Nat
          /\ donated' \in [kass : 0 .. MaxDonation, lp : 0 .. MaxDonation]
        BY <1>1, <1>4, MarketAssumption DEF TypeOK, DonateLp
    <2>2. TypeOK'
        BY <1>1, <1>2, <2>1 DEF TypeOK
    <2>3. Activated /\ BeginsClean'
        BY <1>2, <1>4 DEF DonateLp, Activated, BeginsClean
    <2>4. NoClaimBeforeFee'
        <3>1. market.lp_total \in Nat /\ donated.lp \in Nat /\ lp_vault \in Nat
            BY <1>1, U64MaxAssumption, MarketAssumption DEF TypeOK, MarketAccount, U64
        <3> QED
            BY <1>2, <2>1, <2>3, <3>1 DEF MarketInv, NoClaimBeforeFee, Activated
    <2> QED
        BY <1>2, <2>2, <2>3, <2>4
        DEF MarketInv, ContributionsCounted, StatusFollowsOracle, OraclePending,
            FeeAfterVerdict, WithinTotals, PositiveBases, Activated, PayoutFollowsVerdict
<1> QED
    BY <1>3, <1>4

LEMMA OracleMovesStep ==
    ASSUME MarketInv, OracleMoves
    PROVE  MarketInv'
<1>1. /\ verdict \in Oracle!Verdicts
      /\ UNCHANGED <<config, market, contribution, escrow, lp_vault, payout, donated>>
    BY DEF MarketInv, TypeOK, OracleMoves
<1>2. /\ verdict' \in Oracle!Verdicts
      /\ verdict'.status # "Pending"
      /\ verdict.status \in {"Resolved", "Swept"} => verdict'.status = "Swept"
    BY <1>1, OracleMoved
<1>3. TypeOK'
    BY <1>1, <1>2 DEF MarketInv, TypeOK
<1>4. market.status = "Resolved" => verdict'.status = "Swept"
    BY <1>2 DEF MarketInv, StatusFollowsOracle
<1> QED
    BY <1>1, <1>2, <1>3, <1>4
    DEF MarketInv, ContributionsCounted, StatusFollowsOracle, OraclePending, BeginsClean,
        FeeAfterVerdict, WithinTotals, PositiveBases, NoClaimBeforeFee, Activated,
        PayoutFollowsVerdict

LEMMA UnchangedMarketStep ==
    ASSUME MarketInv, config' \in Configs,
           UNCHANGED <<verdict, market, contribution, escrow, lp_vault, payout, donated>>
    PROVE  MarketInv'
BY DEF MarketInv, TypeOK, ContributionsCounted, StatusFollowsOracle, OraclePending,
       BeginsClean, FeeAfterVerdict, WithinTotals, PositiveBases, NoClaimBeforeFee,
       Activated, PayoutFollowsVerdict

-----------------------------------------------------------------------------
\* The invariant

LEMMA MarketInvStep == MarketInv /\ [Next]_marketVars => MarketInv'
<1> SUFFICES ASSUME MarketInv, [Next]_marketVars PROVE MarketInv'
    OBVIOUS
<1>1. ASSUME NEW c \in Configs, UpdateConfig(c) PROVE MarketInv'
    BY <1>1, UnchangedMarketStep DEF UpdateConfig
<1>2. ASSUME NEW c \in Contributors, NEW amount \in Contributions,
             CreateMarket(c, amount)
      PROVE  MarketInv'
    BY <1>2, CreateMarketStep
<1>3. ASSUME NEW c \in Contributors, NEW amount \in Contributions,
             Contribute(c, amount)
      PROVE  MarketInv'
    BY <1>3, ContributeStep
<1>4. ASSUME NEW c \in Contributors, NEW amount \in Contributions, NEW lp \in LpMints,
             AddLiquidity(c, amount, lp)
      PROVE  MarketInv'
    BY <1>4, AddLiquidityStep
<1>5. ASSUME NEW lp \in LpMints, Activate(lp) PROVE MarketInv'
    BY <1>5, ActivateStep
<1>6. ASSUME NEW realized \in PoolValues, CollectFee(realized) PROVE MarketInv'
    BY <1>6, CollectFeeStep
<1>7. ASSUME NEW c \in DOMAIN contribution, Refund(c) PROVE MarketInv'
    BY <1>7, RefundStep
<1>8. ASSUME NEW c \in DOMAIN contribution, ClaimLp(c) PROVE MarketInv'
    BY <1>8, ClaimLpStep
<1>9. CASE Cancel
    BY <1>9, CancelStep
<1>10. CASE ResolveMarket
    BY <1>10, ResolveMarketStep
<1>11. CASE CloseMarket
    BY <1>11, CloseMarketStep
<1>12. CASE DonateKass \/ DonateLp
    BY <1>12, DonateStep
<1>13. CASE OracleMoves
    BY <1>13, OracleMovesStep
<1>14. CASE UNCHANGED marketVars
    <2>1. config' \in Configs
        BY <1>14 DEF MarketInv, TypeOK, marketVars
    <2> QED
        BY <1>14, <2>1, UnchangedMarketStep DEF marketVars
<1> QED
    BY <1>1, <1>2, <1>3, <1>4, <1>5, <1>6, <1>7, <1>8, <1>9, <1>10, <1>11, <1>12,
       <1>13, <1>14
    DEF Next

LEMMA MarketInvariant == MarketSpec => []MarketInv
BY MarketInvInit, MarketInvStep, PTL DEF MarketSpec

\* Accounts keep their shapes and no total leaves u64, whatever the contributors
\* bring, the pool mints and governance sets.
THEOREM MarketTypeCorrect == MarketSpec => []TypeOK
<1>1. MarketInv => TypeOK
    BY DEF MarketInv
<1> QED
    BY <1>1, MarketInvariant, PTL

\* open_contributions is the number of Contribution accounts in every market,
\* so close_market waits for the right moment and only the last takes the rest.
THEOREM ContributionsAreCounted == MarketSpec => []ContributionsCounted
<1>1. MarketInv => ContributionsCounted
    BY DEF MarketInv
<1> QED
    BY <1>1, MarketInvariant, PTL

\* No sequence of cranks gets LP tokens out of a market before its fee is cut.
THEOREM NoClaimComesFirst == MarketSpec => []NoClaimBeforeFee
<1>1. MarketInv => NoClaimBeforeFee
    BY DEF MarketInv
<1> QED
    BY <1>1, MarketInvariant, PTL

\* A market never pays an outcome that its oracle did not decide.
THEOREM VerdictIsPaid == MarketSpec => []PayoutFollowsVerdict
<1>1. MarketInv => PayoutFollowsVerdict
    BY DEF MarketInv
<1> QED
    BY <1>1, MarketInvariant, PTL

-----------------------------------------------------------------------------
\* The fee

\* Until the fee is settled nothing is missing from the LP tokens minted.
UncutUntilFee == ~market.fee_collected => market.lp_total = market.gross_lp_total

FeeInv == MarketInv /\ UncutUntilFee /\ FeeWithinSnapshot

\* What CollectFee takes, scaled up, is within the snapshotted rate.
LEMMA FeeWithinRate ==
    ASSUME TypeOK, NEW realized \in Nat
    PROVE  FeeLp(realized) * FEE_SCALE <= market.lp_total * market.fee_bps
<1> DEFINE accrued == SaturatingSub(realized, market.total_contributed)
<1> DEFINE lp == (market.lp_total * accrued) \div realized
<1> DEFINE total == market.lp_total
<1> DEFINE bps == market.fee_bps
<1>1. /\ total \in Nat /\ market.total_contributed \in Nat
      /\ bps \in Nat
    BY U64MaxAssumption DEF TypeOK, MarketAccount, U64, MAX_FEE_BPS
<1>2. accrued \in Nat /\ accrued <= realized
    BY <1>1 DEF SaturatingSub
<1>3. CASE accrued = 0
    <2>1. FeeLp(realized) = 0
        BY <1>3 DEF FeeLp
    <2> HIDE DEF total, bps
    <2>2. total * bps \in Nat
        BY <1>1
    <2> QED
        BY <2>1, <2>2 DEF total, bps, FEE_SCALE
<1>4. CASE accrued # 0
    <2>1. FeeLp(realized) = (lp * bps) \div FEE_SCALE
        BY <1>4 DEF FeeLp, FeeBps
    <2> HIDE DEF accrued
    <2>2. lp \in Nat /\ lp <= total
        BY <1>1, <1>2, <1>4, PartBounds
    <2> HIDE DEF lp, total, bps
    <2>3. lp * bps <= total * bps /\ lp * bps \in Nat /\ total * bps \in Nat
        BY <1>1, <2>2
    <2> DEFINE p == lp * bps
    <2> DEFINE q == total * bps
    <2>4. p \in Nat /\ q \in Nat /\ p <= q
        BY <2>3
    <2> HIDE DEF p, q
    <2>5. (p \div FEE_SCALE) * FEE_SCALE <= q
        BY <2>4 DEF FEE_SCALE
    <2> QED
        BY <2>1, <2>5 DEF p, q, total, bps
<1> QED
    BY <1>3, <1>4

\* A market from which nothing is missing paid no fee.
LEMMA UncutIsWithin ==
    ASSUME NEW g \in Nat, NEW bps \in Nat
    PROVE  (g - g) * FEE_SCALE <= g * bps
<1>1. g * bps \in Nat /\ (g - g) * FEE_SCALE = 0
    BY DEF FEE_SCALE
<1> QED
    BY <1>1

LEMMA FeeTypes ==
    ASSUME NEW m \in MarketAccount
    PROVE  m.gross_lp_total \in Nat /\ m.fee_bps \in Nat
BY U64MaxAssumption DEF MarketAccount, U64, MAX_FEE_BPS

LEMMA FeeInvInit == Init => FeeInv
<1> SUFFICES ASSUME Init PROVE FeeInv
    OBVIOUS
<1>1. MarketInv /\ TypeOK
    BY MarketInvInit DEF MarketInv
<1>2. market.lp_total = 0 /\ market.gross_lp_total = 0
    BY DEF Init, NoMarket
<1>3. market.gross_lp_total \in Nat /\ market.fee_bps \in Nat
    BY <1>1, FeeTypes DEF TypeOK
<1>4. FeeWithinSnapshot
    BY <1>2, <1>3, UncutIsWithin DEF FeeWithinSnapshot
<1> QED
    BY <1>1, <1>2, <1>4 DEF FeeInv, UncutUntilFee

\* A step that leaves fee, totals and snapshot alone.
FeeUntouched ==
    /\ market'.fee_bps = market.fee_bps
    /\ market'.lp_total = market.lp_total
    /\ market'.gross_lp_total = market.gross_lp_total
    /\ market'.fee_collected = market.fee_collected

LEMMA FeeInvStep == FeeInv /\ [Next]_marketVars => FeeInv'
<1> SUFFICES ASSUME FeeInv, [Next]_marketVars PROVE FeeInv'
    OBVIOUS
<1>1. MarketInv' /\ TypeOK' /\ MarketInv /\ TypeOK /\ market \in MarketAccount
    BY MarketInvStep DEF FeeInv, MarketInv, TypeOK
<1>2. market'.lp_total = market'.gross_lp_total => FeeInv'
    <2> SUFFICES ASSUME market'.lp_total = market'.gross_lp_total PROVE FeeInv'
        OBVIOUS
    <2>1. FeeWithinSnapshot'
        <3>1. market'.gross_lp_total \in Nat /\ market'.fee_bps \in Nat
            BY <1>1, FeeTypes DEF TypeOK
        <3> QED
            BY <3>1, UncutIsWithin DEF FeeWithinSnapshot
    <2> QED
        BY <1>1, <2>1 DEF FeeInv, UncutUntilFee
<1>3. FeeUntouched => FeeInv'
    BY <1>1 DEF FeeUntouched, FeeInv, UncutUntilFee, FeeWithinSnapshot
<1>4. ASSUME NEW c \in Configs, UpdateConfig(c) PROVE FeeInv'
    BY <1>3, <1>4 DEF UpdateConfig, FeeUntouched
<1>5. ASSUME NEW c \in Contributors, NEW amount \in Contributions,
             CreateMarket(c, amount)
      PROVE  FeeInv'
    BY <1>2, <1>5 DEF CreateMarket, NoMarket
<1>6. ASSUME NEW c \in Contributors, NEW amount \in Contributions,
             Contribute(c, amount)
      PROVE  FeeInv'
    BY <1>1, <1>3, <1>6 DEF Contribute, CanContribute, MarketAccount, FeeUntouched
<1>7. ASSUME NEW c \in Contributors, NEW amount \in Contributions, NEW lp \in LpMints,
             AddLiquidity(c, amount, lp)
      PROVE  FeeInv'
    <2>1. market.lp_total = market.gross_lp_total
        BY <1>7 DEF FeeInv, MarketInv, UncutUntilFee, FeeAfterVerdict, AddLiquidity, CanAddLiquidity
    <2>2. /\ market'.lp_total = market.lp_total + lp
          /\ market'.gross_lp_total = market.gross_lp_total + lp
        BY <1>1, <1>7 DEF AddLiquidity, CanAddLiquidity, MarketAccount
    <2> QED
        BY <1>2, <2>1, <2>2
<1>8. ASSUME NEW lp \in LpMints, Activate(lp) PROVE FeeInv'
    <2>1. market'.lp_total = lp /\ market'.gross_lp_total = lp
        BY <1>1, <1>8 DEF Activate, CanActivate, MarketAccount
    <2> QED
        BY <1>2, <2>1
<1>9. ASSUME NEW realized \in PoolValues, CollectFee(realized) PROVE FeeInv'
    <2>1. /\ market.lp_total = market.gross_lp_total
          /\ market'.gross_lp_total = market.gross_lp_total
          /\ market'.lp_total = market.lp_total - FeeLp(realized)
          /\ market'.fee_bps = market.fee_bps
          /\ market'.fee_collected = TRUE
        BY <1>1, <1>9 DEF FeeInv, UncutUntilFee, CollectFee, CanCollectFee, MarketAccount
    <2>2. realized \in Nat
        BY MarketAssumption
    <2>3. /\ FeeLp(realized) \in Nat
          /\ FeeLp(realized) * FEE_SCALE <= market.lp_total * market.fee_bps
        BY <1>1, <2>2, FeeBounds, FeeWithinRate
    <2>4. market.gross_lp_total - (market.gross_lp_total - FeeLp(realized)) = FeeLp(realized)
        BY <1>1, <2>3, U64MaxAssumption DEF MarketAccount, U64
    <2>5. FeeWithinSnapshot'
        BY <2>1, <2>3, <2>4 DEF FeeWithinSnapshot
    <2> QED
        BY <1>1, <2>1, <2>5 DEF FeeInv, UncutUntilFee
<1>10. ASSUME NEW c \in DOMAIN contribution, Leave(c) PROVE FeeInv'
    BY <1>1, <1>3, <1>10 DEF Leave, MarketAccount, FeeUntouched
<1>11. CASE Cancel
    BY <1>1, <1>3, <1>11 DEF Cancel, CanCancel, MarketAccount, FeeUntouched
<1>12. CASE ResolveMarket
    <2>1. market.lp_total = market.gross_lp_total
        BY <1>12 DEF FeeInv, MarketInv, UncutUntilFee, FeeAfterVerdict, ResolveMarket, CanResolveMarket
    <2>2. /\ market'.lp_total = market.lp_total
          /\ market'.gross_lp_total = market.gross_lp_total
        BY <1>1, <1>12 DEF ResolveMarket, CanResolveMarket, MarketAccount
    <2> QED
        BY <1>2, <2>1, <2>2
<1>13. CASE CloseMarket
    BY <1>2, <1>13 DEF CloseMarket, CanCloseMarket, NoMarket
<1>14. CASE DonateKass \/ DonateLp \/ OracleMoves \/ UNCHANGED marketVars
    BY <1>3, <1>14 DEF DonateKass, DonateLp, OracleMoves, marketVars, FeeUntouched
<1> QED
    BY <1>4, <1>5, <1>6, <1>7, <1>8, <1>9, <1>10, <1>11, <1>12, <1>13, <1>14
    DEF Next, Refund, CanRefund, ClaimLp, CanClaimLp

\* What the protocol takes of a market's LP tokens is within the rate that the
\* market was created under, whatever governance sets later and whatever the
\* pool is made to show.
THEOREM FeeIsWithinSnapshot == MarketSpec => []FeeWithinSnapshot
<1>1. FeeInv => FeeWithinSnapshot
    BY DEF FeeInv
<1> QED
    BY <1>1, FeeInvInit, FeeInvStep, PTL DEF MarketSpec

\* Fee first and fee bounded: what funders and late depositors share is all the
\* pool minted, less the rate their market was created under (collect_fee.rs).
THEOREM FeeIsSafe == MarketSpec => []FeeComesFirst
BY NoClaimComesFirst, FeeIsWithinSnapshot, PTL DEF FeeComesFirst

-----------------------------------------------------------------------------
\* The books: what the accounts of the contributors add up to

LateLp == [c \in DOMAIN contribution |-> contribution[c].late_lp]

\* Before anybody has left with anything, the Contribution accounts add up to
\* the market's totals: in KASS to what was raised before activation, in LP
\* tokens to what was minted after it.
BooksBalance ==
    /\ market.status = "Funding" =>
        /\ SumFunction(RefundsDue) = market.total_contributed
        /\ market.activation_lp = 0
    /\ Activated /\ ~market.fee_collected =>
        SumFunction(RefundsDue) = market.activation_contributed
    /\ market.status = "Funding" \/ (Activated /\ ~market.fee_collected) =>
        market.activation_lp + SumFunction(LateLp) = market.gross_lp_total

\* A market without late liquidity knows only one rate.
OneRate ==
    Activated /\ market.gross_lp_total = market.activation_lp =>
        /\ market.total_contributed = market.activation_contributed
        /\ \A c \in DOMAIN contribution : contribution[c].late_lp = 0

\* Nobody can have sent KASS to a market that has not been there yet.
FreshEscrow == market.status = "None" /\ OraclePending => escrow = donated.kass

NothingAboveGross == market.lp_total <= market.gross_lp_total

Backed ==
    /\ BooksBalance
    /\ OneRate
    /\ FreshEscrow
    /\ NothingAboveGross
    /\ EscrowBacksRefunds
    /\ SharesCovered
    /\ NoShareStranded

VaultInv == FeeInv /\ Backed

LEMMA BooksTypes ==
    ASSUME TypeOK
    PROVE  /\ IsFiniteSet(DOMAIN contribution)
           /\ DOMAIN RefundsDue = DOMAIN contribution
           /\ DOMAIN LateLp = DOMAIN contribution
           /\ NatOn(RefundsDue, DOMAIN contribution) /\ IntOn(RefundsDue, DOMAIN contribution)
           /\ NatOn(LateLp, DOMAIN contribution) /\ IntOn(LateLp, DOMAIN contribution)
           /\ SumFunction(RefundsDue) = SumFunctionOnSet(RefundsDue, DOMAIN contribution)
           /\ SumFunction(LateLp) = SumFunctionOnSet(LateLp, DOMAIN contribution)
           /\ SumFunction(RefundsDue) \in Nat /\ SumFunction(LateLp) \in Nat
<1>1. \A c \in DOMAIN contribution :
        contribution[c].amount \in Nat /\ contribution[c].late_lp \in Nat
    BY U64MaxAssumption DEF TypeOK, ContributionAccount, U64
<1>2. /\ NatOn(RefundsDue, DOMAIN contribution) /\ IntOn(RefundsDue, DOMAIN contribution)
      /\ NatOn(LateLp, DOMAIN contribution) /\ IntOn(LateLp, DOMAIN contribution)
    BY <1>1 DEF RefundsDue, LateLp, NatOn, IntOn
<1>3. DOMAIN RefundsDue = DOMAIN contribution /\ DOMAIN LateLp = DOMAIN contribution
    BY DEF RefundsDue, LateLp
<1>4. /\ SumFunction(RefundsDue) = SumFunctionOnSet(RefundsDue, DOMAIN contribution)
      /\ SumFunction(LateLp) = SumFunctionOnSet(LateLp, DOMAIN contribution)
    BY <1>3 DEF SumFunction
<1> QED
    BY <1>2, <1>3, <1>4, FiniteContributions, SumNat

\* A credit adds to the books what it brings.
LEMMA CreditSums ==
    ASSUME TypeOK, NEW c \in Contributors, NEW amount \in Nat, NEW late \in Nat,
           Credit(c, amount, late)
    PROVE  /\ SumFunction(RefundsDue)' = SumFunction(RefundsDue) + amount
           /\ SumFunction(LateLp)' = SumFunction(LateLp) + late
<1> DEFINE D == DOMAIN contribution
<1>1. /\ DOMAIN contribution' = D \cup {c}
      /\ \A d \in D \ {c} : contribution'[d] = contribution[d]
      /\ c \in D => contribution'[c] = [amount |-> contribution[c].amount + amount,
                                        late_lp |-> contribution[c].late_lp + late]
      /\ c \notin D => contribution'[c] = [amount |-> amount, late_lp |-> late]
    BY CreditEffect
<1>2. /\ \A y \in D \ {c} : RefundsDue'[y] = RefundsDue[y]
      /\ c \in D => RefundsDue'[c] = RefundsDue[c] + amount
      /\ c \notin D => RefundsDue'[c] = amount
      /\ DOMAIN RefundsDue' = D \cup {c}
    BY <1>1 DEF RefundsDue
<1>3. /\ \A y \in D \ {c} : LateLp'[y] = LateLp[y]
      /\ c \in D => LateLp'[c] = LateLp[c] + late
      /\ c \notin D => LateLp'[c] = late
      /\ DOMAIN LateLp' = D \cup {c}
    BY <1>1 DEF LateLp
<1>4. /\ SumFunction(RefundsDue)' = SumFunctionOnSet(RefundsDue', D \cup {c})
      /\ SumFunction(LateLp)' = SumFunctionOnSet(LateLp', D \cup {c})
    BY <1>2, <1>3 DEF SumFunction
<1>5. amount \in Int /\ late \in Int
    OBVIOUS
<1>6. SumFunctionOnSet(RefundsDue', D \cup {c}) = SumFunctionOnSet(RefundsDue, D) + amount
    <2>1. IsFiniteSet(D) /\ IntOn(RefundsDue, D)
        BY BooksTypes
    <2> HIDE DEF D
    <2> QED
        BY <1>2, <1>5, <2>1, SumCredit
<1>7. SumFunctionOnSet(LateLp', D \cup {c}) = SumFunctionOnSet(LateLp, D) + late
    <2>1. IsFiniteSet(D) /\ IntOn(LateLp, D)
        BY BooksTypes
    <2> HIDE DEF D
    <2> QED
        BY <1>3, <1>5, <2>1, SumCredit
<1> QED
    BY <1>4, <1>6, <1>7, BooksTypes

\* A departure takes its own contribution out of them.
LEMMA LeaveSums ==
    ASSUME TypeOK, NEW c \in DOMAIN contribution, Leave(c)
    PROVE  SumFunction(RefundsDue)' = SumFunction(RefundsDue) - contribution[c].amount
<1> DEFINE D == DOMAIN contribution
<1>1. /\ DOMAIN contribution' = D \ {c}
      /\ \A d \in D \ {c} : contribution'[d] = contribution[d]
    BY LeaveEffect
<1>2. /\ \A y \in D \ {c} : RefundsDue'[y] = RefundsDue[y]
      /\ DOMAIN RefundsDue' = D \ {c}
      /\ RefundsDue[c] = contribution[c].amount
    BY <1>1 DEF RefundsDue
<1>3. SumFunction(RefundsDue)' = SumFunctionOnSet(RefundsDue', D \ {c})
    BY <1>2 DEF SumFunction
<1>4. SumFunctionOnSet(RefundsDue', D \ {c}) = SumFunctionOnSet(RefundsDue, D) - RefundsDue[c]
    BY <1>2, BooksTypes, SumLeave
<1> QED
    BY <1>2, <1>3, <1>4, BooksTypes

-----------------------------------------------------------------------------
\* The shares

LEMMA FactorCancels ==
    ASSUME NEW t \in Nat, t > 0, NEW x \in Int, NEW y \in Int, t * x <= t * y
    PROVE  x <= y
OBVIOUS

\* A market whose fee is settled and from which nobody has claimed.
NothingClaimed ==
    /\ TypeOK /\ PositiveBases /\ Activated /\ OneRate /\ NothingAboveGross
    /\ SumFunction(RefundsDue) = market.activation_contributed
    /\ market.activation_lp + SumFunction(LateLp) = market.gross_lp_total
    /\ lp_vault = market.lp_total + donated.lp

\* The shares are the whole of lp_total but for what rounding takes from each.
SharesFill ==
    /\ DOMAIN contribution # {}
    /\ OpenShares \in Nat
    /\ OpenShares <= market.lp_total
    /\ market.lp_total <= OpenShares + 2 * Cardinality(Contributors)

LEMMA NothingClaimedFills == NothingClaimed => SharesFill
<1> SUFFICES ASSUME NothingClaimed PROVE SharesFill
    OBVIOUS
<1> DEFINE D == DOMAIN contribution
           n == Cardinality(D)
           shares == [c \in D |-> Share(c)]
           L == market.lp_total
           A == market.activation_contributed
           M == market.activation_lp
           G == market.gross_lp_total
           sum == SumFunctionOnSet(shares, D)
<1>1. /\ TypeOK
      /\ L \in Nat /\ A \in Nat /\ M \in Nat /\ G \in Nat
      /\ A > 0 /\ L <= G /\ M <= G
    BY U64MaxAssumption
    DEF NothingClaimed, TypeOK, MarketAccount, U64, PositiveBases, NothingAboveGross
<1>2. /\ IsFiniteSet(D) /\ NatOn(RefundsDue, D) /\ NatOn(LateLp, D)
      /\ IntOn(RefundsDue, D) /\ IntOn(LateLp, D)
      /\ SumFunctionOnSet(RefundsDue, D) = A
      /\ M + SumFunctionOnSet(LateLp, D) = G
      /\ SumFunctionOnSet(LateLp, D) \in Nat
    BY <1>1, BooksTypes DEF NothingClaimed
<1>3. n \in Nat /\ Cardinality(Contributors) \in Nat /\ n <= Cardinality(Contributors)
    BY <1>1, <1>2, MarketAssumption, FS_Subset, FS_CardinalityType DEF TypeOK
<1>4. D # {}
    <2>1. D = {} => SumFunctionOnSet(RefundsDue, D) = 0
        BY SumEmpty
    <2>2. SumFunctionOnSet(RefundsDue, D) = A /\ A \in Nat /\ A > 0
        BY <1>1, <1>2
    <2> HIDE DEF A, D
    <2> QED
        BY <2>1, <2>2
<1>5. OpenShares = sum
    BY DEF OpenShares, SumFunction
<1>6. SUFFICES sum \in Nat /\ sum <= L /\ L <= sum + 2 * n
    <2>1. OpenShares \in Nat /\ OpenShares <= L /\ L <= OpenShares + 2 * n
        BY <1>5, <1>6
    <2> HIDE DEF n, L, D
    <2>2. L <= OpenShares + 2 * Cardinality(Contributors)
        BY <1>1, <1>3, <2>1
    <2> QED
        BY <1>4, <2>1, <2>2 DEF SharesFill, L, D
<1>7. CASE G = M
    <2>1. market.total_contributed = A
        BY <1>7 DEF NothingClaimed, OneRate
    <2>2. \A c \in D : shares[c] = (L * RefundsDue[c]) \div A
        BY <1>7, <2>1 DEF Share, ProRataShare, RefundsDue
    <2> HIDE DEF D, shares, L, A, M, G
    <2>3. /\ NatOn(shares, D)
          /\ A * sum <= L * A
          /\ L * A <= A * (sum + n)
        BY <1>1, <1>2, <2>2, SharesFit
    <2>4. sum \in Nat
        BY <1>2, <2>3, SumNat
    <2> HIDE DEF sum, n
    <2>5. L * A = A * L
        BY <1>1
    <2>6. sum <= L /\ L <= sum + n
        BY <1>1, <1>3, <2>3, <2>4, <2>5, FactorCancels
    <2> QED
        BY <1>1, <1>3, <2>4, <2>6
<1>8. CASE G # M
    <2> DEFINE base == [c \in D |-> (M * RefundsDue[c]) \div A]
               gross == [c \in D |-> base[c] + LateLp[c]]
               based == SumFunctionOnSet(base, D)
               late == SumFunctionOnSet(LateLp, D)
    <2>1. \A c \in D : /\ base[c] = (M * RefundsDue[c]) \div A
                       /\ gross[c] = base[c] + LateLp[c]
                       /\ gross[c] = GrossLp(c)
        BY DEF GrossLp, RefundsDue, LateLp
    <2>2. \A c \in D : shares[c] = (L * gross[c]) \div G
        BY <1>8, <2>1 DEF Share, GrossLpShare
    <2> HIDE DEF D, shares, L, A, M, G, base, gross
    <2>3. /\ NatOn(base, D) /\ IntOn(base, D)
          /\ A * based <= M * A
          /\ M * A <= A * (based + n)
        BY <1>1, <1>2, <2>1, SharesFit DEF NatOn, IntOn
    <2>4. based \in Nat /\ late \in Nat
        BY <1>2, <2>3, SumNat
    <2>5. SumFunctionOnSet(gross, D) = based + late
        BY <1>2, <2>1, <2>3, SumPlus
    <2>6. NatOn(gross, D)
        BY <1>2, <2>1, <2>3 DEF NatOn
    <2>7. /\ NatOn(shares, D)
          /\ G * sum <= L * (based + late)
          /\ L * (based + late) <= G * (sum + n)
        BY <1>1, <1>2, <1>8, <2>2, <2>5, <2>6, SharesFit
    <2>8. sum \in Nat
        BY <1>2, <2>7, SumNat
    <2> HIDE DEF sum, n, based, late
    <2>9. M * A = A * M
        BY <1>1
    <2>10. based <= M /\ M <= based + n
        BY <1>1, <1>3, <2>3, <2>4, <2>9, FactorCancels
    <2>11. based + late <= G /\ G <= based + late + n
        BY <1>1, <1>2, <1>3, <2>4, <2>10 DEF late
    <2>12. L * (based + late) <= L * G /\ L * G <= L * (based + late) + L * n
        BY <1>1, <1>3, <2>4, <2>11
    <2>13. L * n <= G * n
        BY <1>1, <1>3
    <2>14. G * (sum + n) + G * n = G * (sum + 2 * n)
        BY <1>1, <1>3, <2>8
    <2>15. /\ L * G = G * L
           /\ G * sum \in Int /\ G * (sum + n) \in Int /\ G * n \in Int /\ L * n \in Int
           /\ L * G \in Int /\ L * (based + late) \in Int
        BY <1>1, <1>3, <2>4, <2>8
    <2>16. G * sum <= G * L /\ G * L <= G * (sum + 2 * n)
        BY <2>7, <2>12, <2>13, <2>14, <2>15
    <2> QED
        BY <1>1, <1>3, <1>8, <2>8, <2>16, FactorCancels
<1> QED
    BY <1>7, <1>8

\* One share against the exact part, at one rate and with late liquidity.
LEMMA ProRataPart ==
    ASSUME NEW L \in Nat, NEW a \in Nat, NEW T \in Nat, T > 0, NEW g \in Nat,
           NEW share, share = (L * a) \div T
    PROVE  /\ share * (g * T) <= L * (g * a)
           /\ L * (g * a) < (share + 2) * (g * T) \/ g * T = 0
<1> DEFINE x == L * a
<1>1. x \in Nat
    OBVIOUS
<1>2. share \in Nat /\ T * share <= x /\ x < T * (share + 1)
    <2> HIDE DEF x
    <2>1. x \div T \in Nat /\ T * (x \div T) <= x /\ x < T * (x \div T + 1)
        BY <1>1, FloorBounds
    <2> QED
        BY <2>1 DEF x
<1>3. L * (g * a) = g * x
    OBVIOUS
<1>4. share * (g * T) = g * (T * share) /\ (share + 2) * (g * T) = g * (T * (share + 2))
    BY <1>2
<1>5. T * share \in Int /\ T * (share + 1) \in Int /\ T * (share + 2) \in Int
      /\ T * (share + 1) <= T * (share + 2)
    BY <1>2
<1> HIDE DEF x
<1> DEFINE y == T * share
           z == T * (share + 2)
<1>6. y \in Int /\ z \in Int /\ y <= x /\ x < z
    BY <1>1, <1>2, <1>5
<1> HIDE DEF y, z
<1>7. g * y <= g * x /\ (g > 0 => g * x < g * z)
    BY <1>1, <1>6
<1>8. g = 0 => g * T = 0
    OBVIOUS
<1> QED
    BY <1>3, <1>4, <1>7, <1>8 DEF y, z

LEMMA GrossPart ==
    ASSUME NEW L \in Nat, NEW M \in Nat, NEW a \in Nat, NEW A \in Nat, A > 0,
           NEW late \in Nat, NEW G \in Nat, G > 0, L <= G,
           NEW gross, gross = (M * a) \div A + late,
           NEW share, share = (L * gross) \div G
    PROVE  /\ share * (G * A) <= L * (M * a + A * late)
           /\ L * (M * a + A * late) < (share + 2) * (G * A)
<1> DEFINE x == M * a
           b == x \div A
           due == x + A * late
<1>1. x \in Nat
    OBVIOUS
<1>2. b \in Nat /\ A * b <= x /\ x < A * (b + 1)
    <2> HIDE DEF x
    <2> QED
        BY <1>1, FloorBounds
<1>3. gross = b + late
    OBVIOUS
<1> HIDE DEF x, b
<1>4. /\ gross \in Nat
      /\ A * gross = A * b + A * late
      /\ A * (gross + 1) = A * (b + 1) + A * late
      /\ A * late \in Nat /\ A * b \in Nat /\ A * (b + 1) \in Nat
    BY <1>2, <1>3
<1>5. due \in Nat /\ A * gross <= due /\ due < A * (gross + 1)
    BY <1>1, <1>2, <1>4
<1> HIDE DEF due
<1> DEFINE y == L * gross
<1>6. y \in Nat
    BY <1>4
<1>7. share \in Nat /\ G * share <= y /\ y < G * (share + 1)
    <2> HIDE DEF y
    <2>1. y \div G \in Nat /\ G * (y \div G) <= y /\ y < G * (y \div G + 1)
        BY <1>6, FloorBounds
    <2> QED
        BY <2>1 DEF y
<1> DEFINE s0 == G * share
           s1 == G * (share + 1)
<1>8. s0 \in Nat /\ s1 \in Nat /\ s0 <= y /\ y < s1
    BY <1>7
<1>9. /\ share * (G * A) = A * s0
      /\ (share + 2) * (G * A) = A * s1 + A * G
      /\ L * (A * gross) = A * y
      /\ L * (A * (gross + 1)) = A * y + A * L
    BY <1>4, <1>7
<1>10. /\ A * y \in Int /\ A * s0 \in Int /\ A * s1 \in Int /\ A * G \in Int /\ A * L \in Int
       /\ L * due \in Int
    BY <1>5, <1>6, <1>8
<1>11. L * (A * gross) <= L * due /\ L * due <= L * (A * (gross + 1))
    <2> DEFINE p == A * gross
               q == A * (gross + 1)
    <2>1. p \in Int /\ q \in Int /\ p <= due /\ due <= q
        BY <1>4, <1>5
    <2> HIDE DEF p, q
    <2>2. L * p <= L * due /\ L * due <= L * q
        BY <1>5, <2>1
    <2> QED
        BY <2>2 DEF p, q
<1> HIDE DEF y, s0, s1
<1>12. A * s0 <= A * y /\ A * y < A * s1 /\ A * L <= A * G
    BY <1>6, <1>8
<1> DEFINE Ld == L * due
           Ay == A * y
           AG == A * G
<1>13. Ay <= Ld /\ Ld <= Ay + A * L /\ Ay \in Int /\ Ld \in Int /\ AG \in Int
    BY <1>9, <1>10, <1>11
<1> HIDE DEF Ld, Ay, AG
<1>14. A * s0 <= Ld /\ Ld < A * s1 + AG
    BY <1>10, <1>12, <1>13 DEF Ay, AG
<1>15. share * (G * A) <= Ld /\ Ld < (share + 2) * (G * A)
    BY <1>9, <1>14 DEF AG
<1> QED
    BY <1>15 DEF Ld, due, x

LEMMA SharesProportional ==
    ASSUME TypeOK, PositiveBases, OneRate, NothingAboveGross
    PROVE  SharesAreProportional
<1> SUFFICES ASSUME SharesDue, NEW c \in DOMAIN contribution
             PROVE  LET minted == market.gross_lp_total * market.activation_contributed
                        due == market.lp_total
                                 * (market.activation_lp * contribution[c].amount
                                      + market.activation_contributed * contribution[c].late_lp)
                    IN  /\ Share(c) * minted <= due
                        /\ due < (Share(c) + 2) * minted \/ minted = 0
    BY DEF SharesAreProportional
<1> DEFINE L == market.lp_total
           A == market.activation_contributed
           M == market.activation_lp
           G == market.gross_lp_total
           a == contribution[c].amount
           late == contribution[c].late_lp
<1>1. /\ L \in Nat /\ A \in Nat /\ M \in Nat /\ G \in Nat
      /\ A > 0 /\ L <= G /\ M <= G /\ a \in Nat /\ late \in Nat
    BY U64MaxAssumption
    DEF SharesDue, TypeOK, MarketAccount, ContributionAccount, U64, PositiveBases,
        NothingAboveGross
<1>2. CASE G = M
    <2>1. market.total_contributed = A /\ late = 0
        BY <1>2 DEF SharesDue, OneRate
    <2>2. Share(c) = (L * a) \div A
        BY <1>2, <2>1 DEF Share, ProRataShare
    <2> HIDE DEF L, A, M, G, a, late
    <2>3. /\ Share(c) * (G * A) <= L * (G * a)
          /\ L * (G * a) < (Share(c) + 2) * (G * A) \/ G * A = 0
        BY <1>1, <2>2, ProRataPart
    <2>4. M * a + A * late = G * a
        BY <1>1, <1>2, <2>1
    <2> QED
        BY <2>3, <2>4 DEF L, A, M, G, a, late
<1>3. CASE G # M
    <2>1. GrossLp(c) = (M * a) \div A + late /\ Share(c) = (L * GrossLp(c)) \div G
        BY <1>3 DEF Share, GrossLpShare, GrossLp
    <2>2. G > 0
        BY <1>1, <1>3
    <2> HIDE DEF L, A, M, G, a, late
    <2>3. /\ Share(c) * (G * A) <= L * (M * a + A * late)
          /\ L * (M * a + A * late) < (Share(c) + 2) * (G * A)
        BY <1>1, <2>1, <2>2, GrossPart
    <2> QED
        BY <2>3 DEF L, A, M, G, a, late
<1> QED
    BY <1>2, <1>3

-----------------------------------------------------------------------------
\* The vaults step by step

LEMMA BackedInit == Init => Backed
<1> SUFFICES ASSUME Init PROVE Backed
    OBVIOUS
<1>1. /\ market.status = "None" /\ market.lp_total = 0 /\ market.gross_lp_total = 0
      /\ escrow = 0 /\ donated.kass = 0
    BY DEF Init, NoMarket
<1> QED
    BY <1>1 DEF Backed, BooksBalance, OneRate, FreshEscrow, NothingAboveGross, Activated,
        EscrowBacksRefunds, SharesCovered, NoShareStranded, SharesDue

\* The books and shares are read from the accounts alone.
LEMMA BackedUntouched ==
    ASSUME Backed, UNCHANGED <<market, contribution, escrow, lp_vault, donated>>,
           OraclePending' => OraclePending
    PROVE  Backed'
<1>1. /\ SumFunction(RefundsDue)' = SumFunction(RefundsDue)
      /\ SumFunction(LateLp)' = SumFunction(LateLp)
    BY DEF RefundsDue, LateLp
<1>2. OpenShares' = OpenShares
    BY DEF OpenShares, Share, ProRataShare, GrossLpShare, GrossLp
<1> QED
    BY <1>1, <1>2
    DEF Backed, BooksBalance, OneRate, FreshEscrow, NothingAboveGross, Activated,
        EscrowBacksRefunds, SharesCovered, NoShareStranded, SharesDue

LEMMA CreateMarketBacked ==
    ASSUME VaultInv, NEW c \in Contributors, NEW seed \in Contributions,
           CreateMarket(c, seed)
    PROVE  Backed'
<1>1. TypeOK /\ seed \in Nat
    BY MarketAssumption, U64MaxAssumption DEF U64, VaultInv, FeeInv, MarketInv
<1>2. /\ SumFunction(RefundsDue)' = SumFunction(RefundsDue) + seed
      /\ SumFunction(LateLp)' = SumFunction(LateLp) + 0
    BY <1>1, CreditSums DEF CreateMarket
<1>3. DOMAIN contribution = {}
    BY DEF VaultInv, FeeInv, MarketInv, BeginsClean, CreateMarket
<1>4. SumFunction(RefundsDue) = 0 /\ SumFunction(LateLp) = 0
    <2>1. /\ SumFunction(RefundsDue) = SumFunctionOnSet(RefundsDue, DOMAIN contribution)
          /\ SumFunction(LateLp) = SumFunctionOnSet(LateLp, DOMAIN contribution)
        BY <1>1, BooksTypes
    <2> QED
        BY <1>3, <2>1, SumEmpty
<1>5. escrow = donated.kass /\ donated.kass \in Nat
    BY <1>1, MarketAssumption DEF VaultInv, Backed, FreshEscrow, CreateMarket, TypeOK
<1>6. /\ market'.status = "Funding" /\ market'.total_contributed = seed
      /\ market'.activation_lp = 0 /\ market'.gross_lp_total = 0 /\ market'.lp_total = 0
      /\ escrow' = escrow + seed /\ donated' = donated
    BY DEF CreateMarket, NoMarket
<1> QED
    BY <1>1, <1>2, <1>4, <1>5, <1>6
    DEF Backed, BooksBalance, OneRate, FreshEscrow, NothingAboveGross, Activated,
        EscrowBacksRefunds, SharesCovered, NoShareStranded, SharesDue

LEMMA ContributeBacked ==
    ASSUME VaultInv, NEW c \in Contributors, NEW amount \in Contributions,
           Contribute(c, amount)
    PROVE  Backed'
<1>1. TypeOK /\ market \in MarketAccount /\ amount \in Nat
    BY MarketAssumption, U64MaxAssumption DEF U64, VaultInv, FeeInv, MarketInv, TypeOK
<1>2. /\ SumFunction(RefundsDue)' = SumFunction(RefundsDue) + amount
      /\ SumFunction(LateLp)' = SumFunction(LateLp) + 0
      /\ SumFunction(RefundsDue) \in Nat /\ SumFunction(LateLp) \in Nat
    BY <1>1, CreditSums, BooksTypes DEF Contribute, CanContribute
<1>3. /\ market.status = "Funding" /\ market'.status = "Funding"
      /\ market'.total_contributed = market.total_contributed + amount
      /\ market'.activation_lp = market.activation_lp
      /\ market'.gross_lp_total = market.gross_lp_total
      /\ market'.lp_total = market.lp_total
      /\ escrow' = escrow + amount /\ donated' = donated
    BY <1>1 DEF Contribute, CanContribute, MarketAccount
<1>4. donated.kass \in Nat /\ escrow \in Nat
    BY <1>1, MarketAssumption DEF TypeOK
<1> QED
    BY <1>1, <1>2, <1>3, <1>4
    DEF VaultInv, Backed, BooksBalance, OneRate, FreshEscrow, NothingAboveGross, Activated,
        EscrowBacksRefunds, SharesCovered, NoShareStranded, SharesDue

LEMMA AddLiquidityBacked ==
    ASSUME VaultInv, NEW c \in Contributors, NEW amount \in Contributions,
           NEW lp \in LpMints, AddLiquidity(c, amount, lp)
    PROVE  Backed'
<1>1. TypeOK /\ market \in MarketAccount /\ lp \in Nat /\ lp > 0
    BY MarketAssumption, U64MaxAssumption
    DEF U64, VaultInv, FeeInv, MarketInv, TypeOK, AddLiquidity, CanAddLiquidity
<1>2. /\ SumFunction(RefundsDue)' = SumFunction(RefundsDue) + 0
      /\ SumFunction(LateLp)' = SumFunction(LateLp) + lp
      /\ SumFunction(RefundsDue) \in Nat /\ SumFunction(LateLp) \in Nat
    BY <1>1, CreditSums, BooksTypes DEF AddLiquidity, CanAddLiquidity
<1>3. /\ market.status = "Active" /\ market'.status = "Active"
      /\ ~market.fee_collected /\ market'.fee_collected = market.fee_collected
      /\ market'.activation_contributed = market.activation_contributed
      /\ market'.activation_lp = market.activation_lp
      /\ market'.gross_lp_total = market.gross_lp_total + lp
      /\ market'.lp_total = market.lp_total + lp
    BY <1>1 DEF AddLiquidity, CanAddLiquidity, MarketAccount, VaultInv, FeeInv, MarketInv, FeeAfterVerdict
<1>4. /\ market.lp_total \in Nat /\ market.gross_lp_total \in Nat /\ market.activation_lp \in Nat
      /\ market.activation_lp <= market.gross_lp_total
    BY <1>1, <1>3, U64MaxAssumption
    DEF MarketAccount, U64, VaultInv, FeeInv, MarketInv, PositiveBases, Activated
<1>5. market'.gross_lp_total # market'.activation_lp
    BY <1>1, <1>3, <1>4
<1> QED
    BY <1>1, <1>2, <1>3, <1>4, <1>5
    DEF VaultInv, Backed, BooksBalance, OneRate, FreshEscrow, NothingAboveGross, Activated,
        EscrowBacksRefunds, SharesCovered, NoShareStranded, SharesDue

LEMMA CancelBacked ==
    ASSUME VaultInv, Cancel
    PROVE  Backed'
<1>1. market \in MarketAccount
    BY DEF VaultInv, FeeInv, MarketInv, TypeOK
<1>2. /\ market.status = "Funding" /\ market'.status = "Cancelled"
      /\ market'.gross_lp_total = market.gross_lp_total
      /\ market'.lp_total = market.lp_total
      /\ UNCHANGED <<contribution, escrow, donated>>
    BY <1>1 DEF Cancel, CanCancel, MarketAccount
<1>3. SumFunction(RefundsDue)' = SumFunction(RefundsDue)
    BY <1>2 DEF RefundsDue
<1> QED
    BY <1>2, <1>3
    DEF VaultInv, Backed, BooksBalance, OneRate, FreshEscrow, NothingAboveGross, Activated,
        EscrowBacksRefunds, SharesCovered, NoShareStranded, SharesDue

LEMMA RefundBacked ==
    ASSUME VaultInv, NEW c \in DOMAIN contribution, Refund(c)
    PROVE  Backed'
<1>1. TypeOK /\ MarketInv /\ Leave(c)
    BY DEF VaultInv, FeeInv, MarketInv, Refund, CanRefund
<1>2. /\ market.status = "Cancelled" /\ market'.status = "Cancelled"
      /\ market'.gross_lp_total = market.gross_lp_total
      /\ market'.lp_total = market.lp_total
      /\ escrow' = escrow - contribution[c].amount /\ donated' = donated
    BY <1>1, LeaveKeeps DEF Refund, CanRefund
<1>3. SumFunction(RefundsDue)' = SumFunction(RefundsDue) - contribution[c].amount
    BY <1>1, LeaveSums
<1>4. /\ SumFunction(RefundsDue) \in Nat /\ contribution[c].amount \in Nat
      /\ donated.kass \in Nat /\ escrow \in Nat
    BY <1>1, BooksTypes, U64MaxAssumption, MarketAssumption
    DEF TypeOK, ContributionAccount, U64
<1> QED
    BY <1>2, <1>3, <1>4
    DEF VaultInv, Backed, BooksBalance, OneRate, FreshEscrow, NothingAboveGross, Activated,
        EscrowBacksRefunds, SharesCovered, NoShareStranded, SharesDue

LEMMA ActivateBacked ==
    ASSUME VaultInv, NEW lp \in LpMints, Activate(lp)
    PROVE  Backed'
<1>1. TypeOK /\ market \in MarketAccount /\ lp \in Nat
    BY MarketAssumption, U64MaxAssumption DEF U64, VaultInv, FeeInv, MarketInv, TypeOK
<1>2. /\ market.status = "Funding" /\ market'.status = "Active"
      /\ ~market.fee_collected /\ market'.fee_collected = market.fee_collected
      /\ market'.total_contributed = market.total_contributed
      /\ market'.activation_contributed = market.total_contributed
      /\ market'.activation_lp = lp
      /\ market'.gross_lp_total = lp
      /\ market'.lp_total = lp
      /\ contribution' = contribution
    BY <1>1 DEF Activate, CanActivate, MarketAccount, VaultInv, FeeInv, MarketInv, FeeAfterVerdict
<1>3. /\ SumFunction(RefundsDue)' = SumFunction(RefundsDue)
      /\ SumFunction(LateLp)' = SumFunction(LateLp)
    BY <1>2 DEF RefundsDue, LateLp
<1>4. /\ SumFunction(RefundsDue) = market.total_contributed
      /\ SumFunction(LateLp) = 0
    <2>1. SumFunction(LateLp) \in Nat
        BY <1>1, BooksTypes
    <2> QED
        BY <1>2, <2>1 DEF VaultInv, Backed, FeeInv, MarketInv, BeginsClean, BooksBalance
<1>5. \A d \in DOMAIN contribution : contribution[d].late_lp = 0
    <2>1. \A d \in DOMAIN contribution : LateLp[d] \in Nat /\ LateLp[d] <= 0
        BY <1>1, <1>4, BooksTypes, SumOneOf DEF NatOn
    <2> QED
        BY <2>1 DEF LateLp
<1> QED
    BY <1>1, <1>2, <1>3, <1>4, <1>5
    DEF VaultInv, Backed, BooksBalance, OneRate, FreshEscrow, NothingAboveGross, Activated,
        EscrowBacksRefunds, SharesCovered, NoShareStranded, SharesDue

\* The moment the fee is settled, by resolve_market or collect_fee: nobody has
\* claimed yet, so the shares fill what is left.
LEMMA FeeSettledBacked ==
    ASSUME VaultInv, MarketInv', Activated, ~market.fee_collected, Activated',
           contribution' = contribution, donated' = donated,
           market'.total_contributed = market.total_contributed,
           market'.activation_lp = market.activation_lp,
           market'.activation_contributed = market.activation_contributed,
           market'.gross_lp_total = market.gross_lp_total,
           market'.lp_total <= market.lp_total,
           lp_vault' = market'.lp_total + donated.lp
    PROVE  Backed'
<1>1. /\ SumFunction(RefundsDue)' = SumFunction(RefundsDue)
      /\ SumFunction(LateLp)' = SumFunction(LateLp)
    BY DEF RefundsDue, LateLp
<1>2. BooksBalance' /\ OneRate'
    BY <1>1 DEF VaultInv, Backed, BooksBalance, OneRate, Activated
<1>3. TypeOK' /\ PositiveBases' /\ TypeOK
    BY DEF MarketInv, VaultInv, FeeInv
<1>4. NothingAboveGross'
    BY <1>3, U64MaxAssumption
    DEF VaultInv, Backed, NothingAboveGross, TypeOK, MarketAccount, U64
<1>5. NothingClaimed'
    <2>1. /\ SumFunction(RefundsDue) = market.activation_contributed
          /\ market.activation_lp + SumFunction(LateLp) = market.gross_lp_total
        BY DEF VaultInv, Backed, BooksBalance
    <2> QED
        BY <1>1, <1>2, <1>3, <1>4, <2>1 DEF NothingClaimed
<1>6. SharesFill'
    BY <1>5, NothingClaimedFills, PTL
<1>7. SharesCovered' /\ NoShareStranded'
    <2>1. /\ market'.lp_total \in Nat /\ donated.lp \in Nat
          /\ Cardinality(Contributors) \in Nat
        BY <1>3, U64MaxAssumption, MarketAssumption, FS_CardinalityType
        DEF TypeOK, MarketAccount, U64
    <2> QED
        BY <1>6, <2>1 DEF SharesFill, SharesCovered, NoShareStranded
<1>8. FreshEscrow' /\ EscrowBacksRefunds'
    BY DEF FreshEscrow, EscrowBacksRefunds, Activated
<1> QED
    BY <1>2, <1>4, <1>7, <1>8 DEF Backed

LEMMA ResolveMarketBacked ==
    ASSUME VaultInv, MarketInv', ResolveMarket
    PROVE  Backed'
<1>1. TypeOK /\ market \in MarketAccount /\ Activated /\ ~market.fee_collected
    BY DEF VaultInv, FeeInv, MarketInv, FeeAfterVerdict, TypeOK, Activated, ResolveMarket, CanResolveMarket
<1>2. lp_vault = market.lp_total + donated.lp
    BY <1>1 DEF VaultInv, FeeInv, MarketInv, NoClaimBeforeFee
<1>3. /\ market'.total_contributed = market.total_contributed
      /\ market'.lp_total = market.lp_total
      /\ market'.activation_lp = market.activation_lp
      /\ market'.activation_contributed = market.activation_contributed
      /\ market'.gross_lp_total = market.gross_lp_total
      /\ market'.status = Settled.status
      /\ UNCHANGED <<contribution, escrow, lp_vault, donated>>
    BY <1>1 DEF ResolveMarket, CanResolveMarket, MarketAccount
<1>4. Activated'
    BY <1>3 DEF Settled, Activated
<1>5. market'.lp_total <= market.lp_total
    BY <1>1, <1>3, U64MaxAssumption DEF MarketAccount, U64
<1> QED
    BY <1>1, <1>2, <1>3, <1>4, <1>5, FeeSettledBacked

LEMMA CollectFeeBacked ==
    ASSUME VaultInv, MarketInv', NEW realized \in PoolValues, CollectFee(realized)
    PROVE  Backed'
<1>1. /\ TypeOK /\ market \in MarketAccount /\ Activated /\ ~market.fee_collected
      /\ realized \in Nat
    BY MarketAssumption DEF VaultInv, FeeInv, MarketInv, TypeOK, Activated, CollectFee, CanCollectFee
<1>2. lp_vault = market.lp_total + donated.lp
    BY <1>1 DEF VaultInv, FeeInv, MarketInv, NoClaimBeforeFee
<1>3. /\ market'.total_contributed = market.total_contributed
      /\ market'.lp_total = market.lp_total - FeeLp(realized)
      /\ market'.activation_lp = market.activation_lp
      /\ market'.activation_contributed = market.activation_contributed
      /\ market'.gross_lp_total = market.gross_lp_total
      /\ market'.status = market.status
      /\ lp_vault' = lp_vault - FeeLp(realized)
      /\ UNCHANGED <<contribution, donated>>
    BY <1>1 DEF CollectFee, CanCollectFee, MarketAccount
<1>4. FeeLp(realized) \in Nat /\ market.lp_total \in Nat /\ donated.lp \in Nat
    BY <1>1, FeeBounds, U64MaxAssumption, MarketAssumption DEF TypeOK, MarketAccount, U64
<1>5. /\ market'.lp_total <= market.lp_total
      /\ lp_vault' = market'.lp_total + donated.lp
    BY <1>2, <1>3, <1>4
<1>6. Activated'
    BY <1>1, <1>3 DEF Activated
<1> QED
    BY <1>1, <1>3, <1>5, <1>6, FeeSettledBacked

\* A claim takes its own share out of the vault and out of the open shares;
\* the last one takes everything.
LEMMA ClaimLpBacked ==
    ASSUME VaultInv, NEW c \in DOMAIN contribution, ClaimLp(c)
    PROVE  Backed'
<1> DEFINE D == DOMAIN contribution
           shares == [d \in D |-> Share(d)]
<1>1. /\ TypeOK /\ MarketInv /\ Leave(c) /\ Activated /\ market.fee_collected /\ SharesDue
      /\ donated' = donated /\ lp_vault' = lp_vault - ClaimableLp(c)
    BY DEF VaultInv, FeeInv, MarketInv, ClaimLp, CanClaimLp, ClaimsOpen, SharesDue
<1>2. /\ market'.status = market.status /\ market'.fee_collected = market.fee_collected
      /\ market'.total_contributed = market.total_contributed
      /\ market'.lp_total = market.lp_total
      /\ market'.activation_lp = market.activation_lp
      /\ market'.activation_contributed = market.activation_contributed
      /\ market'.gross_lp_total = market.gross_lp_total
      /\ DOMAIN contribution' = D \ {c}
      /\ \A d \in D \ {c} : contribution'[d] = contribution[d]
    BY <1>1, LeaveKeeps, LeaveEffect
<1>3. \A d \in D : Share(d) \in Nat
    <2>1. /\ \A d \in D : contribution[d].amount \in Nat /\ contribution[d].late_lp \in Nat
          /\ market.lp_total \in Nat
        BY <1>1, U64MaxAssumption DEF TypeOK, ContributionAccount, MarketAccount, U64
    <2> QED
        BY <1>1, ShareTypes
<1>4. IsFiniteSet(D) /\ NatOn(shares, D) /\ IntOn(shares, D)
    BY <1>1, <1>3, FiniteContributions DEF NatOn, IntOn
<1>5. OpenShares = SumFunctionOnSet(shares, D)
    BY DEF OpenShares, SumFunction
<1>6. OpenShares' = OpenShares - Share(c)
    <2> DEFINE left == [d \in D \ {c} |-> Share(d)]
    <2>1. OpenShares' = SumFunctionOnSet(left, D \ {c})
        BY <1>2 DEF OpenShares, SumFunction, Share, ProRataShare, GrossLpShare, GrossLp
    <2>2. \A d \in D \ {c} : left[d] = shares[d]
        OBVIOUS
    <2>3. shares[c] = Share(c)
        OBVIOUS
    <2> HIDE DEF D, shares, left
    <2>4. SumFunctionOnSet(left, D \ {c}) = SumFunctionOnSet(shares, D) - shares[c]
        BY <1>4, <2>2, SumLeave DEF D
    <2> QED
        BY <1>5, <2>1, <2>3, <2>4
<1>7. /\ OpenShares \in Nat /\ Share(c) \in Nat /\ lp_vault \in Nat /\ donated.lp \in Nat
      /\ Cardinality(Contributors) \in Nat
    BY <1>1, <1>3, <1>4, <1>5, SumNat, MarketAssumption, FS_CardinalityType DEF TypeOK
<1>8. OpenShares <= lp_vault
    BY <1>1 DEF VaultInv, Backed, SharesCovered
<1>9. /\ Cardinality(DOMAIN contribution') = market.open_contributions - 1
       /\ market.open_contributions \in Nat
    BY <1>1, LeaveEffect, FiniteContributions DEF MarketInv, ContributionsCounted
<1>10. IsFiniteSet(DOMAIN contribution')
    BY <1>2, <1>4, FS_Subset
<1>11. CASE market.open_contributions = 1
    <2>1. lp_vault' = 0
        BY <1>1, <1>7, <1>11 DEF ClaimableLp
    <2>2. DOMAIN contribution' = {}
        <3>1. Cardinality(DOMAIN contribution') = 0
            BY <1>11, <1>9
        <3> QED
            BY <1>10, <3>1, FS_EmptySet
    <2>3. OpenShares' = 0
        <3>1. OpenShares' = SumFunctionOnSet([d \in DOMAIN contribution' |-> Share(d)'],
                                             DOMAIN contribution')
            BY DEF OpenShares, SumFunction
        <3> QED
            BY <2>2, <3>1, SumEmpty
    <2> QED
        BY <1>1, <1>2, <1>7, <2>1, <2>2, <2>3
        DEF Backed, VaultInv, BooksBalance, OneRate, FreshEscrow, NothingAboveGross, Activated,
            EscrowBacksRefunds, SharesCovered, NoShareStranded, SharesDue
<1>12. CASE market.open_contributions # 1
    <2>1. lp_vault' = lp_vault - Share(c)
        BY <1>1, <1>12 DEF ClaimableLp
    <2>2. DOMAIN contribution' # {}
        <3>1. DOMAIN contribution' = {} => Cardinality(DOMAIN contribution') = 0
            BY FS_EmptySet
        <3>2. Cardinality(DOMAIN contribution') # 0
            BY <1>9, <1>12
        <3> QED
            BY <3>1, <3>2, Zenon
    <2>3. D # {}
        OBVIOUS
    <2>4. lp_vault - OpenShares <= donated.lp + 2 * Cardinality(Contributors)
        BY <1>1, <2>3 DEF VaultInv, Backed, NoShareStranded
    <2>5. SharesCovered' /\ NoShareStranded'
        BY <1>1, <1>6, <1>7, <1>8, <2>1, <2>2, <2>4 DEF SharesCovered, NoShareStranded
    <2> QED
        BY <1>1, <1>2, <2>5
        DEF Backed, VaultInv, BooksBalance, OneRate, FreshEscrow, NothingAboveGross, Activated,
            EscrowBacksRefunds
<1> QED
    BY <1>11, <1>12

LEMMA CloseMarketBacked ==
    ASSUME VaultInv, CloseMarket
    PROVE  Backed'
<1>1. ~OraclePending /\ verdict' = verdict
    BY DEF VaultInv, FeeInv, MarketInv, StatusFollowsOracle, CloseMarket, CanCloseMarket
<1>2. market'.status = "None" /\ market'.lp_total = 0 /\ market'.gross_lp_total = 0
    BY DEF CloseMarket, CanCloseMarket, NoMarket
<1> QED
    BY <1>1, <1>2
    DEF Backed, BooksBalance, OneRate, FreshEscrow, OraclePending, NothingAboveGross, Activated,
        EscrowBacksRefunds, SharesCovered, NoShareStranded, SharesDue

LEMMA DonateBacked ==
    ASSUME VaultInv, DonateKass \/ DonateLp
    PROVE  Backed'
<1>1. /\ TypeOK /\ donated.kass \in Nat /\ donated.lp \in Nat
      /\ escrow \in Nat /\ lp_vault \in Nat /\ Cardinality(Contributors) \in Nat
    BY MarketAssumption, FS_CardinalityType DEF VaultInv, FeeInv, MarketInv, TypeOK
<1>2. UNCHANGED <<verdict, config, market, contribution, payout>>
    BY DEF DonateKass, DonateLp
<1>3. /\ SumFunction(RefundsDue)' = SumFunction(RefundsDue)
      /\ SumFunction(LateLp)' = SumFunction(LateLp)
      /\ SumFunction(RefundsDue) \in Nat
    BY <1>1, <1>2, BooksTypes DEF RefundsDue, LateLp
<1>4. OpenShares' = OpenShares
    BY <1>2 DEF OpenShares, Share, ProRataShare, GrossLpShare, GrossLp
<1>5. BooksBalance' /\ OneRate' /\ NothingAboveGross'
    BY <1>2, <1>3 DEF VaultInv, Backed, BooksBalance, OneRate, NothingAboveGross, Activated
<1>6. CASE DonateKass
    <2>1. /\ escrow' = escrow + 1 /\ donated'.kass = donated.kass + 1
          /\ donated'.lp = donated.lp /\ lp_vault' = lp_vault
          /\ market.status # "None"
        BY <1>1, <1>6 DEF DonateKass, TypeOK
    <2>2. EscrowBacksRefunds' /\ FreshEscrow'
        BY <1>1, <1>2, <1>3, <2>1 DEF VaultInv, Backed, EscrowBacksRefunds, FreshEscrow
    <2> QED
        BY <1>2, <1>4, <1>5, <2>1, <2>2
        DEF VaultInv, Backed, SharesCovered, NoShareStranded, SharesDue, Activated
<1>7. CASE DonateLp
    <2>1. /\ escrow' = escrow /\ donated'.kass = donated.kass
          /\ donated'.lp = donated.lp + 1 /\ lp_vault' = lp_vault + 1 /\ Activated
        BY <1>1, <1>7 DEF DonateLp, TypeOK
    <2>2. EscrowBacksRefunds' /\ FreshEscrow'
        BY <1>2, <2>1 DEF EscrowBacksRefunds, FreshEscrow, Activated
    <2>3. SharesDue => OpenShares \in Int
        <3> SUFFICES ASSUME SharesDue PROVE OpenShares \in Int
            OBVIOUS
        <3>1. \A d \in DOMAIN contribution : Share(d) \in Nat
            BY <1>1, ShareTypes DEF SharesDue, VaultInv, FeeInv, MarketInv
        <3> DEFINE shares == [d \in DOMAIN contribution |-> Share(d)]
        <3>2. IntOn(shares, DOMAIN contribution)
            BY <3>1 DEF IntOn
        <3>3. OpenShares = SumFunctionOnSet(shares, DOMAIN contribution)
            BY DEF OpenShares, SumFunction
        <3> HIDE DEF shares
        <3> QED
            BY <1>1, <3>2, <3>3, FiniteContributions, SumInt
    <2>4. SharesCovered' /\ NoShareStranded'
        BY <1>1, <1>2, <1>4, <2>1, <2>3
        DEF VaultInv, Backed, SharesCovered, NoShareStranded, SharesDue, Activated
    <2> QED
        BY <1>5, <2>2, <2>4 DEF Backed
<1> QED
    BY <1>6, <1>7

LEMMA BackedStep == VaultInv /\ MarketInv' /\ [Next]_marketVars => Backed'
<1> SUFFICES ASSUME VaultInv, MarketInv', [Next]_marketVars PROVE Backed'
    OBVIOUS
<1>1. ASSUME UNCHANGED <<market, contribution, escrow, lp_vault, donated>>,
             OraclePending' => OraclePending
      PROVE  Backed'
    BY <1>1, BackedUntouched DEF VaultInv
<1>2. ASSUME NEW c \in Configs, UpdateConfig(c) PROVE Backed'
    BY <1>1, <1>2 DEF UpdateConfig, OraclePending
<1>3. ASSUME NEW c \in Contributors, NEW amount \in Contributions,
             CreateMarket(c, amount)
      PROVE  Backed'
    BY <1>3, CreateMarketBacked
<1>4. ASSUME NEW c \in Contributors, NEW amount \in Contributions,
             Contribute(c, amount)
      PROVE  Backed'
    BY <1>4, ContributeBacked
<1>5. ASSUME NEW c \in Contributors, NEW amount \in Contributions, NEW lp \in LpMints,
             AddLiquidity(c, amount, lp)
      PROVE  Backed'
    BY <1>5, AddLiquidityBacked
<1>6. ASSUME NEW lp \in LpMints, Activate(lp) PROVE Backed'
    BY <1>6, ActivateBacked
<1>7. ASSUME NEW realized \in PoolValues, CollectFee(realized) PROVE Backed'
    BY <1>7, CollectFeeBacked
<1>8. ASSUME NEW c \in DOMAIN contribution, Refund(c) PROVE Backed'
    BY <1>8, RefundBacked
<1>9. ASSUME NEW c \in DOMAIN contribution, ClaimLp(c) PROVE Backed'
    BY <1>9, ClaimLpBacked
<1>10. CASE Cancel
    BY <1>10, CancelBacked
<1>11. CASE ResolveMarket
    BY <1>11, ResolveMarketBacked
<1>12. CASE CloseMarket
    BY <1>12, CloseMarketBacked
<1>13. CASE DonateKass \/ DonateLp
    BY <1>13, DonateBacked
<1>14. CASE OracleMoves
    <2>1. verdict'.status # "Pending"
        BY <1>14, OracleMoved DEF VaultInv, FeeInv, MarketInv, TypeOK
    <2> QED
        BY <1>1, <1>14, <2>1 DEF OracleMoves, OraclePending
<1>15. CASE UNCHANGED marketVars
    BY <1>1, <1>15 DEF marketVars, OraclePending
<1> QED
    BY <1>2, <1>3, <1>4, <1>5, <1>6, <1>7, <1>8, <1>9, <1>10, <1>11, <1>12,
       <1>13, <1>14, <1>15
    DEF Next

LEMMA VaultInvariant == MarketSpec => []VaultInv
<1>1. Init => VaultInv
    BY FeeInvInit, BackedInit DEF VaultInv
<1>2. VaultInv /\ [Next]_marketVars => VaultInv'
    <2>1. VaultInv => FeeInv
        BY DEF VaultInv
    <2>2. FeeInv' => MarketInv'
        BY DEF FeeInv
    <2>3. FeeInv' /\ Backed' => VaultInv'
        BY DEF VaultInv
    <2> QED
        BY <2>1, <2>2, <2>3, FeeInvStep, BackedStep
<1> QED
    BY <1>1, <1>2, PTL DEF MarketSpec

\* Refunds and LP shares are owed and held in equal measure in every market:
\* the escrow covers every refund to the unit, the LP vault every open share,
\* and less than two units per contributor stay behind (refund.rs, claim_lp.rs).
THEOREM VaultsPayEverybody == MarketSpec => []VaultsCoverClaims
<1>1. VaultInv => VaultsCoverClaims
    BY DEF VaultInv, Backed, VaultsCoverClaims
<1> QED
    BY <1>1, VaultInvariant, PTL

\* No rounding, fee or late deposit shifts LP tokens between contributors by
\* more than two units, for all amounts (claim_lp.rs, gross_lp).
THEOREM SharesAreFair == MarketSpec => []SharesAreProportional
<1>1. VaultInv => SharesAreProportional
    BY SharesProportional DEF VaultInv, Backed, FeeInv, MarketInv
<1> QED
    BY <1>1, VaultInvariant, PTL

-----------------------------------------------------------------------------
\* What the market page promises

\* What is shown and what is paid, times the LP tokens there were before the fee:
\* L after the fee of g before it, for the amount a of t contributed.
LEMMA ShownProRata ==
    ASSUME NEW L \in Nat, NEW a \in Nat, NEW t \in Nat, t > 0, NEW g \in Nat, L <= g,
           NEW share, share = (L * a) \div t, NEW shown, shown = (a * g) \div t
    PROVE  share * g <= shown * L + g /\ shown * L <= share * g + g
<1> DEFINE x == L * a
           y == a * g
<1>1. x \in Nat /\ y \in Nat
    OBVIOUS
<1>2. /\ share \in Nat /\ t * share <= x /\ x <= t * (share + 1)
      /\ shown \in Nat /\ t * shown <= y /\ y <= t * (shown + 1)
  <2> HIDE DEF x, y
  <2>1. /\ x \div t \in Nat /\ t * (x \div t) <= x /\ x < t * (x \div t + 1)
        /\ y \div t \in Nat /\ t * (y \div t) <= y /\ y < t * (y \div t + 1)
      BY <1>1, FloorBounds
  <2>2. share = x \div t /\ shown = y \div t
      BY DEF x, y
  <2>3. t * (x \div t + 1) \in Nat /\ t * (y \div t + 1) \in Nat
      BY <2>1
  <2> QED
      BY <1>1, <2>1, <2>2, <2>3
<1> HIDE DEF x, y
<1> DEFINE xl == t * share
           xh == t * (share + 1)
           yl == t * shown
           yh == t * (shown + 1)
<1>3. xl \in Nat /\ xh \in Nat /\ yl \in Nat /\ yh \in Nat
    BY <1>2
<1>4. xl <= x /\ x <= xh /\ yl <= y /\ y <= yh
    BY <1>2
<1> HIDE DEF xl, xh, yl, yh
<1>5. g * xl <= g * x /\ g * x <= g * xh /\ L * yl <= L * y /\ L * y <= L * yh
    BY <1>1, <1>3, <1>4
<1>6. g * x = L * y
    BY DEF x, y
<1>7. /\ g * xl = t * (share * g) /\ g * xh = t * (share * g + g)
      /\ L * yl = t * (shown * L) /\ L * yh = t * (shown * L + L)
    BY <1>2 DEF xl, xh, yl, yh
<1>8. g * x \in Nat /\ g * xl \in Nat /\ g * xh \in Nat /\ L * y \in Nat /\ L * yl \in Nat /\ L * yh \in Nat
    BY <1>1, <1>3
<1>9. g * xl <= L * yh /\ L * yl <= g * xh
    BY <1>5, <1>6, <1>8
<1> DEFINE p == share * g
           q == shown * L
<1>10. p \in Nat /\ q \in Nat
    BY <1>2
<1>11. t * p <= t * (q + L) /\ t * q <= t * (p + g)
    BY <1>7, <1>9
<1> HIDE DEF p, q
<1>12. p <= q + L /\ q <= p + g
    BY <1>10, <1>11, CancelFactor
<1> QED
    BY <1>10, <1>12 DEF p, q

LEMMA ShownGross ==
    ASSUME NEW L \in Nat, NEW shown \in Nat, NEW g \in Nat, g > 0,
           NEW share, share = (L * shown) \div g
    PROVE  share * g <= shown * L + g /\ shown * L <= share * g + g
<1> DEFINE x == L * shown
<1>1. x \in Nat /\ x = shown * L
    OBVIOUS
<1> HIDE DEF x
<1>2. x \div g \in Nat /\ g * (x \div g) <= x /\ x < g * (x \div g + 1)
    BY <1>1, FloorBounds
<1>3. share = x \div g
    BY DEF x
<1>4. share \in Nat /\ g * share = share * g /\ g * (share + 1) = share * g + g
    BY <1>2, <1>3
<1>5. share * g \in Nat
    BY <1>4
<1> QED
    BY <1>1, <1>2, <1>3, <1>4, <1>5

\* The position that the market page shows a contributor, whose formula is the
\* app's own, is what claim_lp pays it to within one unit of rounding, for all
\* amounts, fees and late deposits (marketView.ts, claim_lp.rs).
THEOREM PositionStaysHonest == MarketSpec => []PositionIsHonest
<1>1. VaultInv => PositionIsHonest
  <2> SUFFICES ASSUME VaultInv, SharesDue, NEW c \in DOMAIN contribution,
                      market.gross_lp_total > 0
               PROVE  /\ Share(c) * market.gross_lp_total
                          <= contributorLp(c) * market.lp_total + market.gross_lp_total
                      /\ contributorLp(c) * market.lp_total
                          <= Share(c) * market.gross_lp_total + market.gross_lp_total
      BY DEF PositionIsHonest
  <2> DEFINE L == market.lp_total
             A == market.activation_contributed
             M == market.activation_lp
             G == market.gross_lp_total
             a == contribution[c].amount
             late == contribution[c].late_lp
             shown == contributorLp(c)
  <2>1. /\ TypeOK /\ PositiveBases /\ NothingAboveGross /\ OneRate
      BY DEF VaultInv, FeeInv, MarketInv, Backed
  <2>2. /\ L \in Nat /\ A \in Nat /\ M \in Nat /\ G \in Nat
        /\ A > 0 /\ L <= G /\ a \in Nat /\ late \in Nat
      BY <2>1, U64MaxAssumption
      DEF SharesDue, TypeOK, MarketAccount, ContributionAccount, U64, PositiveBases,
          NothingAboveGross
  <2>3. shown = (a * M) \div A + late
      BY <2>2 DEF contributorLp
  <2>4. CASE G = M
    <3>1. market.total_contributed = A /\ late = 0
        BY <2>1, <2>4 DEF SharesDue, OneRate
    <3>2. Share(c) = (L * a) \div A
        BY <2>4, <3>1 DEF Share, ProRataShare
    <3> HIDE DEF L, A, M, G, a, late, shown
    <3>3. (a * M) \div A \in Int
        BY <2>2
    <3>4. shown = (a * G) \div A
        BY <2>3, <2>4, <3>1, <3>3
    <3>5. Share(c) * G <= shown * L + G /\ shown * L <= Share(c) * G + G
        BY <2>2, <3>2, <3>4, ShownProRata
    <3> QED
        BY <3>5 DEF L, G, shown
  <2>5. CASE G # M
    <3>1. Share(c) = (L * GrossLp(c)) \div G /\ GrossLp(c) = (M * a) \div A + late
        BY <2>5 DEF Share, GrossLpShare, GrossLp
    <3> HIDE DEF L, A, M, G, a, late, shown
    <3>2. M * a = a * M /\ M * a \in Nat
        BY <2>2
    <3>3. GrossLp(c) = shown
        BY <2>3, <3>1, <3>2
    <3>4. shown \in Nat
        BY <2>2, <2>3, <3>2, FloorBounds
    <3>5. G > 0
        BY DEF G
    <3>6. Share(c) * G <= shown * L + G /\ shown * L <= Share(c) * G + G
        BY <2>2, <3>1, <3>3, <3>4, <3>5, ShownGross
    <3> QED
        BY <3>6 DEF L, G, shown
  <2> QED
      BY <2>4, <2>5
<1> QED
    BY <1>1, VaultInvariant, PTL

\* A market that is settled is not active any more, and one whose fee is still
\* to be cut was created under one.
SettledOnce ==
    /\ market.settled => market.status \in {"Resolved", "Void"}
    /\ market.status \in {"Resolved", "Void"} /\ ~market.fee_collected =>
        market.fee_bps > 0

\* A step that leaves the market's settlement alone.
SettlementUntouched ==
    /\ market'.settled = market.settled
    /\ market'.status = market.status
    /\ market'.fee_collected = market.fee_collected
    /\ market'.fee_bps = market.fee_bps

PageInv == VaultInv /\ SettledOnce

LEMMA SettledOnceStep ==
    ASSUME TypeOK, SettledOnce, [Next]_marketVars
    PROVE  SettledOnce'
<1>1. market \in MarketAccount
    BY DEF TypeOK
<1>2. SettlementUntouched => SettledOnce'
    BY DEF SettlementUntouched, SettledOnce
<1>3. ASSUME NEW c \in Configs, UpdateConfig(c) PROVE SettledOnce'
    BY <1>2, <1>3 DEF UpdateConfig, SettlementUntouched
<1>4. ASSUME NEW c \in Contributors, NEW amount \in Contributions,
             CreateMarket(c, amount)
      PROVE  SettledOnce'
    BY <1>4 DEF CreateMarket, NoMarket, SettledOnce
<1>5. ASSUME NEW c \in Contributors, NEW amount \in Contributions, Contribute(c, amount)
      PROVE  SettledOnce'
    BY <1>1, <1>2, <1>5 DEF Contribute, MarketAccount, SettlementUntouched
<1>6. ASSUME NEW c \in Contributors, NEW amount \in Contributions, NEW lp \in LpMints,
             AddLiquidity(c, amount, lp)
      PROVE  SettledOnce'
    BY <1>1, <1>2, <1>6 DEF AddLiquidity, MarketAccount, SettlementUntouched
<1>7. ASSUME NEW lp \in LpMints, Activate(lp) PROVE SettledOnce'
    BY <1>1, <1>7 DEF Activate, CanActivate, MarketAccount, SettledOnce
<1>8. ASSUME NEW realized \in PoolValues, CollectFee(realized) PROVE SettledOnce'
    BY <1>1, <1>8 DEF CollectFee, MarketAccount, SettledOnce
<1>9. ASSUME NEW c \in DOMAIN contribution, Leave(c) PROVE SettledOnce'
    BY <1>1, <1>2, <1>9 DEF Leave, MarketAccount, SettlementUntouched
<1>10. CASE Cancel
    BY <1>1, <1>10 DEF Cancel, CanCancel, MarketAccount, SettledOnce
<1>11. CASE ResolveMarket
    <2>1. /\ market'.status \in {"Resolved", "Void"}
          /\ ~market'.fee_collected => market.fee_bps # 0
          /\ market'.fee_bps = market.fee_bps
        BY <1>1, <1>11 DEF ResolveMarket, Settled, MarketAccount
    <2>2. market.fee_bps \in Nat
        BY <1>1, FeeTypes
    <2> QED
        BY <2>1, <2>2 DEF SettledOnce
<1>12. CASE CloseMarket
    BY <1>12 DEF CloseMarket, NoMarket, SettledOnce
<1>13. CASE DonateKass \/ DonateLp \/ OracleMoves \/ UNCHANGED marketVars
    BY <1>2, <1>13 DEF DonateKass, DonateLp, OracleMoves, marketVars, SettlementUntouched
<1> QED
    BY <1>3, <1>4, <1>5, <1>6, <1>7, <1>8, <1>9, <1>10, <1>11, <1>12, <1>13
    DEF Next, Refund, ClaimLp

LEMMA PageInvariant == MarketSpec => []PageInv
<1>1. Init => SettledOnce
    BY DEF Init, NoMarket, SettledOnce
<1>2. VaultInv /\ SettledOnce /\ [Next]_marketVars => SettledOnce'
    BY SettledOnceStep DEF VaultInv, FeeInv, MarketInv
<1> QED
    BY <1>1, <1>2, VaultInvariant, PTL DEF MarketSpec, PageInv

\* Whatever the program accepts, the page offers.
LEMMA NothingWithheld == PageInv => AcceptedIsOffered
<1> SUFFICES ASSUME PageInv,
                    NEW wallet \in Contributors, NEW isGrouped \in BOOLEAN,
                    NEW a \in Cranks \cup Transfers, Accepted(a, wallet),
                    ~(a = "contribute" /\ isGrouped)
             PROVE  a \in Offered(wallet, isGrouped)
    BY DEF AcceptedIsOffered
<1>1. TypeOK /\ ContributionsCounted /\ SettledOnce /\ FeeAfterVerdict
    BY DEF PageInv, VaultInv, FeeInv, MarketInv
<1>2. market.total_contributed \in Nat /\ market.min_liquidity \in Nat
    BY <1>1, U64MaxAssumption DEF TypeOK, MarketAccount, U64
<1>3. CASE a = "activate"
    BY <1>2, <1>3
    DEF Accepted, CanActivate, OraclePending, Offered, MarketLifecycleActions,
        fundingActions, funded, oracleTerminal, OracleTerminal, Cranks
<1>4. CASE a = "cancel"
    BY <1>4
    DEF Accepted, CanCancel, Offered, MarketLifecycleActions, fundingActions,
        oracleTerminal, Cranks
<1>5. CASE a = "resolve_market"
    BY <1>5
    DEF Accepted, CanResolveMarket, Offered, MarketLifecycleActions, oracleTerminal, Cranks
<1>6. CASE a = "collect_fee"
  <2>1. PICK realized \in PoolValues : CanCollectFee(realized)
      BY <1>6, MarketAssumption DEF Accepted
  <2> QED
      BY <1>1, <1>6, <2>1
      DEF CanCollectFee, Offered, MarketLifecycleActions, showCollectFee, SettledOnce,
          Cranks
<1>7. CASE a = "close_market"
    BY <1>7
    DEF Accepted, CanCloseMarket, Offered, MarketLifecycleActions, canClose, Cranks
<1>8. CASE a = "contribute"
    BY <1>8 DEF Accepted, CanContribute, Offered, MarketLiquidityActions, Transfers
<1>9. CASE a = "add_liquidity"
    BY <1>9 DEF Accepted, CanAddLiquidity, Offered, MarketLiquidityActions, Transfers
<1>10. CASE a = "claim_lp"
    <2>1. wallet \in DOMAIN contribution /\ market.fee_collected /\ Activated
        BY <1>10 DEF Accepted, CanClaimLp, ClaimsOpen
    <2> QED
        BY <1>10, <2>1
        DEF Offered, MarketLiquidityActions, claimShown, Activated, Transfers
<1>11. CASE a = "refund"
    <2>1. wallet \in DOMAIN contribution /\ market.status = "Cancelled"
        BY <1>11 DEF Accepted, CanRefund
    <2>2. market.open_contributions # 0
        BY <1>1, <2>1, FiniteContributions, FS_EmptySet DEF ContributionsCounted
    <2>3. market.open_contributions \in Nat
        BY <1>1, MarketAssumption DEF TypeOK, MarketAccount
    <2> QED
        BY <1>11, <2>1, <2>2, <2>3 DEF Offered, MarketLiquidityActions, Transfers
<1> QED
    BY <1>3, <1>4, <1>5, <1>6, <1>7, <1>8, <1>9, <1>10, <1>11 DEF Cranks, Transfers

\* The cranks the page offers go through.
LEMMA CranksGoThrough ==
    ASSUME PageInv, NEW wallet, NEW a \in MarketLifecycleActions
    PROVE  Accepted(a, wallet) \/ (a = "activate" /\ verdict.status = "Swept")
<1>1. /\ TypeOK /\ BooksBalance /\ EscrowBacksRefunds /\ SettledOnce
      /\ NoClaimBeforeFee /\ FeeAfterVerdict
    BY DEF PageInv, VaultInv, Backed, FeeInv, MarketInv
<1>2. /\ market.total_contributed \in Nat /\ market.min_liquidity \in Nat
      /\ market.lp_total \in Nat /\ donated.kass \in Nat /\ donated.lp \in Nat
    BY <1>1, U64MaxAssumption, MarketAssumption DEF TypeOK, MarketAccount, U64
<1>3. CASE market.status = "Funding"
    <2>1. \/ a = "activate" /\ funded /\ ~OracleTerminal
          \/ a = "cancel" /\ OracleTerminal
        BY <1>3
        DEF MarketLifecycleActions, fundingActions, oracleTerminal
    <2>2. market.total_contributed <= escrow
        BY <1>1, <1>2, <1>3 DEF BooksBalance, EscrowBacksRefunds
    <2>3. verdict.status \in {"Pending", "Resolved", "InvalidDeadend", "Swept"}
        BY <1>1 DEF TypeOK, Oracle!Verdicts
    <2>4. CASE a = "activate" /\ funded /\ ~OracleTerminal
        <3>1. market.total_contributed >= market.min_liquidity
            BY <1>2, <2>4 DEF funded
        <3>2. verdict.status # "Swept" => CanActivate
            BY <1>3, <2>2, <2>3, <2>4, <3>1 DEF CanActivate, OracleTerminal, OraclePending
        <3> QED
            BY <2>4, <3>2 DEF Accepted
    <2>5. CASE a = "cancel" /\ OracleTerminal
        BY <1>3, <2>5 DEF Accepted, CanCancel
    <2> QED
        BY <2>1, <2>4, <2>5
<1>4. CASE market.status = "Active"
    BY <1>1, <1>4
    DEF MarketLifecycleActions, oracleTerminal, Accepted, CanResolveMarket, SettledOnce
<1>5. CASE market.status \in {"Resolved", "Void"}
    <2>1. \/ a = "collect_fee" /\ ~market.fee_collected
          \/ a = "close_market" /\ canClose
        BY <1>5 DEF MarketLifecycleActions, showCollectFee
    <2>2. CASE a = "collect_fee" /\ ~market.fee_collected
        <3>1. SUFFICES ASSUME NEW realized \in PoolValues PROVE CanCollectFee(realized)
            BY <2>2 DEF Accepted
        <3>2. FeeLp(realized) \in Nat /\ FeeLp(realized) <= market.lp_total
            BY <1>1, <3>1, MarketAssumption, FeeBounds
        <3>3. lp_vault = market.lp_total + donated.lp
            BY <1>1, <1>5, <2>2 DEF NoClaimBeforeFee, Activated
        <3>4. FeeLp(realized) <= lp_vault
            BY <1>2, <3>2, <3>3
        <3> QED
            BY <1>5, <2>2, <3>4 DEF CanCollectFee
    <2>3. CASE a = "close_market" /\ canClose
        BY <1>5, <2>3 DEF Accepted, CanCloseMarket, canClose
    <2> QED
        BY <2>1, <2>2, <2>3
<1>6. CASE market.status = "Cancelled"
    BY <1>6 DEF MarketLifecycleActions, Accepted, CanCloseMarket, canClose
<1>7. CASE market.status \notin {"Funding", "Active", "Resolved", "Void", "Cancelled"}
    BY <1>7 DEF MarketLifecycleActions
<1> QED
    BY <1>3, <1>4, <1>5, <1>6, <1>7

\* So do the forms of the contributors, as far as an amount fits.
LEMMA FormsGoThrough ==
    ASSUME PageInv, NEW wallet \in Contributors,
           NEW a \in MarketLiquidityActions(wallet, FALSE)
    PROVE  \/ Accepted(a, wallet)
           \/ a = "add_liquidity" /\ ~OraclePending
           \/ a = "refund" /\ wallet \notin DOMAIN contribution
           \/ a \in {"contribute", "add_liquidity"} /\ Full(wallet)
<1>1. /\ MarketInv /\ TypeOK /\ EscrowBacksRefunds /\ SharesCovered /\ NothingAboveGross
      /\ FeeAfterVerdict
    BY DEF PageInv, VaultInv, Backed, FeeInv, MarketInv
<1>2. /\ market.total_contributed \in Nat /\ market.lp_total \in Nat
      /\ market.gross_lp_total \in Nat /\ market.open_contributions \in Nat
      /\ NewlyOpen(wallet) \in Nat /\ U16_MAX \in Nat
      /\ donated.kass \in Nat /\ lp_vault \in Nat
    BY <1>1, U64MaxAssumption, MarketAssumption DEF TypeOK, MarketAccount, U64, NewlyOpen
<1>3. CASE a = "contribute"
    <2>1. market.status = "Funding"
        BY <1>3 DEF MarketLiquidityActions
    <2> QED
        BY <1>2, <1>3, <2>1 DEF Accepted, CanContribute, Full
<1>4. CASE a = "add_liquidity"
    <2>1. market.status = "Active"
        BY <1>4 DEF MarketLiquidityActions
    <2> SUFFICES ASSUME OraclePending, ~Full(wallet) PROVE Accepted(a, wallet)
        BY <1>4
    <2>2. PICK amount \in Contributions, lp \in LpMints \ {0} :
            /\ market.total_contributed + amount \in U64
            /\ market.gross_lp_total + lp \in U64
        BY DEF Full
    <2>3. lp \in Nat /\ lp > 0 /\ market.lp_total <= market.gross_lp_total
        BY <1>1, <2>2, U64MaxAssumption, MarketAssumption DEF U64, NothingAboveGross
    <2>4. market.lp_total + lp \in U64
        BY <1>2, <2>2, <2>3, U64MaxAssumption DEF U64
    <2>5. market.open_contributions + NewlyOpen(wallet) <= U16_MAX
        BY <1>2 DEF Full
    <2>6. CanAddLiquidity(wallet, amount, lp)
        BY <2>1, <2>2, <2>3, <2>4, <2>5 DEF CanAddLiquidity
    <2> QED
        BY <1>4, <2>2, <2>6 DEF Accepted
<1>5. CASE a = "claim_lp"
    <2>1. wallet \in DOMAIN contribution /\ market.fee_collected /\ Activated
        BY <1>5 DEF MarketLiquidityActions, claimShown, Activated
    <2>2. \A c \in DOMAIN contribution : Share(c) \in Nat
        BY <1>1, <2>1, ShareTypes
    <2> DEFINE shares == [c \in DOMAIN contribution |-> Share(c)]
    <2>3. NatOn(shares, DOMAIN contribution) /\ shares[wallet] = Share(wallet)
        BY <2>1, <2>2 DEF NatOn
    <2>4. OpenShares = SumFunctionOnSet(shares, DOMAIN contribution)
        BY DEF OpenShares, SumFunction
    <2> HIDE DEF shares
    <2>5. Share(wallet) <= OpenShares /\ OpenShares \in Nat
        BY <1>1, <2>1, <2>3, <2>4, FiniteContributions, SumOneOf, SumNat
    <2>6. OpenShares <= lp_vault
        BY <1>1, <2>1 DEF SharesCovered, SharesDue
    <2>7. ClaimableLp(wallet) <= lp_vault
        BY <1>2, <2>1, <2>2, <2>5, <2>6 DEF ClaimableLp
    <2> QED
        BY <1>5, <2>1, <2>7 DEF Accepted, CanClaimLp, ClaimsOpen
<1>6. CASE a = "refund"
    <2>1. market.status = "Cancelled"
        BY <1>6 DEF MarketLiquidityActions
    <2>2. CASE wallet \in DOMAIN contribution
        <3>1. RefundsDue[wallet] <= SumFunction(RefundsDue) /\ SumFunction(RefundsDue) \in Nat
            BY <1>1, <2>2, BooksTypes, SumOneOf
        <3>2. contribution[wallet].amount = RefundsDue[wallet] /\ RefundsDue[wallet] \in Nat
            BY <1>1, <2>2, BooksTypes DEF RefundsDue, NatOn
        <3>3. contribution[wallet].amount <= escrow
            BY <1>1, <1>2, <2>1, <3>1, <3>2 DEF EscrowBacksRefunds
        <3> QED
            BY <1>6, <2>1, <2>2, <3>3 DEF Accepted, CanRefund
    <2> QED
        BY <1>6, <2>2
<1> QED
    BY <1>3, <1>4, <1>5, <1>6 DEF MarketLiquidityActions, Transfers

\* The market page is a true picture of the program, for all amounts, fees,
\* funders and oracles: nothing that the program accepts is missing from it,
\* nothing that it offers is refused but for the four cases it names, and the
\* position it shows is what claim_lp pays (marketView.ts, MarketActions.tsx,
\* ClaimLpControl.tsx against the processors of the program).
THEOREM PageStaysHonest == MarketSpec => []PageIsHonest
<1>1. PageInv => OffersAreAccepted
    BY CranksGoThrough, FormsGoThrough DEF OffersAreAccepted, Offered
<1>2. PageInv => AcceptedIsOffered
    BY NothingWithheld
<1> QED
    BY <1>1, <1>2, PageInvariant, PositionStaysHonest, PTL DEF PageIsHonest

-----------------------------------------------------------------------------
\* Why a market closes: the part of MarketsClose that needs no fairness

\* A control of AppCrank is on the page, and the program accepts what it sends.
ExitDue ==
    \/ "cancel" \in MarketLifecycleActions /\ CanCancel
    \/ "resolve_market" \in MarketLifecycleActions /\ CanResolveMarket
    \/ "collect_fee" \in MarketLifecycleActions
         /\ \A realized \in PoolValues : CanCollectFee(realized)
    \/ \E wallet \in DOMAIN contribution :
        \/ "refund" \in MarketLiquidityActions(wallet, FALSE) /\ CanRefund(wallet)
        \/ "claim_lp" \in MarketLiquidityActions(wallet, FALSE) /\ CanClaimLp(wallet)
    \/ "close_market" \in MarketLifecycleActions /\ CanCloseMarket

\* How many steps the market is from its end at most, once its oracle is done.
StepsLeft ==
    CASE market.status = "None" -> 0
      [] market.status = "Funding" -> U16_MAX + 2
      [] market.status = "Active" -> U16_MAX + 3
      [] market.status = "Cancelled" -> market.open_contributions + 1
      [] market.status \in {"Resolved", "Void"} ->
            market.open_contributions + (IF market.fee_collected THEN 1 ELSE 2)

\* No step of anybody takes the market further from its end, and everything
\* sent from the page takes it closer.
WindsDown ==
    market.status # "None" /\ ~OraclePending =>
        /\ StepsLeft' <= StepsLeft
        /\ AppCrank => StepsLeft' < StepsLeft

\* In whatever state a market has come to be when its oracle finishes, somebody
\* can move it from the page: neither a balance nor a counter ever stands in
\* the way of the cancellation, the resolution, the fee, a departure or the
\* closure whose turn it is (the processors cancel.rs to close_market.rs).
THEOREM SomebodyCanMove ==
    MarketSpec => [](market.status # "None" /\ OracleTerminal => ExitDue)
<1>1. PageInv /\ market.status # "None" /\ OracleTerminal => ExitDue
  <2> SUFFICES ASSUME PageInv, market.status # "None", OracleTerminal PROVE ExitDue
      OBVIOUS
  <2>1. /\ TypeOK /\ ContributionsCounted /\ SettledOnce
        /\ market.open_contributions \in Nat
      BY MarketAssumption
      DEF PageInv, VaultInv, FeeInv, MarketInv, TypeOK, MarketAccount
  <2>2. \A wallet \in DOMAIN contribution : wallet \in Contributors
      BY <2>1 DEF TypeOK
  <2>3. market.open_contributions # 0 => DOMAIN contribution # {}
      BY <2>1, FS_EmptySet DEF ContributionsCounted
  <2>4. CASE market.status = "Funding"
      BY <2>4
      DEF ExitDue, MarketLifecycleActions, fundingActions, oracleTerminal, CanCancel, Cranks
  <2>5. CASE market.status = "Active"
      BY <2>1, <2>5
      DEF ExitDue, MarketLifecycleActions, oracleTerminal, CanResolveMarket, Cranks,
          SettledOnce
  <2>6. CASE /\ market.status \in {"Resolved", "Void"} /\ ~market.fee_collected
      <3>1. "collect_fee" \in MarketLifecycleActions
          BY <2>1, <2>6 DEF MarketLifecycleActions, showCollectFee, SettledOnce, Cranks
      <3>2. Accepted("collect_fee", {})
          BY <3>1, CranksGoThrough
      <3> QED
          BY <3>1, <3>2 DEF Accepted, ExitDue
  <2>7. CASE /\ market.status \in {"Resolved", "Void", "Cancelled"}
             /\ market.status # "Cancelled" => market.fee_collected
             /\ market.open_contributions = 0
      <3>1. "close_market" \in MarketLifecycleActions
          BY <2>7 DEF MarketLifecycleActions, canClose, Cranks
      <3> QED
          BY <2>7, <3>1 DEF ExitDue, CanCloseMarket
  <2>8. CASE /\ market.status \in {"Resolved", "Void"} /\ market.fee_collected
             /\ market.open_contributions # 0
      <3>1. PICK wallet \in DOMAIN contribution : TRUE
          BY <2>3, <2>8
      <3>2. "claim_lp" \in MarketLiquidityActions(wallet, FALSE)
          BY <2>8, <3>1 DEF MarketLiquidityActions, claimShown, Transfers
      <3>3. Accepted("claim_lp", wallet)
          BY <2>2, <3>1, <3>2, FormsGoThrough
      <3> QED
          BY <3>1, <3>2, <3>3 DEF Accepted, ExitDue
  <2>9. CASE market.status = "Cancelled" /\ market.open_contributions # 0
      <3>1. PICK wallet \in DOMAIN contribution : TRUE
          BY <2>3, <2>9
      <3>2. "refund" \in MarketLiquidityActions(wallet, FALSE)
          BY <2>1, <2>9, <3>1 DEF MarketLiquidityActions, Transfers
      <3>3. Accepted("refund", wallet)
          BY <2>2, <3>1, <3>2, FormsGoThrough
      <3> QED
          BY <3>1, <3>2, <3>3 DEF Accepted, ExitDue
  <2> QED
      BY <2>1, <2>4, <2>5, <2>6, <2>7, <2>8, <2>9 DEF TypeOK, MarketAccount
<1> QED
    BY <1>1, PageInvariant, PTL

\* The six instructions that end a market, each a step closer.
LEMMA CrankCounts ==
    ASSUME MarketInv,
           \/ Cancel \/ ResolveMarket \/ CloseMarket
           \/ \E realized \in PoolValues : CollectFee(realized)
           \/ \E c \in DOMAIN contribution : Refund(c) \/ ClaimLp(c)
    PROVE  StepsLeft' < StepsLeft
<1>1. /\ TypeOK /\ ContributionsCounted /\ FeeAfterVerdict /\ market \in MarketAccount
      /\ market.open_contributions \in Nat /\ market.open_contributions <= U16_MAX
      /\ U16_MAX \in Nat
    BY MarketAssumption DEF MarketInv, TypeOK, MarketAccount
<1>2. CASE Cancel
    <2>1. /\ market.status = "Funding" /\ market'.status = "Cancelled"
          /\ market'.open_contributions = market.open_contributions
        BY <1>1, <1>2 DEF Cancel, CanCancel, MarketAccount
    <2> QED
        BY <1>1, <2>1 DEF StepsLeft
<1>3. CASE ResolveMarket
    <2>1. /\ market.status = "Active" /\ market'.status \in {"Resolved", "Void"}
          /\ market'.open_contributions = market.open_contributions
        BY <1>1, <1>3 DEF ResolveMarket, CanResolveMarket, Settled, MarketAccount
    <2> QED
        BY <1>1, <2>1 DEF StepsLeft
<1>4. CASE CloseMarket
    <2>1. /\ market.status \in {"Resolved", "Void", "Cancelled"}
          /\ market'.status = "None"
        BY <1>4 DEF CloseMarket, CanCloseMarket, NoMarket
    <2> QED
        BY <1>1, <2>1 DEF StepsLeft
<1>5. ASSUME NEW realized \in PoolValues, CollectFee(realized)
      PROVE  StepsLeft' < StepsLeft
    <2>1. /\ market.status \in {"Resolved", "Void"} /\ market'.status = market.status
          /\ ~market.fee_collected /\ market'.fee_collected
          /\ market'.open_contributions = market.open_contributions
        BY <1>1, <1>5 DEF CollectFee, CanCollectFee, MarketAccount
    <2> QED
        BY <1>1, <2>1 DEF StepsLeft
<1>6. ASSUME NEW c \in DOMAIN contribution, Refund(c) \/ ClaimLp(c)
      PROVE  StepsLeft' < StepsLeft
    <2>1. /\ market'.status = market.status
          /\ market'.fee_collected = market.fee_collected
          /\ market'.open_contributions = market.open_contributions - 1
        BY <1>1, <1>6 DEF Refund, ClaimLp, Leave, MarketAccount
    <2>2. /\ market.status \in {"Cancelled", "Resolved", "Void"}
          /\ market.status # "Cancelled" => market.fee_collected
        BY <1>1, <1>6 DEF Refund, CanRefund, ClaimLp, CanClaimLp, ClaimsOpen, FeeAfterVerdict
    <2> QED
        BY <1>1, <2>1, <2>2 DEF StepsLeft
<1> QED
    BY <1>2, <1>3, <1>4, <1>5, <1>6

LEMMA WindsDownStep ==
    ASSUME MarketInv, [Next]_marketVars
    PROVE  WindsDown
<1> SUFFICES ASSUME market.status # "None", ~OraclePending
             PROVE  StepsLeft' <= StepsLeft /\ (AppCrank => StepsLeft' < StepsLeft)
    BY DEF WindsDown
<1>1. /\ TypeOK /\ market \in MarketAccount
      /\ market.open_contributions \in Nat /\ U16_MAX \in Nat
    BY MarketAssumption DEF MarketInv, TypeOK, MarketAccount
<1>2. StepsLeft \in Nat
    BY <1>1 DEF StepsLeft, MarketAccount
<1>3. ASSUME AppCrank PROVE StepsLeft' < StepsLeft
    <2>1. \A wallet \in Contributors :
            ClaimLpControl(wallet) => wallet \in DOMAIN contribution /\ ClaimLp(wallet)
        BY DEF ClaimLpControl, MarketLiquidityActions, claimShown
    <2>2. \A wallet \in Contributors :
            RefundControl(wallet) => wallet \in DOMAIN contribution /\ Refund(wallet)
        BY DEF RefundControl
    <2>3. \/ Cancel \/ ResolveMarket \/ CloseMarket
          \/ \E realized \in PoolValues : CollectFee(realized)
          \/ \E c \in DOMAIN contribution : Refund(c) \/ ClaimLp(c)
        BY <1>3, <2>1, <2>2
        DEF AppCrank, CancelControl, ResolveControl, CollectFeeControl, CloseMarketControl
    <2> QED
        BY <2>3, CrankCounts
<1>4. ASSUME market'.status = market.status,
             \/ market.status \in {"Funding", "Active"}
             \/ /\ market'.fee_collected = market.fee_collected
                /\ market'.open_contributions = market.open_contributions
      PROVE  StepsLeft' = StepsLeft
    BY <1>1, <1>4 DEF StepsLeft, MarketAccount
<1>5. ASSUME \/ Cancel \/ ResolveMarket \/ CloseMarket
             \/ \E realized \in PoolValues : CollectFee(realized)
             \/ \E c \in DOMAIN contribution : Refund(c) \/ ClaimLp(c)
      PROVE  StepsLeft' < StepsLeft
    BY <1>5, CrankCounts
<1>6. ASSUME NEW c \in Contributors, NEW amount \in Contributions, Contribute(c, amount)
      PROVE  StepsLeft' = StepsLeft
    <2>1. market.status = "Funding" /\ market'.status = market.status
        BY <1>1, <1>6 DEF Contribute, CanContribute, MarketAccount
    <2> QED
        BY <1>4, <2>1
<1>7. ASSUME \/ \E c \in Configs : UpdateConfig(c)
             \/ DonateKass \/ DonateLp \/ OracleMoves \/ UNCHANGED marketVars
      PROVE  StepsLeft' = StepsLeft
    BY <1>4, <1>7 DEF UpdateConfig, DonateKass, DonateLp, OracleMoves, marketVars
<1>8. /\ \A c \in Contributors, amount \in Contributions : ~CreateMarket(c, amount)
      /\ \A c \in Contributors, amount \in Contributions, lp \in LpMints :
            ~AddLiquidity(c, amount, lp)
      /\ \A lp \in LpMints : ~Activate(lp)
    BY DEF CreateMarket, AddLiquidity, CanAddLiquidity, Activate, CanActivate
<1>9. StepsLeft' < StepsLeft \/ StepsLeft' = StepsLeft
    BY <1>5, <1>6, <1>7, <1>8 DEF Next
<1>10. StepsLeft' \in Nat
    <2>1. market' \in MarketAccount
        BY MarketInvStep DEF MarketInv, TypeOK
    <2>2. market'.open_contributions \in Nat
        BY <2>1, MarketAssumption DEF MarketAccount
    <2> QED
        BY <1>1, <2>1, <2>2 DEF StepsLeft, MarketAccount
<1> QED
    BY <1>2, <1>3, <1>9, <1>10

\* A market whose oracle is done only winds down: each crank of the page is one
\* of at most U16_MAX + 3 steps, and nobody, depositors and donors included,
\* can add to those that are left (MarketsClose, but for who takes them).
THEOREM MarketWindsDown == MarketSpec => [][WindsDown]_marketVars
<1>1. MarketInv /\ [Next]_marketVars => WindsDown
    BY WindsDownStep
<1> QED
    BY <1>1, MarketInvariant, PTL DEF MarketSpec
=============================================================================
