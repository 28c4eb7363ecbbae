--------------------------- MODULE ActionSequence ---------------------------
(* How the web app drives a write that needs several transactions: the        *)
(* activation of a market, the creation of all outcomes of an oracle, the     *)
(* deposit into a group of markets (useActionSequence), and the composition   *)
(* of a challenge (useComposeSequence).  A run probes what has landed, packs  *)
(* the missing steps into atomic transactions, relays them through the        *)
(* indexer's gateway and polls for each confirmation.  The button only guards *)
(* against what the last render shows, so runs may overlap; a transaction may *)
(* land after its run gave up on it; a reload forgets everything but the      *)
(* chain.  The chain is what the steps need of it: which accounts exist.      *)
EXTENDS Naturals, FiniteSets, Sequences, SequencesExt, FiniteSetsExt, TLC

CONSTANTS
    Forms,        \* the forms that may be on screen
    Oracles,      \* the oracles that may be entered into CreateMarketForm
    Options,      \* their options_count
    Group,        \* the number of markets of an oracle group
    Ready,        \* the markets of the group that a deposit takes to their floor
    CAPACITY,     \* what fits one transaction, in sizes of a step
    Overlap,      \* bound: the runs that may overlap
    MaxDeposits,  \* bound: clicks on Deposit
    MaxInFlight,  \* bound: transactions relayed and undecided
    MaxFaults     \* bound: how often something fails

ASSUME SequenceAssumption ==
    /\ Forms \subseteq {"activate", "create", "deposit", "compose"}
    /\ Oracles # {} /\ Options \in Nat \ {0} /\ Group \in Nat \ {0} /\ Ready \subseteq 1..Group
    /\ CAPACITY \in Nat \ {0} /\ Overlap \in Nat \ {0} /\ MaxDeposits \in Nat /\ MaxInFlight \in Nat \ {0} /\ MaxFaults \in Nat

VARIABLES
    form,       \* the form on screen
    oracle,     \* the oracle entered
    listed,     \* the oracles with a market in the list that useMarkets polls
    shown,      \* the oracle of the steps on screen
    statuses,   \* StepStatus by index of step
    runs,       \* per invocation of run()
    flight,     \* transactions relayed and undecided
    accounts,   \* the accounts that exist on chain
    paid,       \* history: deposits landed, per market of the group
    clicks,     \* history: clicks on Deposit
    finished,   \* history: deposit runs that reached onDone
    edited,     \* history: the oracle was edited after a run had been started
    faults      \* outages, rejections, expiries and reloads so far

screen == <<form, oracle, listed, shown, edited>>
chain == <<flight, accounts, paid>>
counts == <<clicks, finished>>
vars == <<screen, statuses, runs, chain, counts, faults>>

(* Whatever may fail may fail MaxFaults times.                                *)
Fault == faults < MaxFaults /\ faults' = faults + 1
Fine == UNCHANGED faults

-----------------------------------------------------------------------------
(* Steps.  An account is <<kind, of, number>>.  `adds` exist after the step,  *)
(* `bars` must not exist before it, `needs` must; `pays` is the market that   *)
(* receives a deposit, 0 if none.  A step that pays is never skipped.         *)
Creates(account, needs, size) ==
    [adds |-> {account}, bars |-> {account}, needs |-> needs, size |-> size, pays |-> 0]

\* buildActivateSequence: each instruction reads what the one before created
ActivateSteps(m) ==
    << Creates(<<"question", "market", m>>, {}, 1),
       Creates(<<"vault", "market", m>>, {<<"question", "market", m>>}, 1),
       Creates(<<"amm", "market", m>>, {<<"vault", "market", m>>}, 1),
       Creates(<<"active", "market", m>>, {<<"amm", "market", m>>, <<"funded", "market", m>>},
               CAPACITY) >>

\* buildCreateAllSteps: one create_market per outcome
CreateSteps(o) == [i \in 1..Options |-> Creates(<<"outcome", o, i>>, {}, 1)]

\* contribute, which takes the Ready markets to their floor, and then the
\* activation of those markets
ContributeSteps ==
    [m \in 1..Group |->
        [adds |-> IF m \in Ready THEN {<<"funded", "market", m>>} ELSE {},
         bars |-> {<<"active", "market", m>>}, needs |-> {}, size |-> 1, pays |-> m]]
    \o LET ready == SetToSeq(Ready)
       IN  [i \in 1..4 * Len(ready) |-> ActivateSteps(ready[(i + 3) \div 4])[((i - 1) % 4) + 1]]

\* once the Ready markets are Active, they take add_liquidity instead
AddLiquiditySteps ==
    [m \in 1..Group |->
        [adds |-> {}, needs |-> IF m \in Ready THEN {<<"active", "market", m>>} ELSE {},
         bars |-> IF m \in Ready THEN {} ELSE {<<"active", "market", m>>}, size |-> 1, pays |-> m]]

\* buildComposeAndOpenChallengeIxs; the split may be repeated, at a cost
Made(kind, n) == <<kind, "challenge", n>>
ComposeSteps ==
    LET vaults == {Made("vault", 1), Made("vault", 2)}
    IN  << Creates(Made("question", 0), {}, 1),
           Creates(Made("vault", 1), {Made("question", 0)}, 1),
           Creates(Made("vault", 2), {Made("question", 0)}, 1),
           [adds |-> {Made("split", 0)}, bars |-> {}, needs |-> vaults, size |-> 1, pays |-> 0],
           Creates(Made("pool", 1), {Made("split", 0)}, 1),
           Creates(Made("pool", 2), {Made("split", 0)}, 1),
           Creates(Made("open", 0), {Made("pool", 1), Made("pool", 2)}, 1) >>

Steps ==
    [list \in {"activate", "create", "contribute", "add", "compose"} \X Oracles |->
        CASE list[1] = "activate"   -> ActivateSteps(1)
          [] list[1] = "create"     -> CreateSteps(list[2])
          [] list[1] = "contribute" -> ContributeSteps
          [] list[1] = "add"        -> AddLiquiditySteps
          [] list[1] = "compose"    -> ComposeSteps]

(* A transaction is atomic: its steps, a set of indices, run in their order,  *)
(* each on what the ones before it left, or none of them counts.              *)
After(list, batch) == accounts \cup UNION {Steps[list][i].adds : i \in batch}
CanRun(list, batch) ==
    \A i \in batch :
        LET step == Steps[list][i]
            found == After(list, {j \in batch : j < i})
        IN  step.needs \subseteq found /\ step.bars \cap found = {}

\* the steps that a form builds for the oracle entered, from the chain as it is
Built(o) ==
    << IF form # "deposit" THEN form
       ELSE IF \A m \in Ready : <<"active", "market", m>> \in accounts THEN "add" ELSE "contribute", o >>

-----------------------------------------------------------------------------
(* Statuses.                                                                  *)
Mark(st, indices, status) ==
    [i \in indices \cup DOMAIN st |-> IF i \in indices THEN status ELSE st[i]]
isRunning(st) == \E i \in DOMAIN st : st[i] = "running"
allDone == statuses # <<>> /\ \A i \in DOMAIN statuses : statuses[i] = "done"
FirstNotDone_Skips(st) == Min({i \in DOMAIN st : st[i] # "done"} \cup {Cardinality(DOMAIN st)}) + 1
FirstNotDone(st) == Min({i \in DOMAIN st : st[i] # "done"} \cup {Cardinality(DOMAIN st) + 1})

\* `start` is startIndex, 0 when it is not given
initialRunState_Resume(n, seen, start) ==
    LET st == IF Cardinality(DOMAIN seen) = n THEN seen ELSE [i \in 1..n |-> "pending"]
        begin == FirstNotDone(st)
    IN  [begin |-> begin,
         st |-> [i \in DOMAIN st |-> IF i >= begin /\ st[i] = "error" THEN "pending" ELSE st[i]]]
initialRunState(n, seen, start) ==
    LET reuse == Cardinality(DOMAIN seen) = n /\ (start = 0 \/ form = "compose")
        st == IF reuse THEN seen ELSE [i \in 1..n |-> "pending"]
        begin == IF start # 0 THEN start ELSE FirstNotDone(st)
    IN  [begin |-> begin,
         st |-> [i \in DOMAIN st |-> IF i >= begin /\ st[i] = "error" THEN "pending" ELSE st[i]]]

\* greedily, in order, as many steps into a transaction as fit: load[i] is what
\* the transaction under way holds after step i
packSteps ==
    [list \in DOMAIN Steps |-> [steps \in SUBSET DOMAIN Steps[list] |->
        LET size(i) == Steps[list][i].size
            load[i \in 0..Len(Steps[list])] ==
                IF i = 0 THEN 0
                ELSE IF i \notin steps THEN load[i - 1]
                ELSE IF load[i - 1] + size(i) <= CAPACITY THEN load[i - 1] + size(i)
                ELSE size(i)
            opening == {i \in steps : i = Min(steps) \/ load[i - 1] + size(i) > CAPACITY}
        IN  [b \in 1..Cardinality(opening) |->
                {i \in steps : Cardinality({j \in opening : j <= i}) = b}]]]

-----------------------------------------------------------------------------
Invocations == 1..Overlap
Idle == [pc |-> "idle"]
Busy == isRunning(statuses)
Transaction(s, r) == [by |-> s, click |-> r.click, list |-> r.list, batch |-> r.batches[1]]
Abandoned_Kept(tx) == tx
Abandoned(tx) == [tx EXCEPT !.by = 0]

Init ==
    /\ form \in Forms /\ oracle = (CHOOSE o \in Oracles : TRUE) /\ shown = oracle
    /\ listed = {} /\ edited = FALSE
    /\ statuses = <<>>
    /\ runs = [s \in Invocations |-> Idle]
    /\ flight = {}
    /\ \/ accounts = {} /\ form # "activate"
       \/ accounts = {<<"funded", "market", 1>>} /\ form \in {"activate", "deposit"}
    /\ paid = [m \in 1..Group |-> 0] /\ clicks = 0 /\ finished = 0
    /\ faults = 0

(* The synchronous end of a run.                                              *)
Stop(s) == runs' = [runs EXCEPT ![s] = Idle]
Finish(s) ==
    /\ Stop(s)
    /\ finished' = finished + (IF form = "deposit" THEN 1 ELSE 0)
    /\ UNCHANGED clicks

\* the next transaction: its steps are running, and it waits for its relay
Begin(s, r, st) ==
    /\ statuses' = Mark(st, r.batches[1], "running")
    /\ runs' = [runs EXCEPT ![s] = [r EXCEPT !.pc = "relay", !.fate = "none"]]

\* setError on the transaction's steps, and the run returns
Fail_Silent(s, indices) == Stop(s) /\ UNCHANGED <<statuses, counts>>
Fail(s, indices) ==
    /\ statuses' = Mark(statuses, indices, "error")
    /\ Stop(s)
    /\ UNCHANGED counts

(* run(): the statuses it starts from are those of the render that was        *)
(* clicked, `seen`, whatever has happened while the steps were being built.   *)
Launch(s, o, seen, start, click) ==
    \E list \in {Built(o)} : \E first \in {initialRunState(Len(Steps[list]), seen, start)} :
        LET n == Len(Steps[list])
            r == [pc |-> "probe", list |-> list, click |-> click, next |-> first.begin,
                  missing |-> {}, batches |-> <<>>, fate |-> "none"]
        IN  /\ shown' = o
            /\ IF form = "compose" /\ first.begin <= n
               THEN Begin(s, [r EXCEPT !.batches = [k \in 1..(n + 1 - first.begin) |-> {first.begin + k - 1}]],
                          first.st)
               ELSE statuses' = first.st /\ runs' = [runs EXCEPT ![s] = r]

(* The button.  ActivateControl builds its steps once and the retry of        *)
(* ChallengeComposeForm keeps them: those clicks reach run() with no await.   *)
Click(s) ==
    /\ runs[s] = Idle /\ \A t \in Invocations : t < s => runs[t] # Idle
    /\ ~Busy
    /\ form = "deposit" => clicks < MaxDeposits
    /\ form # "deposit" => ~allDone
    /\ form = "create" => oracle \notin listed
    /\ clicks' = clicks + (IF form = "deposit" THEN 1 ELSE 0)
    /\ \/ /\ form = "activate" /\ statuses # <<>>
          /\ Launch(s, oracle, statuses, 0, 0)
       \/ /\ form = "compose" /\ \E i \in DOMAIN statuses : statuses[i] = "error"
          /\ Launch(s, oracle, statuses, FirstNotDone(statuses), 0)
       \/ /\ form = "activate" => statuses = <<>>
          /\ form = "compose" => \A i \in DOMAIN statuses : statuses[i] # "error"
          /\ runs' = [runs EXCEPT ![s] =
                [pc |-> "build", oracle |-> oracle, seen |-> statuses, click |-> clicks']]
          /\ UNCHANGED <<shown, statuses>>
    /\ UNCHANGED <<form, oracle, listed, edited, chain, finished, faults>>

Build(s) ==
    /\ runs[s].pc = "build"
    /\ \/ /\ Launch(s, runs[s].oracle, runs[s].seen,
                   IF form \in {"deposit", "compose"} THEN 1 ELSE 0, runs[s].click)
          /\ Fine
       \/ Fault /\ Stop(s) /\ UNCHANGED <<shown, statuses>>
    /\ UNCHANGED <<form, oracle, listed, edited, chain, counts>>

-----------------------------------------------------------------------------
\* an outage of the gateway reads as "not landed"
stepAlreadyLanded_Never(step, landed) == ~landed /\ Fine
stepAlreadyLanded(step, landed) ==
    \/ landed = (step.adds \subseteq accounts) /\ Fine
    \/ ~landed /\ step.adds \subseteq accounts /\ Fault

\* what is missing, in transactions: one, or one by one if the wallet cannot
\* sign them together; nothing missing is a success
Pack(s, r, st) ==
    \/ r.missing = {} /\ statuses' = st /\ Finish(s)
    \/ \E batches \in {packSteps[r.list][r.missing]} \ {<<>>} :
          /\ \/ Begin(s, [r EXCEPT !.batches = batches, !.missing = {}], st)
             \/ /\ Len(batches) > 1
                /\ statuses' = st
                /\ runs' = [runs EXCEPT ![s] =
                      [r EXCEPT !.batches = batches, !.missing = {}, !.pc = "sign"]]
          /\ UNCHANGED counts

(* One probe; after the last one, the transactions.                           *)
Probe(s) ==
    /\ runs[s].pc = "probe"
    /\ \E r \in {runs[s]} : \E last \in {Len(Steps[r.list])} :
        \/ r.next > last /\ Pack(s, r, statuses) /\ Fine
        \/ /\ r.next <= last
           /\ \E landed \in BOOLEAN :
              LET step == Steps[r.list][r.next]
              IN  /\ IF step.pays = 0 THEN stepAlreadyLanded(step, landed) ELSE ~landed /\ Fine
                  /\ \E probed \in {[r EXCEPT !.next = @ + 1,
                                               !.missing = IF landed THEN @ ELSE @ \cup {r.next}]} :
                     \E st \in {IF landed THEN Mark(statuses, {r.next}, "done") ELSE statuses} :
                        IF r.next = last
                        THEN Pack(s, probed, st)
                        ELSE statuses' = st /\ runs' = [runs EXCEPT ![s] = probed] /\ UNCHANGED counts
    /\ UNCHANGED <<screen, chain>>

\* signAllTransactions: one approval for all of them
SignAll(s) ==
    LET r == runs[s]
    IN  /\ r.pc = "sign"
        /\ \/ Begin(s, r, statuses) /\ UNCHANGED counts /\ Fine
           \/ Fail(s, UNION Range(r.batches)) /\ Fault
        /\ UNCHANGED <<screen, chain>>

(* The relay.  The preflight refuses what cannot run; a blockhash may be      *)
(* stale, the wallet may refuse, the gateway may be down; and the answer may  *)
(* be lost although the transaction went out.                                 *)
Relay(s) ==
    /\ runs[s].pc = "relay"
    /\ \E r \in {runs[s]} : \E tx \in {Transaction(s, r)} : \E good \in {CanRun(tx.list, tx.batch)} :
        \/ /\ good /\ Cardinality(flight) < MaxInFlight /\ Fine
           /\ flight' = flight \cup {tx}
           /\ runs' = [runs EXCEPT ![s].pc = "confirm"]
           /\ UNCHANGED <<statuses, counts>>
        \/ /\ IF good THEN Fault ELSE Fine
           /\ Fail(s, tx.batch) /\ UNCHANGED flight
        \/ /\ good /\ Cardinality(flight) < MaxInFlight /\ Fault
           /\ flight' = flight \cup {Abandoned(tx)}
           /\ Fail(s, tx.batch)
    /\ UNCHANGED <<screen, accounts, paid>>

(* A mutant: the poll stops at the first answer, whatever it says.            *)
Confirm_AnyAnswer(s) ==
    /\ runs[s].pc = "confirm" /\ runs[s].fate # "none"
    /\ \E r \in {runs[s]} : \E done \in {Mark(statuses, r.batches[1], "done")} :
          IF Len(r.batches) > 1
          THEN Begin(s, [r EXCEPT !.batches = Tail(@)], done) /\ UNCHANGED counts
          ELSE statuses' = done /\ Finish(s)
    /\ Fine /\ UNCHANGED <<screen, chain>>

(* The poll's answer: confirmed, failed, or, after 30 seconds or an error of  *)
(* the poll itself, none; the transaction is then on its own.                 *)
Confirm(s) ==
    /\ runs[s].pc = "confirm"
    /\ \E r \in {runs[s]} : \E tx \in {Transaction(s, r)} :
        \/ /\ r.fate = "landed" /\ UNCHANGED flight /\ Fine
           /\ \E done \in {Mark(statuses, tx.batch, "done")} :
                 IF Len(r.batches) > 1
                 THEN Begin(s, [r EXCEPT !.batches = Tail(@)], done) /\ UNCHANGED counts
                 ELSE statuses' = done /\ Finish(s)
        \/ /\ r.fate = "failed" /\ UNCHANGED flight /\ Fine
           /\ Fail(s, tx.batch)
        \/ /\ IF r.fate = "none" /\ tx \notin flight THEN Fine ELSE Fault
           /\ flight' = IF tx \in flight THEN (flight \ {tx}) \cup {Abandoned(tx)} ELSE flight
           /\ Fail(s, tx.batch)
    /\ UNCHANGED <<screen, accounts, paid>>

-----------------------------------------------------------------------------
(* A relayed transaction is executed: it succeeds as a whole or fails.        *)
Land(tx) ==
    /\ flight' = flight \ {tx}
    /\ \E good \in {CanRun(tx.list, tx.batch)} :
          /\ accounts' = IF good THEN After(tx.list, tx.batch) ELSE accounts
          /\ paid' = [m \in 1..Group |-> paid[m] +
                IF good /\ \E i \in tx.batch : Steps[tx.list][i].pays = m THEN 1 ELSE 0]
          /\ runs' = [s \in Invocations |->
                IF s = tx.by THEN [runs[s] EXCEPT !.fate = IF good THEN "landed" ELSE "failed"]
                ELSE runs[s]]
    /\ UNCHANGED <<screen, statuses, counts, faults>>

\* its blockhash expires first
Expire(tx) ==
    /\ Fault
    /\ flight' = flight \ {tx}
    /\ UNCHANGED <<screen, statuses, runs, accounts, paid, counts>>

(* Anyone else may activate the market, create an outcome, or compose.        *)
OtherActor ==
    /\ \E i \in DOMAIN Steps[Built(oracle)] :
          LET step == Steps[Built(oracle)][i]
          IN  /\ step.pays = 0 /\ ~(step.adds \subseteq accounts) /\ CanRun(Built(oracle), {i})
              /\ accounts' = accounts \cup step.adds
    /\ UNCHANGED <<screen, statuses, runs, flight, paid, counts, faults>>

(* The page is closed or reloaded: the runs and the statuses are gone.        *)
Reload ==
    /\ Fault
    /\ statuses' = <<>> /\ runs' = [s \in Invocations |-> Idle]
    /\ flight' = {Abandoned(tx) : tx \in flight}
    /\ listed' = {} /\ edited' = FALSE /\ shown' = oracle
    /\ UNCHANGED <<form, oracle, accounts, paid, counts>>

EditOracle ==
    /\ form = "create"
    /\ \E o \in Oracles : o # oracle /\ oracle' = o
    /\ edited' = (edited \/ statuses # <<>> \/ \E s \in Invocations : runs[s] # Idle)
    /\ UNCHANGED <<form, listed, shown, statuses, runs, chain, counts, faults>>

\* useMarkets polls the indexer's list
Refresh ==
    /\ form = "create"
    /\ listed' = {o \in Oracles : \E i \in 1..Options : <<"outcome", o, i>> \in accounts}
    /\ UNCHANGED <<form, oracle, shown, edited, statuses, runs, chain, counts, faults>>

Run(s) == Build(s) \/ Probe(s) \/ SignAll(s) \/ Relay(s) \/ Confirm(s)
Next ==
    \/ \E s \in Invocations : Click(s) \/ Run(s)
    \/ \E tx \in flight : Land(tx) \/ Expire(tx)
    \/ OtherActor \/ Reload \/ EditOracle \/ Refresh

(* The app's own steps are turns of the event loop; a relayed transaction     *)
(* lands or expires; and the user presses the button again while the form     *)
(* offers it.                                                                 *)
Fairness ==
    /\ \A s \in Invocations : WF_runs(Click(s) \/ Run(s))
    /\ WF_flight(\E tx \in flight : Land(tx))

Spec == Init /\ [][Next]_vars /\ Fairness
-----------------------------------------------------------------------------
TypeOK ==
    /\ form \in Forms /\ oracle \in Oracles /\ shown \in Oracles /\ listed \subseteq Oracles
    /\ \A i \in DOMAIN statuses : statuses[i] \in {"pending", "running", "done", "error"}
    /\ \A s \in Invocations :
          /\ runs[s].pc \in {"idle", "build", "probe", "sign", "relay", "confirm"}
          /\ runs[s].pc \in {"relay", "confirm"} => runs[s].batches # <<>>
    /\ \A tx \in flight : tx.by # 0 => runs[tx.by].pc = "confirm"
    /\ clicks \in 0..MaxDeposits /\ paid \in [1..Group -> Nat] /\ finished \in Nat
    /\ edited \in BOOLEAN /\ faults \in 0..MaxFaults

(* A step that the form shows as done has its account on chain, through       *)
(* overlapping runs, lost answers, late landings and reloads: what the button *)
(* and the resume skip is really there.  The one exception is a creation      *)
(* whose oracle was edited after the first click: initialRunState compares    *)
(* lengths only, and takes over the statuses of the other oracle's steps.     *)
DoneStepsLanded ==
    form # "deposit" /\ ~edited =>
        \A i \in DOMAIN statuses :
            statuses[i] = "done" => Steps[<<form, shown>>][i].adds \subseteq accounts

(* A click on Deposit pays each market at most once, whatever times out or is *)
(* retried; and a run that reports success has paid each market and activated *)
(* those that reached their floor.                                            *)
DepositsCounted ==
    form = "deposit" =>
        /\ \A m \in 1..Group : finished <= paid[m] /\ paid[m] <= clicks
        /\ finished > 0 => \A m \in Ready : <<"active", "market", m>> \in accounts

(* However the activation is interrupted, pressing the button again completes *)
(* it: the probe makes each retry start from what has landed.                 *)
ActivationCompletes == form = "activate" ~> <<"active", "market", 1>> \in accounts

(* So does the creation of all outcomes, with two exceptions: the list of     *)
(* markets was refreshed after the first outcome landed, and the form refuses *)
(* an oracle that already has a market; or the oracle was edited, as above.   *)
CreationCompletes ==
    form = "create" ~> \/ \A i \in 1..Options : <<"outcome", oracle, i>> \in accounts
                       \/ oracle \in listed
                       \/ edited

(* The composition of a challenge resumes without probing.  It completes      *)
(* unless a step landed that its form does not show as done: that step can    *)
(* never be sent again, and the form stays stuck at it for good.              *)
Wedged ==
    \E i \in DOMAIN ComposeSteps :
        /\ ComposeSteps[i].bars # {} /\ ComposeSteps[i].adds \subseteq accounts
        /\ i \in DOMAIN statuses => statuses[i] # "done"
        /\ \A s \in Invocations :
              ~(runs[s].pc = "confirm" /\ runs[s].fate = "landed" /\ runs[s].batches[1] = {i})
CompositionCompletes ==
    form = "compose" => <>(<<"open", "challenge", 0>> \in accounts) \/ <>[]Wedged

(* What the page reports has happened, and what it sent, once.                *)
ReportsAreTrue == TypeOK /\ DoneStepsLanded /\ DepositsCounted

(* Pressing the button again ends each of the three other sequences.          *)
SequencesComplete ==
    ActivationCompletes /\ CreationCompletes /\ CompositionCompletes
=============================================================================
