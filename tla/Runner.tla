------------------------------- MODULE Runner -------------------------------
(***************************************************************************)
(* The AI runner (src/runner): a keeper reads an oracle and its agreed     *)
(* facts from the chain, fetches their contents, asks a model for an       *)
(* option and submits the claim; a verifier repeats the reading to judge   *)
(* that claim.  Several runs of several machines, the page-by-page         *)
(* settlement of the facts, the claims that close their accounts later,    *)
(* the web servers that hold their contents, the oracle's creator and the  *)
(* cluster that carries the transaction take steps in any order.           *)
(*                                                                         *)
(* A prompt is its inputs: the rules and the set of (fact, body) pairs,    *)
(* since assemble sorts the facts and frames every field.  A hash check    *)
(* that passes means the body is the committed one.  Not modelled: the     *)
(* bytes of the prompt, of the hashes and of the 97-byte payload, and the  *)
(* keypair file.                                                           *)
(***************************************************************************)
EXTENDS Integers, FiniteSets, Sequences

CONSTANTS
    Facts,          \* the facts proposed for the oracle
    Keepers,        \* the machines that run `run --submit` for one proposer
    Verifiers,      \* the machines that run `verify`
    Options,        \* the oracle's options_count
    Labels,         \* the options its metadata lists: as many, unless a swept oracle left them
    ConfigFacts,    \* the facts and the options_count of a hand-written --config
    ConfigOptions,
    MaxPolls,       \* ConfirmOptions::max_polls
    MaxSends,       \* bound: transactions the keepers send
    MaxFaults       \* bound: faults of network, hosts, model and operator, strangers'
                    \* donations, facts closed

ASSUME RunnerAssumption ==
    /\ Facts \subseteq Nat \ {0} /\ ConfigFacts \subseteq Facts
    /\ {Options, Labels, ConfigOptions} \subseteq Nat \ {0}
    /\ MaxPolls \in Nat \ {0}
    /\ MaxFaults \in Nat /\ MaxSends \in Nat /\ MaxFaults < MaxSends

Doc == 0            \* the oracle's metadata JSON, beside the facts
Hosts == Keepers \cup Verifiers

VARIABLES
    agreed,         \* the facts the vote makes agreed, and a swept oracle's that are left
    unreadable,     \* agreed facts that no run can fetch and decode as committed
    unlistable,     \* agreed facts whose uri is not UTF-8
    meta,           \* the oracle_meta account
    phase,          \* of the oracle: voting, claiming (the AiClaim window), over
    settled,        \* facts finalize_facts has written so far
    closed,         \* facts whose account claim_fact has closed
    funded,         \* a stranger sent lamports to the address of the claim
    tampered,       \* what the web servers hand out altered
    runs,           \* the run of each machine
    txs,            \* the submit_ai_claim transactions sent
    faults          \* faults so far

given == <<agreed, unreadable, unlistable>>
chain == <<given, meta, phase, settled, closed, funded>>
vars == <<chain, tampered, runs, txs, faults>>

Bodies == {"committed", "altered"}
Prompts == [rules: Bodies \cup {"own"}, facts: SUBSET (Facts \X Bodies)]
Idle == [pc |-> "idle", fromChain |-> TRUE, rules |-> "own", refs |-> {}, facts |-> {},
         early |-> FALSE, late |-> FALSE, option |-> 0, polls |-> 0, tx |-> 0]
Busy == {"facts", "fetch", "model", "send", "confirm"}
Ended == {"printed", "confirmed", "failed"}      \* failed: with an error, whichever

\* "unusable": no uri, one that is not http(s), or a JSON that is too large, malformed
\* or without a prompt text.
Metas == {"missing", "usable", "unusable"}

Prompt(r) == [rules |-> r.rules, facts |-> r.facts]
CommittedPrompt == [rules |-> "committed", facts |-> agreed \X {"committed"}]

TypeOK ==
    /\ agreed \subseteq Facts /\ unreadable \subseteq Facts /\ unlistable \subseteq Facts
    /\ meta \in Metas /\ funded \in BOOLEAN
    /\ phase \in {"voting", "claiming", "over"}
    /\ settled \subseteq Facts /\ closed \subseteq Facts
    /\ tampered \subseteq Facts \cup {Doc}
    /\ \A h \in Hosts :
        /\ runs[h].pc \in {"idle"} \cup Busy \cup Ended
        /\ Prompt(runs[h]) \in Prompts
        /\ runs[h].refs \subseteq Facts
        /\ runs[h].polls \in 0..MaxPolls - 1
        /\ runs[h].tx \in 0..Len(txs)
    /\ \A i \in DOMAIN txs :
        txs[i].state \in {"sent", "processed", "failing", "landed", "failed", "expired"}
    /\ Len(txs) <= MaxSends /\ faults \in 0..MaxFaults

\* What a swept oracle of the same address left behind: facts that are settled and
\* agreed, and its metadata.
Init ==
    /\ agreed \in SUBSET Facts
    /\ unreadable \in SUBSET agreed /\ unlistable \in SUBSET (agreed \ unreadable)
    /\ settled \in (SUBSET agreed) \ {Facts}
    /\ meta \in Metas /\ (Labels # Options => meta # "missing")
    /\ phase = "voting" /\ closed = {} /\ funded = FALSE /\ tampered = {}
    /\ runs = [h \in Hosts |-> Idle]
    /\ txs = <<>> /\ faults = 0

Body(x) == IF x \in tampered THEN "altered" ELSE "committed"

\* sha256(body) against the hash the chain holds; a fact must also be UTF-8.
HashMatches_Unchecked(x) == TRUE
HashMatches(x) == Body(x) = "committed"

Go(h, r) == runs' = [runs EXCEPT ![h] = r]
Ends(h, how) == Go(h, [Idle EXCEPT !.pc = how, !.tx = IF how = "confirmed" THEN runs[h].tx ELSE 0])
Fetching(refs) == IF refs = {} THEN "model" ELSE "fetch"
Fault == faults < MaxFaults /\ faults' = faults + 1

-----------------------------------------------------------------------------
(* resolve_config: from the chain, or from a hand-written file. *)

\* build_config_from_chain 1-3: the oracle_meta account never changes once it is
\* written, so reading it and fetching its JSON are one step.
ReadOracle(h) ==
    /\ runs[h].pc \in {"idle"} \cup (Ended \ {"confirmed"})
    /\ Go(h, IF meta = "usable" /\ HashMatches(Doc)
             THEN [Idle EXCEPT !.pc = "facts", !.rules = Body(Doc)]
             ELSE [Idle EXCEPT !.pc = "failed"])
    /\ UNCHANGED <<chain, tampered, txs, faults>>

\* fetch_agreed_facts: the accounts that exist and carry the agreed flag at this
\* moment.  One uri that does not decode fails the whole list.
AgreedNow_Unfiltered == Facts \ closed
AgreedNow == (settled \cap agreed) \ closed

ReadFacts(h) ==
    /\ runs[h].pc = "facts"
    /\ IF AgreedNow \cap unlistable = {}
       THEN Go(h, [runs[h] EXCEPT !.pc = Fetching(AgreedNow), !.refs = AgreedNow,
                                  !.early = phase = "voting",
                                  !.late = agreed \cap closed # {}])
       ELSE Ends(h, "failed")
    /\ UNCHANGED <<chain, tampered, txs, faults>>

\* --config: the operator's rules, facts and option count, none of them compared
\* with the oracle.  The file names hashes of its own, so its facts verify.
LoadConfig(h) ==
    /\ runs[h].pc \in {"idle"} \cup (Ended \ {"confirmed"})
    /\ Fault
    /\ Go(h, [Idle EXCEPT !.pc = Fetching(ConfigFacts), !.fromChain = FALSE,
                          !.refs = ConfigFacts])
    /\ UNCHANGED <<chain, tampered, txs>>

-----------------------------------------------------------------------------
(* run_core: the facts one after the other, all or nothing, then the model. *)

\* What has the committed hash may still be refused, at every try: a uri that is not
\* http(s), a body over the cap, bytes that are not UTF-8.
Fetchable(f) == f \notin unreadable
Accepted(f) == HashMatches(f) /\ Fetchable(f)

FetchFact(h) ==
    LET r == runs[h] IN
    /\ r.pc = "fetch" /\ r.refs # {}
    /\ \E f \in r.refs :
        /\ \A g \in r.refs : f <= g
        /\ IF Accepted(f)
           THEN Go(h, [r EXCEPT !.pc = Fetching(r.refs \ {f}), !.refs = @ \ {f},
                                !.facts = @ \cup {<<f, Body(f)>>}])
           ELSE Ends(h, "failed")
    /\ UNCHANGED <<chain, tampered, txs, faults>>

\* provider.complete and parse_option_index: an index below the configured count,
\* which from the chain is the number of labels in the metadata.  Answers differ only
\* in whether the oracle has the option: the largest of each kind stands for all.
\* A verifier prints its advice, a keeper goes on to submit the same payload.
Count_UpToCount(r) == (IF r.fromChain THEN Labels ELSE ConfigOptions) + 1
Count(r) == IF r.fromChain THEN Labels ELSE ConfigOptions
Answers(r) == {n \in 0..Count(r) - 1 : n \in {Count(r) - 1, Options - 1}}

Complete(h) ==
    /\ runs[h].pc = "model"
    /\ \E n \in Answers(runs[h]) :
        Go(h, [runs[h] EXCEPT !.pc = IF h \in Keepers THEN "send" ELSE "printed",
                              !.option = n])
    /\ UNCHANGED <<chain, tampered, txs, faults>>

-----------------------------------------------------------------------------
(* submit_and_confirm.                                                     *)

Claim(r) == [prompt |-> Prompt(r), option |-> r.option,
             fromChain |-> r.fromChain, early |-> r.early]

Landed == {i \in DOMAIN txs : txs[i].state = "landed"}
OnFork == {i \in DOMAIN txs : txs[i].state \in {"processed", "landed"}}

\* submit_ai_claim (the program): in the AiClaim phase, for an option the oracle
\* has, and only if there are no data or lamports at the address of its claim.
Accepts_Twice(i) ==
    /\ phase = "claiming"
    /\ txs[i].claim.option < Options
Accepts(i) ==
    /\ phase = "claiming"
    /\ txs[i].claim.option < Options
    /\ OnFork = {} /\ ~funded

\* The node's preflight simulation runs on a state that may be old: it may let pass
\* what some state so far would have accepted, as when the claim's address was empty.
Simulates(r) == phase # "voting" /\ r.option < Options

Sent(r) == txs' = Append(txs, [claim |-> Claim(r), state |-> "sent"])

Send(h) ==
    /\ runs[h].pc = "send" /\ Simulates(runs[h]) /\ Len(txs) < MaxSends
    /\ Sent(runs[h])
    /\ Go(h, [Idle EXCEPT !.pc = "confirm", !.tx = Len(txs) + 1])
    /\ UNCHANGED <<chain, tampered, faults>>

\* Or it refuses: the phase is not AiClaim, the address is taken, or the option does
\* not exist.
Preflight(h) ==
    /\ runs[h].pc = "send"
    /\ phase # "claiming" \/ Landed # {} \/ funded \/ runs[h].option >= Options
    /\ Ends(h, "failed")
    /\ UNCHANGED <<chain, tampered, txs, faults>>

\* The node forwarded the transaction but its answer never came.
SendUnanswered(h) ==
    /\ runs[h].pc = "send" /\ Simulates(runs[h]) /\ Len(txs) < MaxSends
    /\ Fault
    /\ Sent(runs[h])
    /\ Ends(h, "failed")
    /\ UNCHANGED <<chain, tampered>>

\* One poll of getSignatureStatuses: an error ends it at once, the target
\* commitment ends it well, anything else counts against the budget.
Reached_Processed(s) == s \in {"processed", "landed"}
Reached(s) == s = "landed"

Waits_Unbounded(r) == r
Waits_OneMore(r) == IF r.polls = MaxPolls THEN [Idle EXCEPT !.pc = "failed"]
                    ELSE [r EXCEPT !.polls = @ + 1]
Waits(r) == IF r.polls + 1 = MaxPolls THEN [Idle EXCEPT !.pc = "failed"]
            ELSE [r EXCEPT !.polls = @ + 1]

Poll(h) ==
    LET r == runs[h] s == txs[r.tx].state IN
    /\ r.pc = "confirm"
    /\ IF s \in {"failing", "failed"} THEN Ends(h, "failed")
       ELSE IF Reached(s) THEN Ends(h, "confirmed") ELSE Go(h, Waits(r))
    /\ UNCHANGED <<chain, tampered, txs, faults>>

\* Any request may fail and an answer may be unusable: the run ends there.
RequestFails(h) ==
    /\ runs[h].pc \in Busy
    /\ Fault
    /\ Ends(h, "failed")
    /\ UNCHANGED <<chain, tampered, txs>>

-----------------------------------------------------------------------------
(* The cluster, the oracle and the web servers. *)

\* The transaction enters a block of the current fork, and the program accepts or
\* refuses it there.
Process(i) ==
    /\ txs[i].state = "sent"
    /\ txs' = [txs EXCEPT ![i].state = IF Accepts(i) THEN "processed" ELSE "failing"]
    /\ UNCHANGED <<chain, tampered, runs, faults>>

\* The fork is confirmed, or is abandoned and its transactions are tried again.
Confirm ==
    /\ \E i \in DOMAIN txs : txs[i].state \in {"processed", "failing"}
    /\ txs' = [i \in DOMAIN txs |-> [txs[i] EXCEPT !.state =
                CASE @ = "processed" -> "landed" [] @ = "failing" -> "failed" [] OTHER -> @]]
    /\ UNCHANGED <<chain, tampered, runs, faults>>
Fork ==
    /\ \E i \in DOMAIN txs : txs[i].state \in {"processed", "failing"}
    /\ Fault
    /\ txs' = [i \in DOMAIN txs |-> [txs[i] EXCEPT !.state =
                IF @ \in {"processed", "failing"} THEN "sent" ELSE @]]
    /\ UNCHANGED <<chain, tampered, runs>>

\* The blockhash ages out.
Expire(i) ==
    /\ txs[i].state = "sent"
    /\ Fault
    /\ txs' = [txs EXCEPT ![i].state = "expired"]
    /\ UNCHANGED <<chain, tampered, runs>>

\* finalize_facts settles the facts page by page; the last page opens the claims.
SettleFacts(page) ==
    /\ phase = "voting" /\ page # {} /\ page \subseteq Facts \ settled
    /\ settled' = settled \cup page
    /\ phase' = IF settled' = Facts THEN "claiming" ELSE "voting"
    /\ UNCHANGED <<given, meta, closed, funded, tampered, runs, txs, faults>>

\* The window closes: finalize_ai_claims, the challenges and finalize_oracle follow.
EndClaims ==
    /\ phase = "claiming"
    /\ phase' = "over"
    /\ UNCHANGED <<given, meta, settled, closed, funded, tampered, runs, txs, faults>>

\* claim_fact: the oracle has been finalized in the meantime, and the submitter takes
\* the stake back once the voters have taken theirs.
CloseFact(f) ==
    /\ phase = "over" /\ f \notin closed
    /\ Fault
    /\ closed' = closed \cup {f}
    /\ UNCHANGED <<given, meta, phase, settled, funded, tampered, runs, txs>>

\* write_oracle_meta: once, in any phase; what the uri leads to, and whether there is
\* one, is the creator's affair.
WriteMeta ==
    /\ meta = "missing"
    /\ meta' \in {"usable", "unusable"}
    /\ UNCHANGED <<given, phase, settled, closed, funded, tampered, runs, txs, faults>>

FundClaim ==
    /\ ~funded
    /\ Fault
    /\ funded' = TRUE
    /\ UNCHANGED <<given, meta, phase, settled, closed, tampered, runs, txs>>

Tamper(x) ==
    /\ x \notin tampered
    /\ Fault
    /\ tampered' = tampered \cup {x}
    /\ UNCHANGED <<chain, runs, txs>>

Restore(x) ==
    /\ x \in tampered
    /\ tampered' = tampered \ {x}
    /\ UNCHANGED <<chain, runs, txs, faults>>

-----------------------------------------------------------------------------
Run(h) ==
    \/ ReadFacts(h) \/ FetchFact(h) \/ Complete(h) \/ Send(h)
    \/ Preflight(h) \/ Poll(h)

Next ==
    \/ \E h \in Hosts :
        ReadOracle(h) \/ LoadConfig(h) \/ Run(h) \/ SendUnanswered(h) \/ RequestFails(h)
    \/ \E i \in 1..MaxSends : i \in DOMAIN txs /\ (Process(i) \/ Expire(i))
    \/ Confirm \/ Fork
    \/ \E page \in SUBSET Facts : SettleFacts(page)
    \/ EndClaims \/ WriteMeta \/ FundClaim
    \/ \E f \in Facts : CloseFact(f)
    \/ \E x \in Facts \cup {Doc} : Tamper(x) \/ Restore(x)

\* A started run goes on (each await has a client timeout), a keeper whose run
\* ended without a confirmation is started again, the model answers in the end, the
\* cluster decides what it holds and a broken host is repaired.  The vote, the end of
\* the phase, the metadata and the claims on facts are never forced.
Spec ==
    /\ Init /\ [][Next]_vars
    /\ \A h \in Hosts : WF_vars(Run(h))
    /\ \A h \in Keepers : WF_vars(ReadOracle(h))
    /\ \A i \in 1..MaxSends : WF_vars(i \in DOMAIN txs /\ Process(i))
    /\ WF_vars(Confirm)
    /\ \A x \in Facts \cup {Doc} : WF_vars(Restore(x))

-----------------------------------------------------------------------------
(* Properties. *)

\* However often a keeper reruns after a timeout, a lost answer or a fork, its
\* proposer gets at most one claim (confirm.rs:154, submit_ai_claim.rs:120).
AtMostOneClaim == Cardinality(Landed) <= 1

\* A run that reports a confirmation has its own payload on chain: a later fork
\* cannot take it back (confirm.rs:126).
ConfirmedIsOnChain ==
    \A h \in Hosts : runs[h].pc = "confirmed" => runs[h].tx \in Landed

\* What a claim commits to can be reproduced for as long as the facts' accounts exist:
\* a run that reads its inputs from the chain asks the model with exactly the committed
\* rules and with nothing but agreed facts; with all of them if it reads the list when
\* all are settled and none of their submitters has closed one.  So a keeper and a
\* verifier on different machines ask the same question.  A run that read the list
\* earlier may have missed some, and its claim lands all the same (config.rs:193); one
\* that reads it later misses those that claim_fact has closed, without an error
\* (rpc/fetch.rs:200, claims/fact.rs:53), but no claim can land any more.
InputsAreReproducible ==
    /\ \A h \in Hosts : LET r == runs[h] IN
        r.pc \in {"model", "send", "printed"} /\ r.fromChain =>
            /\ r.rules = "committed"
            /\ r.facts \subseteq CommittedPrompt.facts
            /\ ~r.early /\ ~r.late => Prompt(r) = CommittedPrompt
    /\ \A i \in Landed : LET c == txs[i].claim IN
        c.fromChain /\ ~c.early => c.prompt = CommittedPrompt

\* Every run that starts ends (confirm.rs:91: the poll budget).
RunsEnd == \A h \in Hosts : runs[h].pc \in Busy ~> runs[h].pc \notin Busy

\* What a keeper cannot mend by running again: metadata that are missing, lead to no
\* usable prompt (config.rs:143-178) or list options the oracle does not have; an agreed
\* fact whose uri is not UTF-8 (rpc/fetch.rs:256) or not http(s), whose body is over the
\* cap (http.rs:79-131) or not UTF-8 (types.rs:152).
Claimable ==
    /\ meta = "usable" /\ Labels <= Options
    /\ unreadable = {} /\ unlistable = {}

\* As long as the AiClaim window lasts and the oracle's inputs can be read, faults that
\* stop do not cost the proposer its claim: one lands, unless a stranger put lamports
\* where it belongs (submit_ai_claim.rs:117).
ClaimLands ==
    phase = "claiming" /\ Claimable ~> Landed # {} \/ phase # "claiming" \/ funded

\* What a run reports is the one claim of its proposer.
OneConfirmedClaim == TypeOK /\ AtMostOneClaim /\ ConfirmedIsOnChain

\* No run hangs, and one of them brings the claim.
RunsSucceed == RunsEnd /\ ClaimLands
=============================================================================
