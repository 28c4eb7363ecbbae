---------------------------- MODULE RunnerProofs ----------------------------
(* Proofs about the AI runner, for any number of machines, facts, reruns and *)
(* faults: a proposer gets one claim at most, a confirmation is that of the  *)
(* claim on chain, and what was asked of the model can be asked again.       *)
EXTENDS Runner, FiniteSetTheorems, SequenceTheorems, TLAPS

-----------------------------------------------------------------------------
\* What a run and a transaction hold

RunType ==
    [pc : {"idle"} \cup Busy \cup Ended, fromChain : BOOLEAN, rules : Bodies \cup {"own"},
     refs : SUBSET Facts, facts : SUBSET (Facts \X Bodies), early : BOOLEAN,
     late : BOOLEAN, option : Nat, polls : Nat, tx : Nat]

TxStates == {"sent", "processed", "failing", "landed", "failed", "expired"}

TxType ==
    [claim : [prompt : Prompts, option : Nat, fromChain : BOOLEAN, early : BOOLEAN],
     state : TxStates]

\* The facts that a run has fetched or still means to are agreed ones, as
\* committed; and all of them if it read the list after the vote and before the
\* accounts were closed.
ReadsCommitted(r) ==
    r.fromChain /\ r.pc \in {"facts", "fetch", "model", "send", "printed"} =>
        /\ r.rules = "committed"
        /\ r.facts \subseteq agreed \X {"committed"}
        /\ r.pc = "facts" => r.facts = {}
        /\ r.pc \in {"model", "send", "printed"} => r.refs = {}
        /\ r.pc # "facts" => r.refs \subseteq agreed
        /\ r.pc # "facts" /\ ~r.early /\ ~r.late =>
              agreed \X {"committed"} \subseteq r.facts \cup (r.refs \X {"committed"})

GoodRun(r) ==
    /\ r \in RunType
    /\ r.polls \in 0 .. MaxPolls - 1 /\ r.tx \in 0 .. Len(txs)
    /\ r.pc = "confirm" => r.tx # 0
    /\ r.pc = "confirmed" => r.tx \in Landed
    /\ r.late => phase = "over"
    /\ ReadsCommitted(r)

GoodClaim(c) == c.fromChain /\ ~c.early => c.prompt = CommittedPrompt

\* Nothing is closed before the claims are over, so a late reader's claim never lands.
RunsInv ==
    /\ agreed \subseteq Facts /\ unreadable \subseteq Facts /\ unlistable \subseteq Facts
    /\ meta \in Metas /\ funded \in BOOLEAN
    /\ phase \in {"voting", "claiming", "over"}
    /\ settled \subseteq Facts /\ (phase # "voting" => settled = Facts)
    /\ closed \subseteq Facts /\ (phase # "over" => closed = {})
    /\ tampered \subseteq Facts \cup {Doc}
    /\ runs = [h \in Hosts |-> runs[h]] /\ \A h \in Hosts : GoodRun(runs[h])
    /\ txs \in Seq(TxType) /\ Len(txs) <= MaxSends
    /\ \A i \in DOMAIN txs : phase # "over" \/ i \in OnFork => GoodClaim(txs[i].claim)
    /\ \A i, j \in OnFork : i = j
    /\ faults \in 0 .. MaxFaults

\* What a step leaves of the others: no transaction and no landing is undone.
Onward ==
    /\ agreed' = agreed /\ (phase = "over" => phase' = "over") /\ Len(txs') >= Len(txs) /\ Len(txs') \in Nat
    /\ Landed \subseteq Landed'

LEMMA GoodStaysGood ==
    ASSUME Onward, Len(txs) \in Nat, NEW r, GoodRun(r)
    PROVE  GoodRun(r)'
BY DEF GoodRun, ReadsCommitted, Onward

\* A step of one machine that sends nothing.
LEMMA MachineStep ==
    ASSUME RunsInv, NEW h \in Hosts, NEW r, runs' = [runs EXCEPT ![h] = r], GoodRun(r),
           UNCHANGED <<chain, tampered, txs>>, faults' \in 0 .. MaxFaults
    PROVE  RunsInv'
<1>1. UNCHANGED <<agreed, unreadable, unlistable, meta, phase, settled, closed, funded,
                  tampered, txs>>
    BY DEF chain, given
<1>2. Landed' = Landed /\ OnFork' = OnFork /\ CommittedPrompt' = CommittedPrompt
    BY <1>1 DEF Landed, OnFork, CommittedPrompt
<1>3. \A g \in Hosts : GoodRun(runs[g])'
  <2> SUFFICES ASSUME NEW g \in Hosts PROVE GoodRun(runs[g])'
      OBVIOUS
  <2>1. runs'[g] = r \/ runs'[g] = runs[g]
      BY DEF RunsInv
  <2>2. CASE runs'[g] = r
      BY <1>1, <1>2, <2>2 DEF GoodRun, ReadsCommitted
  <2>3. CASE runs'[g] = runs[g]
    <3>1. GoodRun(runs[g])
        BY DEF RunsInv
    <3> QED
        BY <1>1, <1>2, <2>3, <3>1 DEF GoodRun, ReadsCommitted
  <2> QED
      BY <2>1, <2>2, <2>3
<1>4. runs' = [g \in Hosts |-> runs'[g]]
    BY DEF RunsInv
<1>5. \A i \in DOMAIN txs' : phase' # "over" \/ i \in OnFork' => GoodClaim(txs[i].claim)'
    BY <1>1, <1>2 DEF GoodClaim, RunsInv
<1>6. \A i, j \in OnFork' : i = j
    BY <1>2 DEF RunsInv
<1> QED
    BY <1>1, <1>3, <1>4, <1>5, <1>6 DEF RunsInv

\* An ended run, or a fresh one, is a good one.
LEMMA IdleIsGood ==
    ASSUME RunsInv, NEW how \in {"idle", "failed"},
           NEW r \in {[Idle EXCEPT !.pc = how], [Idle EXCEPT !.pc = how, !.tx = 0]}
    PROVE  GoodRun(r)
<1>1. Len(txs) \in Nat /\ 0 \in 0 .. MaxPolls - 1
    BY RunnerAssumption DEF RunsInv
<1>2. r.pc = how /\ r.facts = {} /\ r.polls = 0 /\ r.tx = 0 /\ r.late = FALSE
    BY DEF Idle
<1>3. r = [pc |-> how, fromChain |-> TRUE, rules |-> "own", refs |-> {}, facts |-> {},
           early |-> FALSE, late |-> FALSE, option |-> 0, polls |-> 0, tx |-> 0]
  <2>1. CASE r = [Idle EXCEPT !.pc = how]
      BY <2>1 DEF Idle
  <2>2. CASE r = [Idle EXCEPT !.pc = how, !.tx = 0]
      BY <2>2 DEF Idle
  <2> QED
      BY <2>1, <2>2
<1>4. r \in RunType
    BY <1>3 DEF RunType, Busy, Ended
<1> QED
    BY <1>1, <1>2, <1>4 DEF GoodRun, ReadsCommitted

LEMMA FaultCounted == ASSUME RunsInv, Fault PROVE faults' \in 0 .. MaxFaults
BY RunnerAssumption DEF RunsInv, Fault

LEMMA EndHolds ==
    ASSUME RunsInv, NEW h \in Hosts, Ends(h, "failed"), UNCHANGED <<chain, tampered, txs>>,
           faults' \in 0 .. MaxFaults
    PROVE  RunsInv'
<1>1. runs' = [runs EXCEPT ![h] = [Idle EXCEPT !.pc = "failed", !.tx = 0]]
    BY DEF Ends, Go
<1>2. GoodRun([Idle EXCEPT !.pc = "failed", !.tx = 0])
    BY IdleIsGood
<1> DEFINE r == [Idle EXCEPT !.pc = "failed", !.tx = 0]
<1> HIDE DEF r
<1>3. runs' = [runs EXCEPT ![h] = r] /\ GoodRun(r)
    BY <1>1, <1>2 DEF r
<1> QED
    BY <1>3, MachineStep

-----------------------------------------------------------------------------
\* What a machine does

LEMMA ReadOracleHolds ==
    ASSUME RunsInv, NEW h \in Hosts, ReadOracle(h)
    PROVE  RunsInv'
<1> DEFINE r == IF meta = "usable" /\ HashMatches(Doc)
                THEN [Idle EXCEPT !.pc = "facts", !.rules = Body(Doc)]
                ELSE [Idle EXCEPT !.pc = "failed"]
<1>1. /\ runs' = [runs EXCEPT ![h] = r] /\ UNCHANGED <<chain, tampered, txs>>
      /\ faults' \in 0 .. MaxFaults
    BY DEF ReadOracle, Go, RunsInv
<1>2. GoodRun(r)
  <2>1. CASE meta = "usable" /\ HashMatches(Doc)
    <3>1. r = [Idle EXCEPT !.pc = "facts", !.rules = "committed"]
        BY <2>1 DEF HashMatches
    <3>2. r \in RunType /\ r.pc = "facts" /\ r.rules = "committed" /\ r.facts = {}
          /\ r.polls = 0 /\ r.tx = 0 /\ r.late = FALSE
        BY <3>1 DEF Idle, RunType, Busy, Bodies
    <3>3. Len(txs) \in Nat /\ 0 \in 0 .. MaxPolls - 1
        BY RunnerAssumption DEF RunsInv
    <3> HIDE DEF r
    <3> QED
        BY <3>2, <3>3 DEF GoodRun, ReadsCommitted
  <2>2. CASE ~(meta = "usable" /\ HashMatches(Doc))
      BY <2>2, IdleIsGood
  <2> QED
      BY <2>1, <2>2
<1> HIDE DEF r
<1> QED
    BY <1>1, <1>2, MachineStep

LEMMA ReadFactsHolds ==
    ASSUME RunsInv, NEW h \in Hosts, ReadFacts(h)
    PROVE  RunsInv'
<1> DEFINE old == runs[h]
           before == phase = "voting"
           after == agreed \cap closed # {}
           r == [old EXCEPT !.pc = Fetching(AgreedNow), !.refs = AgreedNow,
                            !.early = before, !.late = after]
<1>1. /\ UNCHANGED <<chain, tampered, txs>> /\ faults' \in 0 .. MaxFaults /\ old.pc = "facts"
      /\ runs' = [runs EXCEPT ![h] = r] \/ Ends(h, "failed")
    BY DEF ReadFacts, Go, RunsInv
<1>2. GoodRun(old)
    BY DEF RunsInv
<1>3. /\ AgreedNow \subseteq agreed /\ AgreedNow \subseteq Facts
      /\ ~before /\ ~after => AgreedNow = agreed
      /\ after => phase = "over"
    BY DEF AgreedNow, RunsInv
<1>4. Fetching(AgreedNow) \in {"model", "fetch"} /\ (Fetching(AgreedNow) = "model" => AgreedNow = {})
    BY DEF Fetching
<1>5. before \in BOOLEAN /\ after \in BOOLEAN
    OBVIOUS
<1> HIDE DEF before, after
<1>6. r \in RunType
    BY <1>2, <1>3, <1>4, <1>5 DEF GoodRun, RunType, Busy
<1>7. /\ r.pc = Fetching(AgreedNow) /\ r.refs = AgreedNow /\ r.early = before /\ r.late = after
      /\ r.fromChain = old.fromChain /\ r.rules = old.rules /\ r.facts = old.facts
      /\ r.polls = old.polls /\ r.tx = old.tx
    BY <1>2 DEF GoodRun, RunType
<1> HIDE DEF r, old
<1>8. GoodRun(r)
  <2>1. r.fromChain => r.rules = "committed" /\ r.facts = {}
      BY <1>1, <1>2, <1>7 DEF GoodRun, ReadsCommitted
  <2>2. ReadsCommitted(r)
      BY <1>3, <1>4, <1>7, <2>1 DEF ReadsCommitted
  <2> QED
      BY <1>2, <1>3, <1>4, <1>6, <1>7, <2>2 DEF GoodRun
<1> QED
    BY <1>1, <1>8, MachineStep, EndHolds DEF old

LEMMA LoadConfigHolds ==
    ASSUME RunsInv, NEW h \in Hosts, LoadConfig(h)
    PROVE  RunsInv'
<1> DEFINE r == [Idle EXCEPT !.pc = Fetching(ConfigFacts), !.fromChain = FALSE,
                             !.refs = ConfigFacts]
<1>1. /\ runs' = [runs EXCEPT ![h] = r] /\ UNCHANGED <<chain, tampered, txs>>
      /\ faults' \in 0 .. MaxFaults
    BY FaultCounted DEF LoadConfig, Go
<1>2. Fetching(ConfigFacts) \in {"model", "fetch"} /\ ConfigFacts \subseteq Facts
    BY RunnerAssumption DEF Fetching
<1>3. r \in RunType /\ r.fromChain = FALSE /\ r.pc \in {"model", "fetch"} /\ r.polls = 0 /\ r.tx = 0
      /\ r.late = FALSE
    BY <1>2 DEF Idle, RunType, Busy
<1>4. Len(txs) \in Nat /\ 0 \in 0 .. MaxPolls - 1
    BY RunnerAssumption DEF RunsInv
<1> HIDE DEF r
<1>5. GoodRun(r)
    BY <1>3, <1>4 DEF GoodRun, ReadsCommitted
<1> QED
    BY <1>1, <1>5, MachineStep

LEMMA FetchFactHolds ==
    ASSUME RunsInv, NEW h \in Hosts, FetchFact(h)
    PROVE  RunsInv'
<1> DEFINE old == runs[h]
<1>1. PICK f \in old.refs :
          IF Accepted(f)
          THEN Go(h, [old EXCEPT !.pc = Fetching(old.refs \ {f}), !.refs = @ \ {f},
                                 !.facts = @ \cup {<<f, Body(f)>>}])
          ELSE Ends(h, "failed")
    BY DEF FetchFact
<1>2. old.pc = "fetch" /\ UNCHANGED <<chain, tampered, txs>> /\ faults' \in 0 .. MaxFaults
    BY DEF FetchFact, RunsInv
<1>3. CASE ~Accepted(f)
    BY <1>1, <1>2, <1>3, EndHolds
<1>4. CASE Accepted(f)
  <2> DEFINE next == Fetching(old.refs \ {f})
             r == [old EXCEPT !.pc = next, !.refs = @ \ {f},
                              !.facts = @ \cup {<<f, "committed">>}]
  <2>1. Body(f) = "committed"
      BY <1>4 DEF Accepted, HashMatches
  <2>2. runs' = [runs EXCEPT ![h] = r]
      BY <1>1, <1>4, <2>1 DEF Go
  <2>3. GoodRun(old)
      BY DEF RunsInv
  <2>4. next \in {"model", "fetch"} /\ (next = "model" => old.refs \ {f} = {})
      BY DEF Fetching
  <2> HIDE DEF next
  <2>5. old.refs \subseteq Facts /\ f \in Facts
      BY <2>3 DEF GoodRun, RunType
  <2>6. r \in RunType
    <3>1. old \in RunType /\ next \in {"idle"} \cup Busy \cup Ended /\ "committed" \in Bodies
        BY <2>3, <2>4 DEF GoodRun, Busy, Bodies
    <3>2. old.refs \ {f} \in SUBSET Facts
        BY <2>5
    <3>3. old.facts \cup {<<f, "committed">>} \in SUBSET (Facts \X Bodies)
      <4>1. old.facts \in SUBSET (Facts \X Bodies)
          BY <3>1 DEF RunType
      <4> QED
          BY <2>5, <3>1, <4>1
    <3> HIDE DEF old
    <3> QED
        BY <3>1, <3>2, <3>3 DEF RunType
  <2>7. /\ r.pc = next /\ r.refs = old.refs \ {f} /\ r.facts = old.facts \cup {<<f, "committed">>}
        /\ r.fromChain = old.fromChain /\ r.rules = old.rules /\ r.early = old.early
        /\ r.late = old.late /\ r.polls = old.polls /\ r.tx = old.tx
      BY <2>3 DEF GoodRun, RunType
  <2> HIDE DEF r, old
  <2>8. ReadsCommitted(r)
    <3> SUFFICES ASSUME r.fromChain
                 PROVE  /\ r.rules = "committed" /\ r.facts \subseteq agreed \X {"committed"}
                        /\ r.refs \subseteq agreed
                        /\ ~r.early /\ ~r.late => agreed \X {"committed"}
                                          \subseteq r.facts \cup (r.refs \X {"committed"})
        BY <2>4, <2>7 DEF ReadsCommitted
    <3>1. /\ old.rules = "committed" /\ old.facts \subseteq agreed \X {"committed"}
          /\ old.refs \subseteq agreed
          /\ ~old.early /\ ~old.late => agreed \X {"committed"}
                              \subseteq old.facts \cup (old.refs \X {"committed"})
        BY <1>2, <2>3, <2>7 DEF GoodRun, ReadsCommitted
    <3>2. f \in agreed
        BY <3>1
    <3>3. old.refs \X {"committed"} \subseteq {<<f, "committed">>} \cup (r.refs \X {"committed"})
        BY <2>7
    <3> QED
        BY <2>7, <3>1, <3>2, <3>3
  <2>9. GoodRun(r)
      BY <2>3, <2>4, <2>6, <2>7, <2>8 DEF GoodRun
  <2> QED
      BY <1>2, <2>2, <2>9, MachineStep DEF old
<1> QED
    BY <1>3, <1>4

LEMMA CompleteHolds ==
    ASSUME RunsInv, NEW h \in Hosts, Complete(h)
    PROVE  RunsInv'
<1> DEFINE old == runs[h]
           next == IF h \in Keepers THEN "send" ELSE "printed"
<1>0. PICK n \in Answers(old) : runs' = [runs EXCEPT ![h] =
                                    [old EXCEPT !.pc = next, !.option = n]]
    BY DEF Complete, Go
<1> DEFINE r == [old EXCEPT !.pc = next, !.option = n]
<1>1. /\ runs' = [runs EXCEPT ![h] = r] /\ UNCHANGED <<chain, tampered, txs>>
      /\ faults' \in 0 .. MaxFaults /\ old.pc = "model"
    BY <1>0 DEF Complete, RunsInv
<1>2. GoodRun(old)
    BY DEF RunsInv
<1>3. n \in Nat /\ next \in {"send", "printed"}
    BY <1>0, RunnerAssumption DEF Answers, Count
<1> HIDE DEF next
<1>4. r \in RunType
    BY <1>2, <1>3 DEF GoodRun, RunType, Busy, Ended
<1>5. /\ r.pc = next /\ r.refs = old.refs /\ r.facts = old.facts
      /\ r.fromChain = old.fromChain /\ r.rules = old.rules /\ r.early = old.early
      /\ r.late = old.late /\ r.polls = old.polls /\ r.tx = old.tx
    BY <1>2 DEF GoodRun, RunType
<1> HIDE DEF r, old
<1>6. GoodRun(r)
    BY <1>1, <1>2, <1>3, <1>4, <1>5 DEF GoodRun, ReadsCommitted
<1> QED
    BY <1>1, <1>6, MachineStep DEF old

LEMMA PollHolds ==
    ASSUME RunsInv, NEW h \in Hosts, Poll(h)
    PROVE  RunsInv'
<1> DEFINE old == runs[h]
           s == txs[old.tx].state
<1>1. /\ old.pc = "confirm" /\ UNCHANGED <<chain, tampered, txs>> /\ faults' \in 0 .. MaxFaults
      /\ IF s \in {"failing", "failed"} THEN Ends(h, "failed")
         ELSE IF Reached(s) THEN Ends(h, "confirmed") ELSE Go(h, Waits(old))
    BY DEF Poll, RunsInv
<1>2. GoodRun(old)
    BY DEF RunsInv
<1>3. Len(txs) \in Nat /\ old.tx \in 1 .. Len(txs) /\ old.tx \in DOMAIN txs
    BY <1>1, <1>2 DEF GoodRun, RunsInv, RunType
<1>4. CASE s \in {"failing", "failed"}
    BY <1>1, <1>4, EndHolds
<1>5. CASE s \notin {"failing", "failed"} /\ Reached(s)
  <2> DEFINE r == [Idle EXCEPT !.pc = "confirmed", !.tx = old.tx]
  <2>1. runs' = [runs EXCEPT ![h] = r]
      BY <1>1, <1>5 DEF Ends, Go
  <2>2. old.tx \in Landed
      BY <1>3, <1>5 DEF Landed, Reached
  <2>3. r \in RunType /\ r.pc = "confirmed" /\ r.tx = old.tx /\ r.polls = 0 /\ r.late = FALSE
    <3> HIDE DEF old, s
    <3>1. old.tx \in Nat
        BY <1>3
    <3> QED
        BY <3>1 DEF Idle, RunType, Ended
  <2>4. 0 \in 0 .. MaxPolls - 1
      BY RunnerAssumption
  <2> HIDE DEF r, old
  <2>5. GoodRun(r)
      BY <1>3, <2>2, <2>3, <2>4 DEF GoodRun, ReadsCommitted
  <2> QED
      BY <1>1, <2>1, <2>5, MachineStep
<1>6. CASE s \notin {"failing", "failed"} /\ ~Reached(s)
  <2>1. runs' = [runs EXCEPT ![h] = Waits(old)]
      BY <1>1, <1>6 DEF Go
  <2>2. GoodRun(Waits(old))
    <3>1. CASE old.polls + 1 = MaxPolls
      <4>1. Waits(old) = [Idle EXCEPT !.pc = "failed"]
          BY <3>1 DEF Waits
      <4> QED
          BY <4>1, IdleIsGood
    <3>2. CASE old.polls + 1 # MaxPolls
      <4> DEFINE r == [old EXCEPT !.polls = @ + 1]
      <4>1. Waits(old) = r
          BY <3>2 DEF Waits
      <4>2. r \in RunType /\ r.pc = old.pc /\ r.tx = old.tx /\ r.polls = old.polls + 1
            /\ r.late = old.late
          BY <1>2 DEF GoodRun, RunType
      <4>3. old.polls + 1 \in 0 .. MaxPolls - 1
          BY <1>2, <3>2, RunnerAssumption DEF GoodRun
      <4> HIDE DEF r, old
      <4>4. GoodRun(r)
          BY <1>1, <1>2, <1>3, <4>2, <4>3 DEF GoodRun, ReadsCommitted
      <4> QED
          BY <4>1, <4>4
    <3> QED
        BY <3>1, <3>2
  <2> DEFINE r == Waits(old)
  <2>3. runs' = [runs EXCEPT ![h] = r] /\ GoodRun(r)
      BY <2>1, <2>2
  <2> HIDE DEF r, old
  <2> QED
      BY <1>1, <2>3, MachineStep
<1> QED
    BY <1>4, <1>5, <1>6

-----------------------------------------------------------------------------
\* What is sent, and what becomes of it

\* A step that adds or moves transactions, and leaves every machine, or one of
\* them, with a run that suits the transactions as they are then.
LEMMA TransactionStep ==
    ASSUME RunsInv, UNCHANGED <<chain, tampered>>, faults' \in 0 .. MaxFaults,
           txs' \in Seq(TxType), Len(txs) <= Len(txs'), Len(txs') <= MaxSends,
           Landed \subseteq Landed',
           \A i \in DOMAIN txs' : \/ i \in DOMAIN txs /\ txs'[i].claim = txs[i].claim
                                  \/ phase # "over" => GoodClaim(txs'[i].claim),
           \A i \in OnFork' : i \in OnFork \/ phase # "over",
           \A i \in OnFork : txs'[i].claim = txs[i].claim,
           \A i, j \in OnFork' : i = j,
           runs' = [h \in Hosts |-> runs'[h]],
           \A h \in Hosts : runs'[h] = runs[h] \/ GoodRun(runs[h])'
    PROVE  RunsInv'
<1>1. /\ UNCHANGED <<agreed, unreadable, unlistable, meta, phase, settled, closed, funded, tampered>>
      /\ CommittedPrompt' = CommittedPrompt
    BY DEF chain, given, CommittedPrompt
<1>2. Len(txs) \in Nat /\ Len(txs') \in Nat /\ txs \in Seq(TxType)
    BY DEF RunsInv
<1>3. \A h \in Hosts : GoodRun(runs[h])'
  <2> SUFFICES ASSUME NEW h \in Hosts, runs'[h] = runs[h] PROVE GoodRun(runs[h])'
      OBVIOUS
  <2>1. GoodRun(runs[h])
      BY DEF RunsInv
  <2> QED
      BY <1>1, <1>2, <2>1 DEF GoodRun, ReadsCommitted
<1>4. \A i \in DOMAIN txs' : phase' # "over" \/ i \in OnFork' => GoodClaim(txs[i].claim)'
  <2> SUFFICES ASSUME NEW i \in DOMAIN txs', phase # "over" \/ i \in OnFork'
               PROVE  GoodClaim(txs'[i].claim)
      BY <1>1 DEF GoodClaim
  <2>1. CASE phase # "over"
      BY <2>1 DEF RunsInv
  <2>2. CASE phase = "over"
      BY <2>2 DEF RunsInv, OnFork
  <2> QED
      BY <2>1, <2>2
<1> QED
    BY <1>1, <1>3, <1>4 DEF RunsInv

LEMMA SentHolds ==
    ASSUME RunsInv, NEW h \in Hosts, NEW r, runs[h].pc = "send", Len(txs) < MaxSends,
           Sent(runs[h]), runs' = [runs EXCEPT ![h] = r],
           r = [Idle EXCEPT !.pc = "confirm", !.tx = Len(txs) + 1]
             \/ r = [Idle EXCEPT !.pc = "failed", !.tx = 0],
           UNCHANGED <<chain, tampered>>, faults' \in 0 .. MaxFaults
    PROVE  RunsInv'
<1> DEFINE old == runs[h]
           new == [claim |-> Claim(old), state |-> "sent"]
<1>1. txs' = Append(txs, new)
    BY DEF Sent
<1>2. GoodRun(old)
    BY DEF RunsInv
<1>3. new \in TxType
  <2>1. Prompt(old) \in Prompts
      BY <1>2 DEF GoodRun, RunType, Prompt, Prompts
  <2>2. Claim(old) \in [prompt : Prompts, option : Nat, fromChain : BOOLEAN, early : BOOLEAN]
      BY <1>2, <2>1 DEF GoodRun, RunType, Claim
  <2> QED
      BY <2>2 DEF TxType, TxStates
<1>4. phase # "over" => GoodClaim(new.claim)
  <2> SUFFICES ASSUME old.fromChain, ~old.early, ~old.late
               PROVE  Prompt(old) = CommittedPrompt
      BY <1>2 DEF GoodClaim, Claim, GoodRun, RunType
  <2>1. /\ old.rules = "committed" /\ old.refs = {} /\ old.facts \subseteq agreed \X {"committed"}
        /\ agreed \X {"committed"} \subseteq old.facts \cup (old.refs \X {"committed"})
      BY <1>2 DEF GoodRun, ReadsCommitted
  <2>2. old.facts = agreed \X {"committed"}
      BY <2>1
  <2> QED
      BY <2>1, <2>2 DEF Prompt, CommittedPrompt
<1>5. txs \in Seq(TxType)
    BY DEF RunsInv
<1> HIDE DEF new, old
<1>6. /\ txs' \in Seq(TxType) /\ Len(txs') = Len(txs) + 1 /\ Len(txs) \in Nat
      /\ txs'[Len(txs) + 1] = new /\ DOMAIN txs' = 1 .. Len(txs) + 1 /\ DOMAIN txs = 1 .. Len(txs)
      /\ \A i \in 1 .. Len(txs) : txs'[i] = txs[i]
    BY <1>1, <1>3, <1>5
<1>7. \A i \in DOMAIN txs' : \/ i \in DOMAIN txs /\ txs'[i] = txs[i]
                             \/ i = Len(txs) + 1 /\ txs'[i] = new
    BY <1>6
<1>8. \A i \in DOMAIN txs : i \in DOMAIN txs' /\ txs'[i] = txs[i]
    BY <1>6
<1>9. new.state = "sent"
    BY DEF new
<1>10. Landed' = Landed /\ OnFork' = OnFork
  <2>1. Landed' = Landed
      BY <1>7, <1>8, <1>9 DEF Landed
  <2>2. OnFork' = OnFork
      BY <1>7, <1>8, <1>9 DEF OnFork
  <2> QED
      BY <2>1, <2>2
<1>11. \A i \in DOMAIN txs' : \/ i \in DOMAIN txs /\ txs'[i].claim = txs[i].claim
                              \/ phase # "over" => GoodClaim(txs'[i].claim)
    BY <1>4, <1>7
<1>12. GoodRun(r)'
  <2> DEFINE Starting(how, n) ==
                 [pc |-> how, fromChain |-> TRUE, rules |-> "own", refs |-> {}, facts |-> {},
                  early |-> FALSE, late |-> FALSE, option |-> 0, polls |-> 0, tx |-> n]
  <2>0. r = Starting("confirm", Len(txs) + 1) \/ r = Starting("failed", 0)
    <3>1. CASE r = [Idle EXCEPT !.pc = "confirm", !.tx = Len(txs) + 1]
        BY <3>1 DEF Idle
    <3>2. CASE r = [Idle EXCEPT !.pc = "failed", !.tx = 0]
        BY <3>2 DEF Idle
    <3> QED
        BY <3>1, <3>2
  <2>1. /\ r.pc \in {"confirm", "failed"} /\ r.polls = 0 /\ r.late = FALSE /\ r.tx \in {0, Len(txs) + 1}
        /\ r.pc = "confirm" => r.tx # 0
      BY <1>6, <2>0
  <2>2. r \in RunType
    <3>1. \A n \in Nat : Starting("confirm", n) \in RunType /\ Starting("failed", n) \in RunType
        BY DEF RunType, Busy, Ended
    <3>2. Len(txs) + 1 \in Nat /\ 0 \in Nat
        BY <1>6
    <3> HIDE DEF Starting
    <3> QED
        BY <2>0, <3>1, <3>2
  <2>3. 0 \in 0 .. MaxPolls - 1
      BY RunnerAssumption
  <2> QED
      BY <1>6, <2>1, <2>2, <2>3 DEF GoodRun, ReadsCommitted
<1>13. /\ runs' = [g \in Hosts |-> runs'[g]]
       /\ \A g \in Hosts : runs'[g] = runs[g] \/ (runs'[g] = r)
    BY DEF RunsInv
<1>14. \A g \in Hosts : runs'[g] = runs[g] \/ GoodRun(runs[g])'
    BY <1>12, <1>13 DEF GoodRun, ReadsCommitted
<1>15. \A i, j \in OnFork' : i = j
    BY <1>10 DEF RunsInv
<1>16. Len(txs) <= Len(txs') /\ Len(txs') <= MaxSends
    BY <1>6, RunnerAssumption
<1>17. /\ \A i \in OnFork' : i \in OnFork \/ phase # "over"
       /\ \A i \in OnFork : txs'[i].claim = txs[i].claim
    BY <1>8, <1>10 DEF OnFork
<1> QED
    BY <1>6, <1>10, <1>11, <1>13, <1>14, <1>15, <1>16, <1>17, TransactionStep

\* The cluster moves transactions on, or back; their claims stay as they are.
LEMMA ClusterStep ==
    ASSUME RunsInv, UNCHANGED <<chain, tampered, runs>>, faults' \in 0 .. MaxFaults,
           txs' \in Seq(TxType), Len(txs') = Len(txs),
           \A i \in DOMAIN txs : txs'[i].claim = txs[i].claim,
           Landed \subseteq Landed', \A i, j \in OnFork' : i = j,
           \A i \in OnFork' : i \in OnFork \/ phase # "over"
    PROVE  RunsInv'
<1>1. Len(txs) \in Nat /\ DOMAIN txs' = DOMAIN txs /\ Len(txs) <= MaxSends
    BY DEF RunsInv
<1>2. runs' = [h \in Hosts |-> runs'[h]] /\ \A h \in Hosts : runs'[h] = runs[h]
    BY DEF RunsInv
<1>3. \A i \in DOMAIN txs' : i \in DOMAIN txs /\ txs'[i].claim = txs[i].claim
    BY <1>1
<1>4. UNCHANGED <<chain, tampered>> /\ \A i \in OnFork : txs'[i].claim = txs[i].claim
    BY DEF OnFork
<1> QED
    BY <1>1, <1>2, <1>3, <1>4, TransactionStep

LEMMA TxsTyped ==
    ASSUME RunsInv
    PROVE  /\ Len(txs) \in Nat /\ DOMAIN txs = 1 .. Len(txs)
           /\ \A i \in DOMAIN txs : txs[i] \in TxType
BY DEF RunsInv

\* Every transaction gets a state of its own by f.
LEMMA MovedTxs ==
    ASSUME RunsInv, NEW f \in [DOMAIN txs -> TxStates],
           txs' = [i \in DOMAIN txs |-> [txs[i] EXCEPT !.state = f[i]]]
    PROVE  /\ txs' \in Seq(TxType) /\ Len(txs') = Len(txs) /\ DOMAIN txs' = DOMAIN txs
           /\ \A i \in DOMAIN txs : txs'[i].claim = txs[i].claim /\ txs'[i].state = f[i]
<1>1. Len(txs) \in Nat /\ DOMAIN txs = 1 .. Len(txs) /\ \A i \in DOMAIN txs : txs[i] \in TxType
    BY TxsTyped
<1>2. \A i \in DOMAIN txs : /\ txs'[i] \in TxType
                            /\ txs'[i].claim = txs[i].claim /\ txs'[i].state = f[i]
    BY <1>1 DEF TxType
<1>3. txs' \in [1 .. Len(txs) -> TxType]
    BY <1>1, <1>2
<1>4. txs' \in Seq(TxType) /\ Len(txs') = Len(txs)
    BY <1>1, <1>3
<1> QED
    BY <1>1, <1>2, <1>4

LEMMA ProcessHolds ==
    ASSUME RunsInv, NEW i \in DOMAIN txs, Process(i)
    PROVE  RunsInv'
<1> DEFINE s == IF Accepts(i) THEN "processed" ELSE "failing"
           f == [k \in DOMAIN txs |-> IF k = i THEN s ELSE txs[k].state]
<1>1. /\ txs' = [txs EXCEPT ![i].state = s] /\ txs[i].state = "sent"
      /\ UNCHANGED <<chain, tampered, runs>> /\ faults' \in 0 .. MaxFaults
    BY DEF Process, RunsInv
<1>2. \A k \in DOMAIN txs : txs[k] \in TxType
    BY TxsTyped
<1>3. f \in [DOMAIN txs -> TxStates]
    BY <1>2 DEF TxType, TxStates
<1>4. txs' = [k \in DOMAIN txs |-> [txs[k] EXCEPT !.state = f[k]]]
  <2>1. \A k \in DOMAIN txs : k # i => [txs[k] EXCEPT !.state = f[k]] = txs[k]
      BY <1>2 DEF TxType
  <2>2. txs \in [DOMAIN txs -> TxType]
      BY <1>2, TxsTyped DEF RunsInv
  <2> HIDE DEF s
  <2> QED
      BY <1>1, <2>1, <2>2
<1>5. s = "processed" => OnFork = {} /\ phase # "over"
    BY DEF Accepts
<1>6. \A k \in DOMAIN txs : f[k] = IF k = i THEN s ELSE txs[k].state
    OBVIOUS
<1> HIDE DEF f
<1>7. /\ txs' \in Seq(TxType) /\ Len(txs') = Len(txs) /\ DOMAIN txs' = DOMAIN txs
      /\ \A k \in DOMAIN txs : txs'[k].claim = txs[k].claim /\ txs'[k].state = f[k]
    BY <1>3, <1>4, MovedTxs
<1>8. s \in {"processed", "failing"}
    OBVIOUS
<1> HIDE DEF s
<1>9. Landed \subseteq Landed'
    BY <1>1, <1>6, <1>7 DEF Landed
<1>10. /\ \A k, l \in OnFork' : k = l
       /\ \A k \in OnFork' : k \in OnFork \/ phase # "over"
  <2>1. \A k \in OnFork' : (k = i /\ s = "processed") \/ k \in OnFork
      BY <1>6, <1>7, <1>8 DEF OnFork
  <2> QED
      BY <1>5, <2>1 DEF RunsInv
<1> QED
    BY <1>1, <1>7, <1>9, <1>10, ClusterStep

LEMMA ExpireHolds ==
    ASSUME RunsInv, NEW i \in DOMAIN txs, Expire(i)
    PROVE  RunsInv'
<1> DEFINE f == [k \in DOMAIN txs |-> IF k = i THEN "expired" ELSE txs[k].state]
<1>1. /\ txs' = [txs EXCEPT ![i].state = "expired"] /\ txs[i].state = "sent"
      /\ UNCHANGED <<chain, tampered, runs>> /\ faults' \in 0 .. MaxFaults
    BY FaultCounted DEF Expire
<1>2. \A k \in DOMAIN txs : txs[k] \in TxType
    BY TxsTyped
<1>3. f \in [DOMAIN txs -> TxStates]
    BY <1>2 DEF TxType, TxStates
<1>4. txs' = [k \in DOMAIN txs |-> [txs[k] EXCEPT !.state = f[k]]]
  <2>1. \A k \in DOMAIN txs : k # i => [txs[k] EXCEPT !.state = f[k]] = txs[k]
      BY <1>2 DEF TxType
  <2>2. txs \in [DOMAIN txs -> TxType]
      BY <1>2, TxsTyped DEF RunsInv
  <2> QED
      BY <1>1, <2>1, <2>2
<1>6. \A k \in DOMAIN txs : f[k] = IF k = i THEN "expired" ELSE txs[k].state
    OBVIOUS
<1> HIDE DEF f
<1>7. /\ txs' \in Seq(TxType) /\ Len(txs') = Len(txs) /\ DOMAIN txs' = DOMAIN txs
      /\ \A k \in DOMAIN txs : txs'[k].claim = txs[k].claim /\ txs'[k].state = f[k]
    BY <1>3, <1>4, MovedTxs
<1>9. Landed \subseteq Landed'
    BY <1>1, <1>6, <1>7 DEF Landed
<1>10. (\A k, l \in OnFork' : k = l) /\ OnFork' \subseteq OnFork
  <2>1. \A k \in OnFork' : k \in OnFork
      BY <1>6, <1>7 DEF OnFork
  <2> QED
      BY <2>1 DEF RunsInv
<1> QED
    BY <1>1, <1>7, <1>9, <1>10, ClusterStep

LEMMA ConfirmHolds == ASSUME RunsInv, Confirm PROVE RunsInv'
<1> DEFINE After(s) == CASE s = "processed" -> "landed" [] s = "failing" -> "failed" [] OTHER -> s
           f == [k \in DOMAIN txs |-> After(txs[k].state)]
<1>1. /\ txs' = [k \in DOMAIN txs |-> [txs[k] EXCEPT !.state = f[k]]]
      /\ UNCHANGED <<chain, tampered, runs>> /\ faults' \in 0 .. MaxFaults
    BY DEF Confirm, RunsInv
<1>2. \A s : s \in TxStates => After(s) \in TxStates
    BY DEF TxStates
<1>3. \A s : /\ s = "landed" => After(s) = "landed"
             /\ After(s) \in {"processed", "landed"} => s \in {"processed", "landed"}
    OBVIOUS
<1> HIDE DEF After
<1>4. f \in [DOMAIN txs -> TxStates]
    BY <1>2, TxsTyped DEF TxType
<1>5. \A k \in DOMAIN txs : f[k] = After(txs[k].state)
    OBVIOUS
<1> HIDE DEF f
<1>6. /\ txs' \in Seq(TxType) /\ Len(txs') = Len(txs) /\ DOMAIN txs' = DOMAIN txs
      /\ \A k \in DOMAIN txs : txs'[k].claim = txs[k].claim /\ txs'[k].state = f[k]
    BY <1>1, <1>4, MovedTxs
<1>7. Landed \subseteq Landed'
    BY <1>3, <1>5, <1>6 DEF Landed
<1>8. (\A k, l \in OnFork' : k = l) /\ OnFork' \subseteq OnFork
  <2>1. \A k \in OnFork' : k \in OnFork
      BY <1>3, <1>5, <1>6 DEF OnFork
  <2> QED
      BY <2>1 DEF RunsInv
<1> QED
    BY <1>1, <1>6, <1>7, <1>8, ClusterStep

LEMMA ForkHolds == ASSUME RunsInv, Fork PROVE RunsInv'
<1> DEFINE After(s) == IF s \in {"processed", "failing"} THEN "sent" ELSE s
           f == [k \in DOMAIN txs |-> After(txs[k].state)]
<1>1. /\ txs' = [k \in DOMAIN txs |-> [txs[k] EXCEPT !.state = f[k]]]
      /\ UNCHANGED <<chain, tampered, runs>> /\ faults' \in 0 .. MaxFaults
    BY FaultCounted DEF Fork
<1>2. \A s : s \in TxStates => After(s) \in TxStates
    BY DEF TxStates
<1>3. \A s : /\ s = "landed" => After(s) = "landed"
             /\ After(s) \in {"processed", "landed"} => s \in {"processed", "landed"}
    OBVIOUS
<1> HIDE DEF After
<1>4. f \in [DOMAIN txs -> TxStates]
    BY <1>2, TxsTyped DEF TxType
<1>5. \A k \in DOMAIN txs : f[k] = After(txs[k].state)
    OBVIOUS
<1> HIDE DEF f
<1>6. /\ txs' \in Seq(TxType) /\ Len(txs') = Len(txs) /\ DOMAIN txs' = DOMAIN txs
      /\ \A k \in DOMAIN txs : txs'[k].claim = txs[k].claim /\ txs'[k].state = f[k]
    BY <1>1, <1>4, MovedTxs
<1>7. Landed \subseteq Landed'
    BY <1>3, <1>5, <1>6 DEF Landed
<1>8. (\A k, l \in OnFork' : k = l) /\ OnFork' \subseteq OnFork
  <2>1. \A k \in OnFork' : k \in OnFork
      BY <1>3, <1>5, <1>6 DEF OnFork
  <2> QED
      BY <2>1 DEF RunsInv
<1> QED
    BY <1>1, <1>6, <1>7, <1>8, ClusterStep

-----------------------------------------------------------------------------
\* The oracle, the strangers and the hosts of the facts

LEMMA WorldHolds ==
    ASSUME RunsInv,
           \/ \E page \in SUBSET Facts : SettleFacts(page)
           \/ EndClaims \/ WriteMeta \/ FundClaim
           \/ \E f \in Facts : CloseFact(f)
           \/ \E x \in Facts \cup {Doc} : Tamper(x) \/ Restore(x)
    PROVE  RunsInv'
<1>1. /\ UNCHANGED <<given, runs, txs>> /\ faults' \in 0 .. MaxFaults
      /\ tampered' \subseteq Facts \cup {Doc}
      /\ phase' \in {"voting", "claiming", "over"} /\ settled' \subseteq Facts
      /\ phase' # "voting" => settled' = Facts
      /\ phase = "over" => phase' = "over"
    BY FaultCounted DEF SettleFacts, EndClaims, WriteMeta, FundClaim, CloseFact, Tamper,
                        Restore, chain, RunsInv
<1>2. /\ meta' \in Metas /\ funded' \in BOOLEAN
      /\ closed' \subseteq Facts /\ (phase' # "over" => closed' = {})
    BY DEF SettleFacts, EndClaims, WriteMeta, FundClaim, CloseFact, Tamper, Restore, chain,
           RunsInv, Metas
<1>3. UNCHANGED <<agreed, unreadable, unlistable>>
    BY <1>1 DEF given
<1>4. Landed' = Landed /\ OnFork' = OnFork /\ CommittedPrompt' = CommittedPrompt
    BY <1>1, <1>3 DEF Landed, OnFork, CommittedPrompt
<1>5. \A h \in Hosts : GoodRun(runs[h])'
    BY <1>1, <1>3, <1>4 DEF GoodRun, ReadsCommitted, RunsInv
<1>6. \A i \in DOMAIN txs' : phase' # "over" \/ i \in OnFork' => GoodClaim(txs[i].claim)'
    BY <1>1, <1>4 DEF GoodClaim, RunsInv
<1> QED
    BY <1>1, <1>2, <1>3, <1>4, <1>5, <1>6 DEF RunsInv

-----------------------------------------------------------------------------
LEMMA RunsInvStep == RunsInv /\ [Next]_vars => RunsInv'
<1> SUFFICES ASSUME RunsInv, [Next]_vars PROVE RunsInv'
    OBVIOUS
<1>1. ASSUME NEW h \in Hosts,
             ReadOracle(h) \/ LoadConfig(h) \/ Run(h) \/ SendUnanswered(h) \/ RequestFails(h)
      PROVE  RunsInv'
  <2>1. CASE Send(h)
    <3> DEFINE r == [Idle EXCEPT !.pc = "confirm", !.tx = Len(txs) + 1]
    <3>1. /\ runs[h].pc = "send" /\ Len(txs) < MaxSends /\ Sent(runs[h])
          /\ runs' = [runs EXCEPT ![h] = r]
          /\ UNCHANGED <<chain, tampered>> /\ faults' \in 0 .. MaxFaults
        BY <2>1 DEF Send, Go, RunsInv
    <3> QED
        BY <3>1, SentHolds
  <2>2. CASE SendUnanswered(h)
    <3> DEFINE r == [Idle EXCEPT !.pc = "failed", !.tx = 0]
    <3>1. /\ runs[h].pc = "send" /\ Len(txs) < MaxSends /\ Sent(runs[h])
          /\ runs' = [runs EXCEPT ![h] = r]
          /\ UNCHANGED <<chain, tampered>> /\ faults' \in 0 .. MaxFaults
        BY <2>2, FaultCounted DEF SendUnanswered, Ends, Go
    <3> QED
        BY <3>1, SentHolds
  <2>3. CASE Preflight(h)
      BY <2>3, EndHolds DEF Preflight, RunsInv
  <2>4. CASE RequestFails(h)
      BY <2>4, EndHolds, FaultCounted DEF RequestFails
  <2> QED
      BY <1>1, <2>1, <2>2, <2>3, <2>4, ReadOracleHolds, LoadConfigHolds, ReadFactsHolds,
         FetchFactHolds, CompleteHolds, PollHolds DEF Run
<1>2. CASE UNCHANGED vars
  <2>1. /\ UNCHANGED <<agreed, unreadable, unlistable, meta, phase, settled, closed, funded>>
        /\ UNCHANGED <<tampered, runs, txs, faults>>
      BY <1>2 DEF vars, chain, given
  <2>2. Landed' = Landed /\ OnFork' = OnFork /\ CommittedPrompt' = CommittedPrompt
      BY <2>1 DEF Landed, OnFork, CommittedPrompt
  <2> QED
      BY <2>1, <2>2 DEF RunsInv, GoodRun, ReadsCommitted, GoodClaim
<1> QED
    BY <1>1, <1>2, ProcessHolds, ExpireHolds, ConfirmHolds, ForkHolds, WorldHolds DEF Next

LEMMA RunsInvHolds == Spec => []RunsInv
<1>1. Init => RunsInv
  <2> SUFFICES ASSUME Init PROVE RunsInv
      OBVIOUS
  <2>1. /\ agreed \subseteq Facts /\ unreadable \subseteq Facts /\ unlistable \subseteq Facts
        /\ meta \in Metas /\ funded = FALSE /\ settled \subseteq Facts
        /\ phase = "voting" /\ closed = {} /\ tampered = {}
        /\ runs = [h \in Hosts |-> Idle] /\ txs = <<>> /\ faults = 0
      BY DEF Init
  <2>2. GoodRun(Idle)
    <3>1. Idle \in RunType
        BY DEF Idle, RunType
    <3>2. 0 \in 0 .. MaxPolls - 1 /\ Len(txs) = 0
        BY <2>1, RunnerAssumption
    <3> QED
        BY <3>1, <3>2 DEF GoodRun, ReadsCommitted, Idle
  <2>3. txs \in Seq(TxType) /\ Len(txs) = 0 /\ DOMAIN txs = {} /\ OnFork = {}
      BY <2>1 DEF OnFork
  <2>4. runs = [h \in Hosts |-> runs[h]] /\ \A h \in Hosts : GoodRun(runs[h])
      BY <2>1, <2>2
  <2>5. 0 \in 0 .. MaxFaults /\ 0 <= MaxSends
      BY RunnerAssumption
  <2>6. funded \in BOOLEAN
      BY <2>1, Zenon
  <2>7. /\ \A i \in DOMAIN txs : phase # "over" \/ i \in OnFork => GoodClaim(txs[i].claim)
        /\ \A i, j \in OnFork : i = j
      BY <2>3
  <2>8. /\ phase \in {"voting", "claiming", "over"} /\ (phase # "voting" => settled = Facts)
        /\ closed \subseteq Facts /\ (phase # "over" => closed = {})
        /\ tampered \subseteq Facts \cup {Doc} /\ faults \in 0 .. MaxFaults
        /\ Len(txs) <= MaxSends
      BY <2>1, <2>3, <2>5
  <2> QED
      BY <2>1, <2>3, <2>4, <2>6, <2>7, <2>8 DEF RunsInv
<1> QED
    BY <1>1, RunsInvStep, PTL DEF Spec

-----------------------------------------------------------------------------
\* What the proposer and the verifiers may rely on

\* However often a keeper sends, times out and sends again, over forks and
\* expiries, its proposer has one claim at most, and a run that reports a
\* confirmation reports that one (confirm.rs, submit_ai_claim.rs).
THEOREM OneClaimConfirmed == Spec => []OneConfirmedClaim
<1>1. RunsInv => OneConfirmedClaim
  <2> SUFFICES ASSUME RunsInv PROVE OneConfirmedClaim
      OBVIOUS
  <2>1. TypeOK
    <3>1. Len(txs) \in Nat /\ \A i \in DOMAIN txs : txs[i].state \in TxStates
        BY TxsTyped DEF TxType
    <3>2. \A h \in Hosts : Prompt(runs[h]) \in Prompts
        BY DEF RunsInv, GoodRun, RunType, Prompt, Prompts
    <3>3. \A h \in Hosts : /\ runs[h].pc \in {"idle"} \cup Busy \cup Ended
                           /\ runs[h].refs \subseteq Facts
                           /\ runs[h].polls \in 0 .. MaxPolls - 1
                           /\ runs[h].tx \in 0 .. Len(txs)
        BY DEF RunsInv, GoodRun, RunType
    <3> QED
        BY <3>1, <3>2, <3>3 DEF RunsInv, TypeOK, TxStates
  <2>2. AtMostOneClaim
    <3>1. \A i, j \in Landed : i = j
        BY DEF RunsInv, Landed, OnFork
    <3>2. CASE Landed = {}
        BY <3>2, FS_EmptySet DEF AtMostOneClaim
    <3>3. ASSUME NEW i \in Landed PROVE AtMostOneClaim
      <4>1. Landed = {i}
          BY <3>1, <3>3
      <4>2. Cardinality({i}) = 1
          BY FS_Singleton, Zenon
      <4> QED
          BY <4>1, <4>2 DEF AtMostOneClaim
    <3> QED
        BY <3>2, <3>3
  <2>3. ConfirmedIsOnChain
      BY DEF RunsInv, GoodRun, ConfirmedIsOnChain
  <2> QED
      BY <2>1, <2>2, <2>3 DEF OneConfirmedClaim
<1> QED
    BY <1>1, RunsInvHolds, PTL

\* Whoever reads an oracle's inputs from the chain after the vote, and before a
\* submitter has closed an agreed fact, asks the model the question that every other
\* such machine asks: the committed rules and all agreed facts, whatever the web servers
\* hand out meanwhile.  A claim that lands was asked that question unless it was read
\* during the vote; a reading after a closure lacks facts, and what it brings never
\* lands (config.rs, core.rs, rpc/fetch.rs:200, claims/fact.rs:53).
THEOREM InputsReproducible == Spec => []InputsAreReproducible
<1>1. RunsInv => InputsAreReproducible
  <2> SUFFICES ASSUME RunsInv PROVE InputsAreReproducible
      OBVIOUS
  <2>1. ASSUME NEW h \in Hosts, runs[h].pc \in {"model", "send", "printed"}, runs[h].fromChain
        PROVE  /\ runs[h].rules = "committed" /\ runs[h].facts \subseteq CommittedPrompt.facts
               /\ ~runs[h].early /\ ~runs[h].late => Prompt(runs[h]) = CommittedPrompt
    <3>1. ReadsCommitted(runs[h])
        BY DEF RunsInv, GoodRun
    <3>2. /\ runs[h].rules = "committed" /\ runs[h].refs = {}
          /\ runs[h].facts \subseteq agreed \X {"committed"}
          /\ ~runs[h].early /\ ~runs[h].late => agreed \X {"committed"} \subseteq runs[h].facts
        BY <2>1, <3>1 DEF ReadsCommitted
    <3>3. CommittedPrompt.facts = agreed \X {"committed"} /\ CommittedPrompt.rules = "committed"
        BY DEF CommittedPrompt
    <3>4. ~runs[h].early /\ ~runs[h].late => runs[h].facts = agreed \X {"committed"}
        BY <3>2
    <3> QED
        BY <3>2, <3>3, <3>4 DEF Prompt, CommittedPrompt
  <2>2. \A i \in Landed : txs[i].claim.fromChain /\ ~txs[i].claim.early
                             => txs[i].claim.prompt = CommittedPrompt
      BY DEF RunsInv, Landed, OnFork, GoodClaim
  <2> QED
      BY <2>1, <2>2 DEF InputsAreReproducible
<1> QED
    BY <1>1, RunsInvHolds, PTL
=============================================================================
