---------------------------- MODULE EventIndexer ----------------------------
(* The oracle side of the indexer (src/indexer): a crawler re-fetches every    *)
(* transaction newer than a durable cursor, a processor stores one row per     *)
(* instruction, and a timer promotes the cursor once the oldest slot processed *)
(* in this run has not moved between two ticks.  Beside it, the metadata       *)
(* fetcher completes the JSON that oracles commit to by its hash.              *)
(*                                                                             *)
(* A transaction is a number, in chain order, and carries one instruction.     *)
(* Carbon's RpcTransactionCrawler is external: it lists what is newer than its *)
(* `until`, newest first, and has MaxConcurrent transactions in flight.        *)
EXTENDS Naturals, FiniteSets, Sequences, SequencesExt

CONSTANTS
    Slots,            \* Slots[t] is the slot of transaction t, never descending
    Oracles,          \* the oracles that metadata is written for
    Metas,            \* Metas[t] is what t writes with write_oracle_meta, or NoMeta
    Hosted,           \* Hosted[o] is the JSON behind o's uri
    Posts,            \* the JSON bodies that may be POSTed, at most one of each
    Batch,            \* oracles tried at each tick of the fetcher (50)
    MaxConcurrent,    \* transactions fetched at a time (10)
    MaxCrashes,       \* bound: how often the process dies
    MaxFaults         \* bound: how often a database write fails

None == "none"
NoMeta == [oracle |-> None, json |-> None]
Txs == DOMAIN Slots
Jsons == {Metas[t].json : t \in Txs} \cup {Hosted[o] : o \in Oracles} \cup Posts \cup {None}

ASSUME IndexerAssumption ==
    /\ Slots \in Seq(Nat \ {0})
    /\ \A t, u \in Txs : t <= u => Slots[t] <= Slots[u]
    /\ \A t \in Txs : Metas[t] = NoMeta \/ Metas[t].oracle \in Oracles
    /\ Batch \in Nat \ {0} /\ MaxConcurrent \in Nat \ {0}
    /\ MaxCrashes \in Nat /\ MaxFaults \in Nat

VARIABLES
    tip,               \* the newest finalized transaction
    events,            \* the `events` table
    cursor,            \* `indexer_cursor`: a transaction, 0 while there is none
    oracle_metadata,   \* per oracle, the transaction whose metadata is kept, or 0
    oracle_meta_json,  \* per oracle, the stored JSON
    up,                \* whether the process runs
    until,             \* the newest transaction that the crawler has listed
    queue,             \* what it has listed and not handed over yet
    handling,          \* the processor: [tx, step], between its awaits
    session,           \* Session: head and min_slot
    last_min,          \* min_slot at the last tick of the promotion task
    promoting,         \* the head that a tick is about to write
    todo,              \* the fetcher's work list
    failed,            \* history: what could not be stored in this run
    passed,            \* history: what was queued or had failed when the cursor went by
    posted, crashes, faults

durable == <<events, cursor, oracle_metadata, oracle_meta_json>>
crawler == <<until, queue>>
promoter == <<last_min, promoting>>
counters == <<posted, crashes, faults>>
vars == <<tip, durable, up, crawler, handling, session, promoter, todo, failed, passed, counters>>

\* i64::MAX, the slot of no transaction
Never == Slots[Len(Slots)] + 1
SlotOf(t) == IF t = 0 THEN 0 ELSE Slots[t]
Idle == [tx |-> 0, step |-> None]
Fresh == [head |-> 0, min_slot |-> Never]

-----------------------------------------------------------------------------
(* What the program keeps in memory, as it is at launch.                      *)
Init ==
    /\ tip = 0 /\ events = {} /\ cursor = 0
    /\ oracle_metadata = [o \in Oracles |-> 0]
    /\ oracle_meta_json = [o \in Oracles |-> None]
    /\ up = FALSE /\ until = 0 /\ queue = <<>> /\ handling = Idle
    /\ session = Fresh /\ last_min = Never /\ promoting = 0 /\ todo = <<>>
    /\ failed = {} /\ passed = {} /\ posted = {} /\ crashes = 0 /\ faults = 0

(* A slot with its transactions is finalized. *)
Land ==
    /\ \E t \in Txs :
          /\ t > tip
          /\ \A u \in Txs : u > tip => Slots[u] >= Slots[t]
          /\ \A u \in Txs : Slots[u] = Slots[t] => u <= t
          /\ tip' = t
    /\ UNCHANGED <<durable, up, crawler, handling, session, promoter, todo, failed, passed, counters>>

(* Launch: the durable cursor is the crawler's `until` and the session's head. *)
Resume_Newest(mark) ==
    /\ until' = Max(events \cup {mark})
    /\ session' = [Fresh EXCEPT !.head = mark]
Resume_AtTip(mark) ==
    /\ until' = IF mark = 0 THEN tip ELSE mark
    /\ session' = [Fresh EXCEPT !.head = mark]
Resume(mark) ==
    /\ until' = mark
    /\ session' = [Fresh EXCEPT !.head = mark]

Start ==
    /\ ~up
    /\ up' = TRUE
    /\ Resume(cursor)
    /\ UNCHANGED <<tip, durable, queue, handling, promoter, todo, failed, passed, counters>>

(* Whatever was in memory is gone. *)
Crash ==
    /\ up
    /\ crashes < MaxCrashes
    /\ crashes' = crashes + 1
    /\ up' = FALSE /\ until' = 0 /\ queue' = <<>> /\ handling' = Idle
    /\ session' = Fresh /\ last_min' = Never /\ promoting' = 0 /\ todo' = <<>> /\ failed' = {}
    /\ UNCHANGED <<tip, durable, passed, posted, faults>>

(* The crawler lists the signatures newer than `until`, newest first. *)
Poll ==
    /\ up /\ until < tip
    /\ queue' = queue \o [i \in 1..(tip - until) |-> tip + 1 - i]
    /\ until' = tip
    /\ UNCHANGED <<tip, durable, up, handling, session, promoter, todo, failed, passed, counters>>

(* A database write fails; how often is bounded. *)
Fault == faults < MaxFaults /\ faults' = faults + 1

(* One of the transactions in flight arrives and its instruction is inserted, *)
(* ON CONFLICT DO NOTHING.  When the insert fails the processor returns early: *)
(* the session does not hear of the transaction.                              *)
Process_SkipKnown ==
    /\ up /\ handling = Idle
    /\ \E i \in DOMAIN queue :
          LET t == queue[i] IN
          /\ i <= MaxConcurrent
          /\ queue' = RemoveAt(queue, i)
          /\ \/ /\ events' = events \cup {t}
                /\ handling' = [tx |-> t, step |-> IF t \in events THEN "session" ELSE "metadata"]
                /\ UNCHANGED <<failed, faults>>
             \/ /\ Fault
                /\ failed' = failed \cup {t}
                /\ UNCHANGED <<events, handling>>
    /\ UNCHANGED <<tip, cursor, oracle_metadata, oracle_meta_json, up, until, session, promoter,
                   todo, passed, posted, crashes>>
Process ==
    /\ up /\ handling = Idle
    /\ \E i \in DOMAIN queue :
          LET t == queue[i] IN
          /\ i <= MaxConcurrent
          /\ queue' = RemoveAt(queue, i)
          /\ \/ /\ events' = events \cup {t}
                /\ handling' = [tx |-> t, step |-> "metadata"]
                /\ UNCHANGED <<failed, faults>>
             \/ /\ Fault
                /\ failed' = failed \cup {t}
                /\ UNCHANGED <<events, handling>>
    /\ UNCHANGED <<tip, cursor, oracle_metadata, oracle_meta_json, up, until, session, promoter,
                   todo, passed, posted, crashes>>

(* insert_oracle_meta keeps the first row of an oracle; its failure is logged. *)
insert_oracle_meta(t) ==
    LET o == Metas[t].oracle IN
    oracle_metadata' = IF o \in Oracles /\ oracle_metadata[o] = 0
                       THEN [oracle_metadata EXCEPT ![o] = t]
                       ELSE oracle_metadata

IndexMetadata ==
    /\ handling.step = "metadata"
    /\ handling' = [handling EXCEPT !.step = "session"]
    /\ \/ insert_oracle_meta(handling.tx) /\ UNCHANGED <<failed, faults>>
       \/ /\ Metas[handling.tx] # NoMeta
          /\ Fault
          /\ failed' = failed \cup {handling.tx}
          /\ UNCHANGED oracle_metadata
    /\ UNCHANGED <<tip, events, cursor, oracle_meta_json, up, crawler, session, promoter, todo,
                   passed, posted, crashes>>

(* The session keeps the newest slot, with its signature, and the oldest. *)
note_processed_Last(s, t) ==
    [head |-> t, min_slot |-> IF Slots[t] < s.min_slot THEN Slots[t] ELSE s.min_slot]
note_processed(s, t) ==
    [head |-> IF s.head = 0 \/ Slots[t] > SlotOf(s.head) THEN t ELSE s.head,
     min_slot |-> IF Slots[t] < s.min_slot THEN Slots[t] ELSE s.min_slot]

NoteProcessed ==
    /\ handling.step = "session"
    /\ session' = note_processed(session, handling.tx)
    /\ handling' = Idle
    /\ UNCHANGED <<tip, durable, up, crawler, promoter, todo, failed, passed, counters>>

-----------------------------------------------------------------------------
(* The promotion task: a tick copies the session; when the oldest slot did not *)
(* move since the last tick it writes the head as the cursor.                  *)
frontier_stable_Descending(prev_min, cur_min) == cur_min # Never /\ cur_min < prev_min
frontier_stable(prev_min, cur_min) == cur_min # Never /\ cur_min = prev_min

Tick ==
    /\ up /\ promoting = 0
    /\ promoting' = IF frontier_stable(last_min, session.min_slot) THEN session.head ELSE 0
    /\ last_min' = session.min_slot
    /\ <<last_min', promoting'>> # promoter
    /\ UNCHANGED <<tip, durable, up, crawler, handling, session, todo, failed, passed, counters>>

Pending == ToSet(queue) \cup ({handling.tx} \ {0})

Promote ==
    /\ promoting # 0
    /\ promoting' = 0
    /\ \/ /\ cursor' = promoting
          /\ passed' = passed \cup {t \in Pending \cup failed : t <= promoting}
          /\ UNCHANGED faults
       \/ Fault /\ UNCHANGED <<cursor, passed>>
    /\ UNCHANGED <<tip, events, oracle_metadata, oracle_meta_json, up, crawler, handling, session,
                   last_min, todo, failed, posted, crashes>>

-----------------------------------------------------------------------------
(* The metadata store.  Committed(o) is the JSON whose hash is indexed for o. *)
Committed(o) == IF oracle_metadata[o] = 0 THEN None ELSE Metas[oracle_metadata[o]].json

(* Anybody may POST a JSON; the latest one is kept. *)
Post ==
    /\ up
    /\ \E o \in Oracles, j \in Posts \ posted :
          /\ posted' = posted \cup {j}
          /\ oracle_meta_json' = [oracle_meta_json EXCEPT ![o] = j]
    /\ UNCHANGED <<tip, events, cursor, oracle_metadata, up, crawler, handling, session, promoter,
                   todo, failed, passed, crashes, faults>>

(* The stored JSON is served only when it is the committed one. *)
Served(o) == IF oracle_meta_json[o] = Committed(o) THEN oracle_meta_json[o] ELSE None

(* oracles_missing_meta_json: the newest Batch oracles whose JSON is not here. *)
Missing_AnyJson == {o \in Oracles : oracle_metadata[o] # 0 /\ oracle_meta_json[o] = None}
Missing == {o \in Oracles : oracle_metadata[o] # 0 /\ Served(o) = None}
NewerMissing(o) == {p \in Missing : oracle_metadata[p] > oracle_metadata[o]}
WorkList == SetToSortSeq({o \in Missing : Cardinality(NewerMissing(o)) < Batch},
                         LAMBDA o, p : oracle_metadata[o] > oracle_metadata[p])

StartFetching ==
    /\ up /\ todo = <<>> /\ Missing # {}
    /\ todo' = [i \in DOMAIN WorkList |-> [oracle |-> WorkList[i], json |-> Committed(WorkList[i])]]
    /\ UNCHANGED <<tip, durable, up, crawler, handling, session, promoter, failed, passed, counters>>

(* fetch_and_verify, then the upsert: only a body with the committed hash is stored. *)
fetch_and_verify(item) == IF Hosted[item.oracle] = item.json THEN item.json ELSE None

Fetch ==
    /\ todo # <<>>
    /\ todo' = Tail(todo)
    /\ LET item == Head(todo)
           body == fetch_and_verify(item)
       IN  \/ /\ oracle_meta_json' = IF body = None THEN oracle_meta_json
                                     ELSE [oracle_meta_json EXCEPT ![item.oracle] = body]
              /\ UNCHANGED faults
           \/ body # None /\ Fault /\ UNCHANGED oracle_meta_json
    /\ UNCHANGED <<tip, events, cursor, oracle_metadata, up, crawler, handling, session, promoter,
                   failed, passed, posted, crashes>>

-----------------------------------------------------------------------------
Next ==
    \/ Land \/ Start \/ Crash \/ Poll
    \/ Process \/ IndexMetadata \/ NoteProcessed
    \/ Tick \/ Promote
    \/ Post \/ StartFetching \/ Fetch

(* The loops run as long as the process does, and a supervisor restarts it; *)
(* nothing obliges the chain to produce, a client to POST or a fault to come. *)
Fairness ==
    /\ WF_vars(Start) /\ WF_vars(Poll)
    /\ WF_vars(Process) /\ WF_vars(IndexMetadata) /\ WF_vars(NoteProcessed)
    /\ WF_vars(Tick) /\ WF_vars(Promote)
    /\ WF_vars(StartFetching) /\ WF_vars(Fetch)

Spec == Init /\ [][Next]_vars /\ Fairness
-----------------------------------------------------------------------------
(* Every variable holds a value of the kind the code gives it. *)
TypeOK ==
    /\ tip \in 0..Len(Slots) /\ events \in SUBSET Txs /\ cursor \in 0..Len(Slots)
    /\ oracle_metadata \in [Oracles -> 0..Len(Slots)]
    /\ oracle_meta_json \in [Oracles -> Jsons]
    /\ up \in BOOLEAN /\ until \in 0..Len(Slots) /\ queue \in Seq(Txs)
    /\ handling \in [tx : 0..Len(Slots), step : {None, "metadata", "session"}]
    /\ session \in [head : 0..Len(Slots), min_slot : 1..Never]
    /\ last_min \in 1..Never /\ promoting \in 0..Len(Slots)
    /\ todo \in Seq([oracle : Oracles, json : Jsons \ {None}])
    /\ failed \in SUBSET Txs /\ passed \in SUBSET Txs
    /\ posted \in SUBSET Posts /\ crashes \in 0..MaxCrashes /\ faults \in 0..MaxFaults

(* What the durable cursor has gone by is in the events table, unless the     *)
(* cursor was promoted while it was still queued or after its insert failed:  *)
(* no crash, restart, poll or order of arrival opens a gap in any other way   *)
(* (main.rs: "so nothing is missed").                                         *)
IndexedUpToCursor == \A t \in 1..cursor : t \in events \cup passed

(* Likewise for the metadata: below the cursor an oracle that announced its   *)
(* metadata has a row, although the row is written after the event and a      *)
(* crash may come in between.                                                 *)
MetadataFollowsEvents ==
    \A t \in 1..cursor :
        Metas[t] # NoMeta /\ t \notin passed => oracle_metadata[Metas[t].oracle] # 0

(* The cursor only moves to an event that is stored, of a later slot, however *)
(* the transactions of a batch arrive.                                        *)
CursorAdvances ==
    [][cursor' # cursor => cursor' \in events' /\ SlotOf(cursor') > SlotOf(cursor)]_vars

(* Every finalized transaction is indexed in the end, if it was not passed    *)
(* over and its insert did not fail.                                          *)
EventuallyIndexed ==
    \A t \in Txs : (t <= tip) ~> (t \in events \cup passed \cup failed)

(* The cursor catches up with what is indexed, so that a later restart does   *)
(* not fetch it all again.                                                    *)
CursorCatchesUp ==
    <>[](\A t \in events \ failed : SlotOf(t) <= SlotOf(cursor))

(* A committed JSON that its host serves is served by the indexer in the end, *)
(* whatever was POSTed in its place, unless Batch newer oracles are missing   *)
(* theirs: those are tried first, at every tick.                              *)
Starved(o) == Cardinality(NewerMissing(o)) >= Batch
MetadataServed ==
    \A o \in Oracles : <>[](\/ oracle_metadata[o] = 0
                            \/ Hosted[o] # Committed(o)
                            \/ Starved(o)
                            \/ Served(o) # None)

(* Neither an event nor its metadata is left behind the durable cursor.       *)
NothingMissed == IndexedUpToCursor /\ MetadataFollowsEvents

(* The index and its cursor catch up with the chain.                          *)
IndexerCatchesUp == EventuallyIndexed /\ CursorCatchesUp
=============================================================================
