---------------------------- MODULE IndexerProofs ----------------------------
(* Proofs about the two halves of the indexer, for any chain, any order of     *)
(* arrival and any number of crashes and failures.  First the durable cursor   *)
(* of EventIndexer: what it has gone by, and where it goes.  Then the table of *)
(* AccountMirror: the types, that rows do not go back, that pruning spares     *)
(* live rows, and what a pass leaves behind.                                   *)
EXTENDS EventIndexer, AccountMirror, SequenceTheorems, TLAPS

\* The types that the cursor depends on.
CursorTypes ==
    /\ tip \in 0..Len(Slots) /\ events \subseteq Txs /\ cursor \in 0..Len(Slots)
    /\ oracle_metadata \in [Oracles -> 0..Len(Slots)]
    /\ up \in BOOLEAN /\ until \in 0..Len(Slots) /\ queue \in Seq(Txs)
    /\ handling \in [tx : 0..Len(Slots), step : {None, "metadata", "session"}]
    /\ session.head \in 0..Len(Slots) /\ promoting \in 0..Len(Slots)

\* Nothing is under way in a process that is down.
DownIsIdle == ~up => queue = <<>> /\ handling = Idle /\ promoting = 0 /\ until = 0

\* The processor's transaction is one while a step is due.
HandlingShape == handling.step = None <=> handling.tx = 0

\* What was listed is below the crawler's mark.
ListedBelow ==
    /\ until <= tip /\ cursor <= tip
    /\ \A t \in ToSet(queue) : t <= until
    /\ handling.tx <= until /\ session.head <= until
    /\ promoting <= until

\* The metadata that t announces, if any, is in its table.
MetaStored(t) == Metas[t] # NoMeta => oracle_metadata[Metas[t].oracle] # 0

Stored(t) ==
    /\ t \in events
    /\ MetaStored(t) \/ (handling.tx = t /\ handling.step = "metadata")

\* A transaction below the crawler's mark, or below the cursor, is stored,
\* waits, failed, or was passed over.
Listed == \A t \in 1..until : Stored(t) \/ t \in passed \cup failed \cup ToSet(queue)
GoneBy == \A t \in 1..cursor : (t \in events /\ MetaStored(t)) \/ t \in passed

\* The cursor, the head about to be written and the head of the session follow
\* each other in the order of slots, and are events.
Behind(t, u) == t = u \/ SlotOf(t) < SlotOf(u)
HeadsFollow ==
    /\ up => Behind(cursor, session.head)
    /\ promoting # 0 => Behind(cursor, promoting) /\ Behind(promoting, session.head)
    /\ {cursor, promoting, session.head, handling.tx} \ {0} \subseteq events

CursorInv ==
    /\ CursorTypes /\ DownIsIdle /\ HandlingShape /\ ListedBelow /\ Listed /\ GoneBy /\ HeadsFollow
-----------------------------------------------------------------------------
\* Sequences and slots

LEMMA Transactions ==
    /\ Len(Slots) \in Nat /\ Txs = 1..Len(Slots)
    /\ \A t \in Txs : SlotOf(t) \in Nat \ {0}
    /\ SlotOf(0) = 0
    /\ \A t \in 0..Len(Slots) : SlotOf(t) \in Nat
BY IndexerAssumption DEF SlotOf, Txs

LEMMA ConcatSet ==
    ASSUME NEW s \in Seq(Txs), NEW r \in Seq(Txs)
    PROVE  s \o r \in Seq(Txs) /\ ToSet(s \o r) = ToSet(s) \cup ToSet(r)
<1>1. ToSet(s) = Range(s) /\ ToSet(r) = Range(r) /\ ToSet(s \o r) = Range(s \o r)
    BY Zenon DEF Range, ToSet
<1>2. Range(s \o r) = Range(s) \cup Range(r)
    BY RangeConcatenation, Zenon
<1>3. s \o r \in Seq(Txs)
    BY ConcatProperties, Zenon
<1> QED
    BY <1>1, <1>2, <1>3, Zenon

LEMMA SetIsTxs ==
    ASSUME NEW s \in Seq(Txs)
    PROVE  ToSet(s) = {s[i] : i \in 1..Len(s)} /\ ToSet(s) \subseteq Txs
BY DEF ToSet

\* Removing one element keeps all others.
LEMMA RemoveAtKeeps ==
    ASSUME NEW s \in Seq(Txs), NEW i \in DOMAIN s
    PROVE  /\ RemoveAt(s, i) \in Seq(Txs)
           /\ ToSet(RemoveAt(s, i)) \subseteq ToSet(s)
           /\ ToSet(s) \subseteq ToSet(RemoveAt(s, i)) \cup {s[i]}
<1> DEFINE before == SubSeq(s, 1, i - 1)
           after == SubSeq(s, i + 1, Len(s))
<1>1. i \in 1..Len(s) /\ Len(s) \in Nat /\ \A j \in 1..Len(s) : s[j] \in Txs
    OBVIOUS
<1>2. /\ before \in Seq(Txs) /\ Len(before) = i - 1
      /\ \A j \in 1..(i - 1) : before[j] = s[j]
    BY <1>1
<1>3. /\ after \in Seq(Txs) /\ Len(after) = Len(s) - i
      /\ \A j \in 1..(Len(s) - i) : after[j] = s[i + j]
    BY <1>1
<1> HIDE DEF before, after
<1>4. /\ RemoveAt(s, i) \in Seq(Txs)
      /\ ToSet(RemoveAt(s, i)) = ToSet(before) \cup ToSet(after)
    BY <1>2, <1>3, ConcatSet DEF RemoveAt, before, after
<1>5. ToSet(before) = {s[j] : j \in 1..(i - 1)}
    BY <1>1, <1>2, SetIsTxs
<1>6. ToSet(after) = {s[j] : j \in (i + 1)..Len(s)}
  <2>1. ToSet(after) = {after[j] : j \in 1..(Len(s) - i)}
      BY <1>3, SetIsTxs
  <2>2. ToSet(after) = {s[i + j] : j \in 1..(Len(s) - i)}
      BY <1>3, <2>1
  <2>3. ASSUME NEW j \in (i + 1)..Len(s)
        PROVE  j - i \in 1..(Len(s) - i) /\ i + (j - i) = j
      BY <1>1
  <2>4. ASSUME NEW j \in 1..(Len(s) - i)
        PROVE  i + j \in (i + 1)..Len(s)
      BY <1>1
  <2> QED
      BY <2>2, <2>3, <2>4
<1>7. 1..Len(s) = 1..(i - 1) \cup {i} \cup (i + 1)..Len(s)
    BY <1>1
<1> QED
    BY <1>4, <1>5, <1>6, <1>7, SetIsTxs

\* A poll queues what is between the mark and the tip, and only that.
LEMMA PollLists ==
    ASSUME CursorTypes, Poll
    PROVE  /\ queue' \in Seq(Txs)
           /\ ToSet(queue') = ToSet(queue) \cup (until + 1)..tip
<1> DEFINE listed == [i \in 1..(tip - until) |-> tip + 1 - i]
<1>1. tip \in Nat /\ until \in Nat /\ until < tip /\ tip <= Len(Slots) /\ Txs = 1..Len(Slots)
      /\ queue \in Seq(Txs)
    BY Transactions DEF CursorTypes, Poll
<1>2. listed \in Seq(Txs) /\ Len(listed) = tip - until
      /\ \A i \in 1..(tip - until) : listed[i] = tip + 1 - i
    BY <1>1, Transactions
<1>3. ToSet(listed) = (until + 1)..tip
  <2>1. \A t \in (until + 1)..tip : tip + 1 - t \in 1..(tip - until) /\ listed[tip + 1 - t] = t
      BY <1>1, <1>2
  <2> QED
      BY <1>1, <1>2, <2>1 DEF ToSet
<1>4. queue' = queue \o listed
    BY DEF Poll
<1> HIDE DEF listed
<1> QED
    BY <1>1, <1>2, <1>3, <1>4, ConcatSet
-----------------------------------------------------------------------------
\* What the steps do

\* A transaction leaves the queue and is stored, or fails.
LEMMA ProcessEffect ==
    ASSUME CursorTypes, Process
    PROVE  /\ handling = Idle /\ up
           /\ \E t \in ToSet(queue) :
                 /\ t \in Txs
                 /\ queue' \in Seq(Txs) /\ ToSet(queue') \subseteq ToSet(queue)
                 /\ ToSet(queue) \subseteq ToSet(queue') \cup {t}
                 /\ \/ /\ events' = events \cup {t}
                       /\ handling' = [tx |-> t, step |-> "metadata"] /\ UNCHANGED failed
                    \/ failed' = failed \cup {t} /\ UNCHANGED <<events, handling>>
           /\ UNCHANGED <<tip, cursor, oracle_metadata, up, until, session, promoting, passed>>
<1>1. PICK i \in DOMAIN queue :
          /\ queue' = RemoveAt(queue, i)
          /\ \/ /\ events' = events \cup {queue[i]}
                /\ handling' = [tx |-> queue[i], step |-> "metadata"] /\ UNCHANGED failed
             \/ failed' = failed \cup {queue[i]} /\ UNCHANGED <<events, handling>>
    BY DEF Process
<1>2. queue \in Seq(Txs)
    BY DEF CursorTypes
<1>3. queue[i] \in ToSet(queue) /\ queue[i] \in Txs
    BY <1>2 DEF ToSet
<1> QED
    BY <1>1, <1>2, <1>3, RemoveAtKeeps DEF Process, promoter

\* A row of metadata that is there stays; the one announced comes, or fails.
LEMMA IndexMetadataEffect ==
    ASSUME CursorTypes, IndexMetadata, handling.tx \in Txs
    PROVE  /\ oracle_metadata' \in [Oracles -> 0..Len(Slots)]
           /\ \A o \in Oracles : oracle_metadata[o] # 0 => oracle_metadata'[o] # 0
           /\ handling'.tx = handling.tx /\ handling'.step = "session"
           /\ failed \subseteq failed'
           /\ handling.tx \in failed' \/ MetaStored(handling.tx)'
           /\ UNCHANGED <<tip, events, cursor, up, until, queue, session, promoting, passed>>
<1>1. /\ handling.tx \in Nat \ {0} /\ handling.tx \in 0..Len(Slots)
      /\ Metas[handling.tx] = NoMeta \/ Metas[handling.tx].oracle \in Oracles
    BY Transactions, IndexerAssumption
<1>2. handling' = [handling EXCEPT !.step = "session"]
    BY DEF IndexMetadata
<1>3. handling'.step = "session" /\ handling'.tx = handling.tx
    BY <1>2 DEF CursorTypes
<1> DEFINE t == handling.tx
           o == Metas[t].oracle
<1>4. \/ /\ oracle_metadata' = IF o \in Oracles /\ oracle_metadata[o] = 0
                                THEN [oracle_metadata EXCEPT ![o] = t] ELSE oracle_metadata
         /\ failed' = failed
      \/ failed' = failed \cup {t} /\ oracle_metadata' = oracle_metadata
    BY DEF IndexMetadata, insert_oracle_meta
<1> HIDE DEF t, o
<1>5. oracle_metadata \in [Oracles -> 0..Len(Slots)] /\ t \in 0..Len(Slots) /\ t # 0
    BY <1>1 DEF CursorTypes, t
<1>6. /\ oracle_metadata' \in [Oracles -> 0..Len(Slots)]
      /\ \A p \in Oracles : oracle_metadata[p] # 0 => oracle_metadata'[p] # 0
      /\ failed \subseteq failed'
      /\ t \in failed' \/ (o \in Oracles => oracle_metadata'[o] # 0)
    BY <1>4, <1>5
<1>7. handling.tx \in failed' \/ MetaStored(handling.tx)'
    BY <1>1, <1>3, <1>6 DEF MetaStored, t, o
<1> QED
    BY <1>3, <1>6, <1>7, Zenon DEF t, IndexMetadata, crawler, promoter

\* The head moves to the transaction only if it is the first or of a later slot.
LEMMA NoteEffect ==
    ASSUME CursorTypes, NoteProcessed, handling.tx # 0
    PROVE  /\ \/ session'.head = session.head
              \/ /\ session'.head = handling.tx
                 /\ session.head = 0 \/ SlotOf(session.head) < SlotOf(handling.tx)
           /\ handling' = Idle /\ handling.step = "session"
           /\ UNCHANGED <<tip, events, cursor, oracle_metadata, up, until, queue, promoting, failed,
                          passed>>
<1>1. session'.head = IF session.head = 0 \/ Slots[handling.tx] > SlotOf(session.head)
                      THEN handling.tx ELSE session.head
    BY DEF NoteProcessed, note_processed
<1>2. SlotOf(session.head) \in Nat /\ handling.tx \in 0..Len(Slots)
    BY Transactions DEF CursorTypes
<1>3. handling.tx = 0 \/ (SlotOf(handling.tx) = Slots[handling.tx] /\ Slots[handling.tx] \in Nat)
    BY <1>2, Transactions DEF SlotOf
<1> QED
    BY <1>1, <1>2, <1>3 DEF NoteProcessed, durable, crawler, promoter

LEMMA StartEffect ==
    ASSUME Start
    PROVE  /\ ~up /\ up' = TRUE /\ until' = cursor /\ session'.head = cursor
           /\ UNCHANGED <<tip, events, cursor, oracle_metadata, queue, handling, promoting, failed,
                          passed>>
BY DEF Start, Resume, Fresh, durable, promoter

LEMMA CrashEffect ==
    ASSUME Crash
    PROVE  /\ up' = FALSE /\ until' = 0 /\ queue' = <<>> /\ handling' = Idle
           /\ session'.head = 0 /\ promoting' = 0 /\ failed' = {}
           /\ UNCHANGED <<tip, events, cursor, oracle_metadata, passed>>
BY DEF Crash, Fresh, durable

\* What the cursor passes over is recorded.
LEMMA PromoteEffect ==
    ASSUME Promote
    PROVE  /\ promoting # 0 /\ promoting' = 0
           /\ \/ /\ cursor' = promoting
                 /\ passed' = passed \cup {t \in Pending \cup failed : t <= promoting}
              \/ UNCHANGED <<cursor, passed>>
           /\ UNCHANGED <<tip, events, oracle_metadata, up, until, queue, handling, session, failed>>
BY DEF Promote, crawler

LEMMA TickEffect ==
    ASSUME Tick
    PROVE  /\ up /\ promoting = 0 /\ promoting' \in {0, session.head}
           /\ UNCHANGED <<tip, events, cursor, oracle_metadata, up, until, queue, handling, session,
                          failed, passed>>
BY DEF Tick, durable, crawler

\* The rest of the process does not touch what the cursor depends on.
LEMMA OtherEffect ==
    ASSUME Post \/ StartFetching \/ Fetch \/ UNCHANGED vars
    PROVE  UNCHANGED <<tip, events, cursor, oracle_metadata, up, until, queue, handling, session,
                       promoting, failed, passed>>
BY DEF Post, StartFetching, Fetch, vars, durable, crawler, promoter
LEMMA LandEffect ==
    ASSUME Land
    PROVE  /\ tip' \in Txs /\ tip' > tip
           /\ UNCHANGED <<events, cursor, oracle_metadata, up, until, queue, handling, session,
                          promoting, failed, passed>>
BY DEF Land, durable, crawler, promoter

LEMMA PollEffect ==
    ASSUME CursorTypes, Poll
    PROVE  /\ up /\ until <= tip /\ until' = tip
           /\ queue' \in Seq(Txs) /\ ToSet(queue') = ToSet(queue) \cup (until + 1)..tip
           /\ UNCHANGED <<tip, events, cursor, oracle_metadata, up, handling, session, promoting,
                          failed, passed>>
<1>1. /\ up /\ until < tip /\ until' = tip
      /\ UNCHANGED <<tip, events, cursor, oracle_metadata, up, handling, session, promoting,
                     failed, passed>>
    BY DEF Poll, durable, promoter
<1>2. tip \in Nat /\ until \in Nat
    BY Transactions DEF CursorTypes
<1> QED
    BY <1>1, <1>2, PollLists

-----------------------------------------------------------------------------
\* The invariant

LEMMA EmptyQueue == <<>> \in Seq(Txs) /\ ToSet(<<>>) = {}
BY DEF ToSet

LEMMA CursorTypesStep == CursorInv /\ [Next]_vars => CursorTypes'
<1> SUFFICES ASSUME CursorInv, [Next]_vars PROVE CursorTypes'
    OBVIOUS
<1>1. /\ CursorTypes /\ Len(Slots) \in Nat /\ Txs = 1..Len(Slots)
      /\ Idle \in [tx : 0..Len(Slots), step : {None, "metadata", "session"}]
    BY Transactions DEF CursorInv, Idle
<1>2. handling.step # None => handling.tx \in Txs
    BY <1>1 DEF CursorInv, CursorTypes, HandlingShape
<1>3. CASE Land
  <2>1. tip' \in 0..Len(Slots)
      BY <1>1, <1>3, LandEffect
  <2> QED
      BY <1>1, <1>3, <2>1, LandEffect DEF CursorTypes
<1>4. CASE Start
    BY <1>1, <1>4, StartEffect DEF CursorTypes
<1>5. CASE Crash
  <2>1. 0 \in 0..Len(Slots)
      BY <1>1
  <2> QED
      BY <1>1, <1>5, <2>1, CrashEffect, EmptyQueue DEF CursorTypes
<1>6. CASE Poll
    BY <1>1, <1>6, PollEffect DEF CursorTypes
<1>7. CASE Process
  <2>1. events' \subseteq Txs
      BY <1>1, <1>7, ProcessEffect DEF CursorTypes
  <2>2. handling' \in [tx : 0..Len(Slots), step : {None, "metadata", "session"}]
      BY <1>1, <1>7, ProcessEffect DEF CursorTypes
  <2> QED
      BY <1>1, <1>7, <2>1, <2>2, ProcessEffect DEF CursorTypes
<1>8. CASE IndexMetadata
  <2>1. handling' = [handling EXCEPT !.step = "session"] /\ handling.tx \in Txs
      BY <1>2, <1>8 DEF IndexMetadata, None
  <2>2. handling' \in [tx : 0..Len(Slots), step : {None, "metadata", "session"}]
      BY <1>1, <2>1 DEF CursorTypes
  <2> QED
      BY <1>1, <1>8, <2>1, <2>2, IndexMetadataEffect DEF CursorTypes
<1>9. CASE NoteProcessed
  <2>1. handling.tx # 0
      BY <1>1, <1>2, <1>9 DEF NoteProcessed, None
  <2> QED
      BY <1>1, <1>9, <2>1, NoteEffect DEF CursorTypes
<1>10. CASE Tick
    BY <1>1, <1>10, TickEffect DEF CursorTypes
<1>11. CASE Promote
  <2>1. cursor' \in 0..Len(Slots) /\ promoting' \in 0..Len(Slots)
      BY <1>1, <1>11, PromoteEffect DEF CursorTypes
  <2> QED
      BY <1>1, <1>11, <2>1, PromoteEffect DEF CursorTypes
<1>12. CASE Post \/ StartFetching \/ Fetch \/ UNCHANGED vars
    BY <1>1, <1>12, OtherEffect DEF CursorTypes
<1> QED
    BY <1>3, <1>4, <1>5, <1>6, <1>7, <1>8, <1>9, <1>10, <1>11, <1>12 DEF Next

LEMMA ProcessIsBusy ==
    ASSUME CursorInv, [Next]_vars
    PROVE  DownIsIdle' /\ HandlingShape'
<1>1. CursorTypes /\ DownIsIdle /\ HandlingShape /\ Txs = 1..Len(Slots) /\ Len(Slots) \in Nat
    BY Transactions DEF CursorInv
<1>2. handling.step = None => handling.tx = 0
    BY <1>1 DEF HandlingShape
<1>3. CASE Start
    BY <1>1, <1>3, StartEffect DEF DownIsIdle, HandlingShape
<1>4. CASE Crash
    BY <1>4, CrashEffect DEF DownIsIdle, HandlingShape, Idle, None
<1>5. CASE Process
    BY <1>1, <1>5, ProcessEffect DEF DownIsIdle, HandlingShape, None
<1>6. CASE IndexMetadata
  <2>1. handling.tx # 0 /\ handling.tx \in Txs /\ up
      BY <1>1, <1>6 DEF IndexMetadata, HandlingShape, CursorTypes, DownIsIdle, Idle, None
  <2> QED
      BY <1>1, <1>6, <2>1, IndexMetadataEffect DEF DownIsIdle, HandlingShape, None
<1>7. CASE NoteProcessed
  <2>1. handling.tx # 0 /\ up
      BY <1>1, <1>7 DEF NoteProcessed, HandlingShape, CursorTypes, DownIsIdle, Idle, None
  <2> QED
      BY <1>1, <1>7, <2>1, NoteEffect DEF DownIsIdle, HandlingShape, Idle, None
<1>8. CASE Promote
    BY <1>1, <1>8, PromoteEffect DEF DownIsIdle, HandlingShape
<1>9. CASE Tick
    BY <1>1, <1>9, TickEffect DEF DownIsIdle, HandlingShape
<1>10. CASE Poll
    BY <1>1, <1>10, PollEffect DEF DownIsIdle, HandlingShape
<1>11. CASE Land
    BY <1>1, <1>11, LandEffect DEF DownIsIdle, HandlingShape
<1>12. CASE Post \/ StartFetching \/ Fetch \/ UNCHANGED vars
    BY <1>1, <1>12, OtherEffect DEF DownIsIdle, HandlingShape
<1> QED
    BY <1>3, <1>4, <1>5, <1>6, <1>7, <1>8, <1>9, <1>10, <1>11, <1>12 DEF Next

LEMMA ListedBelowStep == CursorInv /\ [Next]_vars => ListedBelow'
<1> SUFFICES ASSUME CursorInv, [Next]_vars PROVE ListedBelow'
    OBVIOUS
<1>1. /\ ListedBelow /\ Len(Slots) \in Nat /\ Txs = 1..Len(Slots) /\ CursorTypes
      /\ ToSet(queue) \subseteq Txs /\ HandlingShape
    BY Transactions, SetIsTxs DEF CursorInv, CursorTypes
<1>2. CASE Land
    BY <1>1, <1>2, LandEffect DEF ListedBelow, CursorTypes
<1>3. CASE Start
    BY <1>1, <1>3, StartEffect, EmptyQueue DEF ListedBelow, CursorTypes, CursorInv, DownIsIdle, Idle
<1>4. CASE Crash
    BY <1>1, <1>4, CrashEffect, EmptyQueue DEF ListedBelow, CursorTypes, Idle
<1>5. CASE Poll
    BY <1>1, <1>5, PollEffect DEF ListedBelow, CursorTypes
<1>6. CASE Process
    BY <1>1, <1>6, ProcessEffect DEF ListedBelow, CursorTypes
<1>7. CASE IndexMetadata
    BY <1>1, <1>7, IndexMetadataEffect DEF ListedBelow, CursorTypes, HandlingShape, IndexMetadata, None
<1>8. CASE NoteProcessed
    BY <1>1, <1>8, NoteEffect DEF ListedBelow, CursorTypes, HandlingShape, NoteProcessed, Idle, None
<1>9. CASE Tick
    BY <1>1, <1>9, TickEffect DEF ListedBelow, CursorTypes
<1>10. CASE Promote
    BY <1>1, <1>10, PromoteEffect DEF ListedBelow, CursorTypes
<1>11. CASE Post \/ StartFetching \/ Fetch \/ UNCHANGED vars
    BY <1>1, <1>11, OtherEffect DEF ListedBelow
<1> QED
    BY <1>2, <1>3, <1>4, <1>5, <1>6, <1>7, <1>8, <1>9, <1>10, <1>11 DEF Next
\* A step that keeps the tables and what is under way keeps what is stored.
LEMMA StoredKept ==
    ASSUME NEW t, UNCHANGED <<events, oracle_metadata, handling>>
    PROVE  (Stored(t)' <=> Stored(t)) /\ (MetaStored(t)' <=> MetaStored(t))
BY DEF Stored, MetaStored

\* Metadata that is stored stays.
LEMMA MetaStays ==
    ASSUME CursorInv, [Next]_vars, NEW t \in Txs, MetaStored(t)
    PROVE  MetaStored(t)'
<1>1. CursorTypes /\ HandlingShape
    BY DEF CursorInv
<1>2. CASE IndexMetadata
  <2>1. handling.tx \in Txs
      BY <1>1, <1>2, Transactions DEF IndexMetadata, HandlingShape, CursorTypes, None
  <2>2. \A o \in Oracles : oracle_metadata[o] # 0 => oracle_metadata'[o] # 0
      BY <1>1, <1>2, <2>1, IndexMetadataEffect
  <2> QED
      BY <2>2, IndexerAssumption DEF MetaStored
<1>3. CASE NoteProcessed
  <2>1. handling.tx # 0
      BY <1>1, <1>3 DEF NoteProcessed, HandlingShape, None
  <2> QED
      BY <1>1, <1>3, <2>1, NoteEffect DEF MetaStored
<1>4. CASE UNCHANGED oracle_metadata
    BY <1>4 DEF MetaStored
<1>5. CASE Poll \/ Process
    BY <1>1, <1>4, <1>5, PollEffect, ProcessEffect
<1>6. CASE Land \/ Start \/ Crash \/ Tick \/ Promote
    BY <1>4, <1>6, LandEffect, StartEffect, CrashEffect, TickEffect, PromoteEffect
<1>7. CASE Post \/ StartFetching \/ Fetch \/ UNCHANGED vars
    BY <1>4, <1>7, OtherEffect
<1> QED
    BY <1>2, <1>3, <1>5, <1>6, <1>7 DEF Next

LEMMA ListedStep == CursorInv /\ [Next]_vars => Listed'
<1> SUFFICES ASSUME CursorInv, [Next]_vars, NEW t \in 1..until'
             PROVE  Stored(t)' \/ t \in (passed \cup failed \cup ToSet(queue))'
    BY DEF Listed
<1> DEFINE Before == Stored(t) \/ t \in passed \cup failed \cup ToSet(queue)
<1>1. /\ CursorTypes /\ HandlingShape /\ Len(Slots) \in Nat /\ Txs = 1..Len(Slots)
      /\ Listed /\ GoneBy /\ CursorTypes'
    BY Transactions, CursorTypesStep DEF CursorInv
<1>2. t \in Txs /\ until' \in Nat /\ t # 0
    BY <1>1 DEF CursorTypes
<1>3. until' = until => Before
    BY <1>1 DEF Listed
<1> HIDE DEF Before
<1>4. CASE Land
    BY <1>3, <1>4, LandEffect, StoredKept DEF Before
<1>5. CASE Start
  <2>1. t \in 1..cursor
    <3>1. until' = cursor
        BY <1>5, StartEffect
    <3> QED
        BY <3>1
  <2>2. (t \in events /\ MetaStored(t)) \/ t \in passed
      BY <1>1, <2>1 DEF GoneBy
  <2> QED
      BY <1>5, <2>2, StartEffect, StoredKept DEF Stored
<1>6. CASE Crash
    BY <1>6, CrashEffect
<1>7. CASE Poll
  <2>1. CASE t \in 1..until
      BY <1>1, <1>7, <2>1, PollEffect, StoredKept DEF Listed
  <2>2. CASE ~(t \in 1..until)
    <3>1. t \in (until + 1)..tip
      <4>1. until' = tip /\ tip \in Nat /\ until \in Nat
          BY <1>1, <1>7, PollEffect DEF CursorTypes
      <4> QED
          BY <2>2, <4>1
    <3>2. t \in ToSet(queue')
        BY <1>1, <1>7, <3>1, PollEffect
    <3>3. ToSet(queue') = ToSet(queue)'
        BY DEF ToSet
    <3> QED
        BY <3>2, <3>3
  <2> QED
      BY <2>1, <2>2
<1>8. CASE Process
  <2>1. handling = Idle /\ Idle.step = None
      BY <1>1, <1>8, ProcessEffect DEF Idle
  <2>2. Stored(t) => t \in events /\ MetaStored(t)
      BY <2>1 DEF Stored, None
  <2>3. MetaStored(t)' <=> MetaStored(t)
      BY <1>1, <1>8, ProcessEffect DEF MetaStored
  <2> QED
      BY <1>1, <1>3, <1>8, <2>2, <2>3, ProcessEffect DEF Stored, Before
<1>9. CASE IndexMetadata
  <2>1. handling.tx \in Txs
      BY <1>1, <1>9 DEF IndexMetadata, HandlingShape, CursorTypes, None
  <2>2. MetaStored(t) => MetaStored(t)'
      BY <1>2, MetaStays
  <2>3. handling.tx = t => t \in failed' \/ MetaStored(t)'
      BY <1>1, <1>9, <2>1, IndexMetadataEffect DEF MetaStored
  <2>4. failed \subseteq failed' /\ UNCHANGED <<events, until, queue, passed>>
      BY <1>1, <1>9, <2>1, IndexMetadataEffect
  <2> QED
      BY <1>3, <2>2, <2>3, <2>4 DEF Stored, Before
<1>10. CASE NoteProcessed
  <2>1. handling.tx # 0 /\ handling.step = "session"
      BY <1>1, <1>10 DEF NoteProcessed, HandlingShape, None
  <2>2. Stored(t) => t \in events /\ MetaStored(t)
      BY <2>1 DEF Stored
  <2>3. MetaStored(t) => MetaStored(t)'
      BY <1>2, MetaStays
  <2> QED
      BY <1>1, <1>3, <1>10, <2>1, <2>2, <2>3, NoteEffect DEF Stored, Before
<1>11. CASE Tick
    BY <1>3, <1>11, TickEffect, StoredKept DEF Before
<1>12. CASE Promote
    BY <1>3, <1>12, PromoteEffect, StoredKept DEF Before
<1>13. CASE Post \/ StartFetching \/ Fetch \/ UNCHANGED vars
    BY <1>3, <1>13, OtherEffect, StoredKept DEF Before
<1> QED
    BY <1>4, <1>5, <1>6, <1>7, <1>8, <1>9, <1>10, <1>11, <1>12, <1>13 DEF Next

\* Only a promotion moves the cursor; stored events and records stay.
LEMMA CursorStep ==
    ASSUME CursorInv, [Next]_vars
    PROVE  /\ events \subseteq events' /\ passed \subseteq passed'
           /\ cursor' = cursor \/ (Promote /\ cursor' = promoting)
<1>1. CursorTypes /\ HandlingShape
    BY DEF CursorInv
<1>2. CASE NoteProcessed
    BY <1>1, <1>2, NoteEffect DEF NoteProcessed, HandlingShape, None
<1>3. CASE IndexMetadata
    BY <1>3 DEF IndexMetadata
<1> QED
    BY <1>1, <1>2, <1>3, LandEffect, StartEffect, CrashEffect, PollEffect, ProcessEffect, TickEffect,
       PromoteEffect, OtherEffect DEF Next

LEMMA GoneByStep == CursorInv /\ [Next]_vars => GoneBy'
<1> SUFFICES ASSUME CursorInv, [Next]_vars, NEW t \in 1..cursor'
             PROVE  (t \in events' /\ MetaStored(t)') \/ t \in passed'
    BY DEF GoneBy
<1>1. /\ CursorTypes /\ HandlingShape /\ Len(Slots) \in Nat /\ Txs = 1..Len(Slots)
      /\ Listed /\ GoneBy /\ ListedBelow /\ CursorTypes'
    BY Transactions, CursorTypesStep DEF CursorInv
<1>2. t \in Txs
    BY <1>1 DEF CursorTypes
<1>3. CASE cursor' = cursor
    BY <1>1, <1>2, <1>3, CursorStep, MetaStays DEF GoneBy
<1>4. CASE cursor' # cursor
  <2>1. /\ Promote /\ cursor' = promoting /\ promoting <= until /\ t \in 1..until /\ t <= promoting
        /\ passed' = passed \cup {u \in Pending \cup failed : u <= promoting}
        /\ UNCHANGED <<events, oracle_metadata, handling>>
      BY <1>1, <1>4, CursorStep, PromoteEffect DEF ListedBelow, CursorTypes
  <2>2. Stored(t) \/ t \in passed \cup failed \cup ToSet(queue)
      BY <1>1, <2>1 DEF Listed
  <2>3. Stored(t) => (t \in events /\ MetaStored(t)) \/ t \in Pending
      BY <1>1, <1>2 DEF Stored, Pending
  <2>4. t \in ToSet(queue) => t \in Pending
      BY DEF Pending
  <2>5. MetaStored(t)' <=> MetaStored(t)
      BY <2>1 DEF MetaStored
  <2> QED
      BY <2>1, <2>2, <2>3, <2>4, <2>5
<1> QED
    BY <1>3, <1>4
LEMMA SlotsOf ==
    ASSUME CursorTypes
    PROVE  /\ SlotOf(cursor) \in Nat /\ SlotOf(session.head) \in Nat /\ SlotOf(promoting) \in Nat
           /\ SlotOf(handling.tx) \in Nat /\ SlotOf(0) = 0
           /\ handling.tx # 0 => SlotOf(handling.tx) > 0
BY Transactions DEF CursorTypes

LEMMA HeadsFollowStep == CursorInv /\ [Next]_vars => HeadsFollow'
<1> SUFFICES ASSUME CursorInv, [Next]_vars PROVE HeadsFollow'
    OBVIOUS
<1>1. /\ CursorTypes /\ HandlingShape /\ HeadsFollow /\ DownIsIdle
      /\ {cursor, promoting, session.head, handling.tx} \ {0} \subseteq events
    BY DEF CursorInv, HeadsFollow
<1>2. CASE Start
    BY <1>1, <1>2, StartEffect DEF HeadsFollow, Behind, DownIsIdle
<1>3. CASE Crash
    BY <1>1, <1>3, CrashEffect DEF HeadsFollow, Idle
<1>4. CASE Process
    BY <1>1, <1>4, ProcessEffect DEF HeadsFollow
<1>5. CASE IndexMetadata
  <2>1. handling.tx \in Txs
      BY <1>1, <1>5, Transactions DEF IndexMetadata, HandlingShape, CursorTypes, None
  <2> QED
      BY <1>1, <1>5, <2>1, IndexMetadataEffect DEF HeadsFollow
<1>6. CASE NoteProcessed
  <2>1. handling.tx # 0 /\ up
      BY <1>1, <1>6 DEF NoteProcessed, HandlingShape, DownIsIdle, Idle, None
  <2>2. Behind(session.head, session'.head)
    <3>1. CASE session'.head = session.head
        BY <3>1 DEF Behind
    <3>2. CASE session'.head = handling.tx
        BY <1>1, <1>6, <2>1, <3>2, NoteEffect, SlotsOf DEF Behind
    <3> QED
        BY <1>1, <1>6, <2>1, <3>1, <3>2, NoteEffect
  <2>3. UNCHANGED <<cursor, promoting, up, events>> /\ handling'.tx = 0
        /\ session'.head \in {session.head, handling.tx}
      BY <1>1, <1>6, <2>1, NoteEffect DEF Idle
  <2>4. SlotOf(session'.head) \in Nat
      BY <2>3, SlotsOf, <1>1
  <2>5. Behind(cursor, session'.head)
      BY <1>1, <2>1, <2>2, <2>4, SlotsOf DEF HeadsFollow, Behind
  <2>6. promoting # 0 => Behind(promoting, session'.head)
      BY <1>1, <2>2, <2>4, SlotsOf DEF HeadsFollow, Behind
  <2> QED
      BY <1>1, <2>3, <2>5, <2>6 DEF HeadsFollow
<1>7. CASE Tick
    BY <1>1, <1>7, TickEffect DEF HeadsFollow, Behind
<1>8. CASE Promote
    BY <1>1, <1>8, PromoteEffect DEF HeadsFollow
<1>9. CASE Poll \/ Land
    BY <1>1, <1>9, PollEffect, LandEffect DEF HeadsFollow
<1>10. CASE Post \/ StartFetching \/ Fetch \/ UNCHANGED vars
    BY <1>1, <1>10, OtherEffect DEF HeadsFollow
<1> QED
    BY <1>2, <1>3, <1>4, <1>5, <1>6, <1>7, <1>8, <1>9, <1>10 DEF Next

LEMMA CursorInvHolds == Spec => []CursorInv
<1>1. Init => CursorInv
  <2> SUFFICES ASSUME Init PROVE CursorInv
      OBVIOUS
  <2>1. CursorTypes
    <3>1. Idle \in [tx : 0..Len(Slots), step : {None, "metadata", "session"}] /\ Fresh.head = 0
          /\ 0 \in 0..Len(Slots)
        BY Transactions DEF Idle, Fresh
    <3> QED
        BY <3>1, EmptyQueue DEF Init, CursorTypes
  <2>2. until = 0 /\ cursor = 0 /\ tip = 0 /\ up = FALSE /\ queue = <<>> /\ handling = Idle
        /\ session = Fresh /\ promoting = 0
      BY DEF Init
  <2>3. ListedBelow /\ DownIsIdle /\ HandlingShape
      BY <2>2, EmptyQueue DEF ListedBelow, DownIsIdle, HandlingShape, Idle, Fresh
  <2>4. Listed /\ GoneBy /\ HeadsFollow
      BY <2>2 DEF Listed, GoneBy, HeadsFollow, Idle, Fresh
  <2> QED
      BY <2>1, <2>3, <2>4 DEF CursorInv
<1>2. CursorInv /\ [Next]_vars => CursorInv'
    BY CursorTypesStep, ProcessIsBusy, ListedBelowStep, ListedStep, GoneByStep, HeadsFollowStep
    DEF CursorInv
<1> QED
    BY <1>1, <1>2, PTL DEF Spec

-----------------------------------------------------------------------------
\* What is promised of the cursor

\* No crash, restart, poll or order of arrival opens a gap behind the cursor,
\* but a promotion over what is queued or failed (state.rs, processor.rs).
THEOREM NothingLeftBehind == Spec => []IndexedUpToCursor
<1>1. CursorInv => IndexedUpToCursor
    BY DEF CursorInv, GoneBy, IndexedUpToCursor
<1> QED
    BY <1>1, CursorInvHolds, PTL

\* Nor among the rows of metadata, which are written after their events.
THEOREM MetadataNotLeftBehind == Spec => []MetadataFollowsEvents
<1>1. CursorInv => MetadataFollowsEvents
    BY DEF CursorInv, GoneBy, MetaStored, MetadataFollowsEvents
<1> QED
    BY <1>1, CursorInvHolds, PTL

\* The two together: whatever happens between two writes, the cursor is a line
\* below which a restart need not look again (main.rs).
THEOREM CursorHidesNothing == Spec => []NothingMissed
BY NothingLeftBehind, MetadataNotLeftBehind, PTL DEF NothingMissed

\* The cursor only moves to a stored event of a later slot, however a batch
\* arrives (note_processed, frontier_stable).
THEOREM CursorOnlyAdvances == Spec => CursorAdvances
<1>1. CursorInv /\ [Next]_vars =>
        [cursor' # cursor => cursor' \in events' /\ SlotOf(cursor') > SlotOf(cursor)]_vars
  <2> SUFFICES ASSUME CursorInv, [Next]_vars, cursor' # cursor
               PROVE  cursor' \in events' /\ SlotOf(cursor') > SlotOf(cursor)
      OBVIOUS
  <2>1. Promote /\ cursor' = promoting /\ promoting # 0 /\ events \subseteq events'
      BY CursorStep, PromoteEffect
  <2>2. promoting \in events /\ Behind(cursor, promoting)
      BY <2>1 DEF CursorInv, HeadsFollow
  <2>3. SlotOf(cursor) \in Nat /\ SlotOf(promoting) \in Nat
      BY SlotsOf DEF CursorInv
  <2> QED
      BY <2>1, <2>2, <2>3 DEF Behind
<1> QED
    BY <1>1, CursorInvHolds, PTL DEF Spec, CursorAdvances

-----------------------------------------------------------------------------
\* Types

LEMMA UpsertTypes ==
    ASSUME NEW table \in [Keys -> [slot : 0..MaxSlot, data : 0..MaxSlot]],
           NEW k \in Keys, NEW s \in 0..MaxSlot, NEW data \in 0..MaxSlot
    PROVE  upsert_account(table, k, s, data) \in [Keys -> [slot : 0..MaxSlot, data : 0..MaxSlot]]
BY DEF upsert_account

LEMMA PersistTypes ==
    ASSUME MirrorTypeOK, NEW k \in Keys, NEW s \in 0..MaxSlot, NEW data \in 0..MaxSlot,
           persist(k, s, data)
    PROVE  /\ rows' \in [Keys -> [slot : 0..MaxSlot, data : 0..MaxSlot]]
           /\ errors' \in 0..MaxErrors
<1>1. rows \in [Keys -> [slot : 0..MaxSlot, data : 0..MaxSlot]] /\ errors \in 0..MaxErrors
    BY DEF MirrorTypeOK
<1>2. CASE rows' = upsert_account(rows, k, s, data) /\ UNCHANGED errors
    BY <1>1, <1>2, UpsertTypes
<1>3. CASE Error /\ UNCHANGED rows
    BY <1>1, <1>3, MirrorAssumption DEF Error
<1> QED
    BY <1>2, <1>3 DEF persist

LEMMA RestingTypes ==
    Resting \in [step : {"sleep", "slot", "upsert"}, slot : 0..MaxSlot,
                 todo : SUBSET [key : Keys, data : 1..MaxSlot],
                 present : SUBSET Keys, asOf : [Keys -> 0..MaxSlot]]
BY MirrorAssumption DEF Resting

\* The record of the pass, field by field.
PassRecords ==
    [step : {"sleep", "slot", "upsert"}, slot : 0..MaxSlot,
     todo : SUBSET [key : Keys, data : 1..MaxSlot],
     present : SUBSET Keys, asOf : [Keys -> 0..MaxSlot]]

PassFields(r) ==
    [step |-> r.step, slot |-> r.slot, todo |-> r.todo, present |-> r.present,
     asOf |-> r.asOf]

PassFieldsTyped(r) ==
    /\ r.step \in {"sleep", "slot", "upsert"} /\ r.slot \in 0..MaxSlot
    /\ r.todo \in SUBSET [key : Keys, data : 1..MaxSlot]
    /\ r.present \in SUBSET Keys /\ r.asOf \in [Keys -> 0..MaxSlot]

LEMMA PassTypes ==
    ASSUME MirrorTypeOK
    PROVE  /\ reconcile \in PassRecords /\ reconcile = PassFields(reconcile)
           /\ PassFieldsTyped(reconcile)
BY DEF MirrorTypeOK, PassRecords, PassFields, PassFieldsTyped

LEMMA PassRecord ==
    ASSUME NEW r, r = PassFields(r), PassFieldsTyped(r)
    PROVE  r \in PassRecords
BY DEF PassRecords, PassFields, PassFieldsTyped

LEMMA GetSlotEffect ==
    ASSUME GetSlot
    PROVE  reconcile' = [step |-> "slot", slot |-> slot, todo |-> {}, present |-> {},
                         asOf |-> accounts]
BY Zenon DEF GetSlot, Resting

\* What the snapshot leaves to do.
Snapshot == {[key |-> k, data |-> accounts[k]] : k \in Live}

LEMMA SnapshotEffect ==
    ASSUME MirrorTypeOK, GetProgramAccounts, reconcile' # Resting
    PROVE  /\ reconcile' = PassFields(reconcile')
           /\ reconcile'.step = "upsert" /\ reconcile'.slot = reconcile.slot
           /\ reconcile'.todo = Snapshot /\ reconcile'.present = Live
           /\ reconcile'.asOf = reconcile.asOf
           /\ UNCHANGED errors
<1> DEFINE left == Snapshot
           present == Live
<1>1. reconcile' = [reconcile EXCEPT !.step = "upsert", !.present = present, !.todo = left]
    BY DEF GetProgramAccounts, Snapshot
<1> HIDE DEF left, present
<1>2. reconcile = PassFields(reconcile)
    BY PassTypes
<1>3. /\ reconcile' = PassFields(reconcile')
      /\ reconcile'.step = "upsert" /\ reconcile'.slot = reconcile.slot
      /\ reconcile'.todo = left /\ reconcile'.present = present
      /\ reconcile'.asOf = reconcile.asOf
    BY <1>1, <1>2 DEF PassFields
<1> QED
    BY <1>3 DEF left, present, GetProgramAccounts

LEMMA UpsertEffect ==
    ASSUME MirrorTypeOK, UpsertSnapshot
    PROVE  \E item \in reconcile.todo :
              /\ reconcile' = PassFields(reconcile')
              /\ reconcile'.step = reconcile.step /\ reconcile'.slot = reconcile.slot
              /\ reconcile'.todo = reconcile.todo \ {item}
              /\ reconcile'.present = reconcile.present /\ reconcile'.asOf = reconcile.asOf
              /\ persist(item.key, reconcile.slot, item.data)
<1>1. PICK item \in reconcile.todo :
          /\ reconcile' = [reconcile EXCEPT !.todo = @ \ {item}]
          /\ persist(item.key, reconcile.slot, item.data)
    BY DEF UpsertSnapshot
<1>2. reconcile = PassFields(reconcile)
    BY PassTypes
<1> DEFINE left == reconcile.todo \ {item}
<1>3. reconcile' = [reconcile EXCEPT !.todo = left]
    BY <1>1
<1> HIDE DEF left
<1>4. /\ reconcile' = PassFields(reconcile')
      /\ reconcile'.step = reconcile.step /\ reconcile'.slot = reconcile.slot
      /\ reconcile'.todo = left
      /\ reconcile'.present = reconcile.present /\ reconcile'.asOf = reconcile.asOf
    BY <1>2, <1>3 DEF PassFields
<1> QED
    BY <1>1, <1>4 DEF left

LEMMA TypeStep == MirrorTypeOK /\ [MirrorNext]_mirror => MirrorTypeOK'
<1> SUFFICES ASSUME MirrorTypeOK, [MirrorNext]_mirror PROVE MirrorTypeOK'
    OBVIOUS
<1> USE MirrorAssumption
<1>1. CASE Slot
  <2>1. slot' \in 0..MaxSlot /\ slot' \in 1..MaxSlot
      BY <1>1 DEF Slot, MirrorTypeOK
  <2>2. PICK written \in SUBSET Keys, closed \in SUBSET Live :
            /\ accounts' = [k \in Keys |-> IF k \in written THEN slot' ELSE
                                           IF k \in closed THEN 0 ELSE accounts[k]]
            /\ updates' = updates \cup {[key |-> k, slot |-> slot', data |-> slot'] : k \in written}
      BY <1>1 DEF Slot
  <2>3. accounts' \in [Keys -> 0..MaxSlot]
      BY <2>1, <2>2 DEF MirrorTypeOK
  <2>4. updates' \in SUBSET [key : Keys, slot : 0..MaxSlot, data : 1..MaxSlot]
      BY <2>1, <2>2 DEF MirrorTypeOK
  <2> QED
      BY <1>1, <2>1, <2>3, <2>4 DEF Slot, MirrorTypeOK
<1>2. CASE Deliver
    BY <1>2, PersistTypes DEF Deliver, MirrorTypeOK
<1>3. CASE Lose
    BY <1>3 DEF Lose, MirrorTypeOK
<1>4. CASE Restart
  <2>1. \A k \in Live : accounts[k] \in 1..MaxSlot
      BY DEF Live, MirrorTypeOK
  <2> QED
      BY <1>4, <2>1, RestingTypes DEF Restart, MirrorTypeOK, Live
<1>5. CASE GetSlot
    BY <1>5, GetSlotEffect DEF GetSlot, MirrorTypeOK
<1>6. CASE GetProgramAccounts
  <2>1. Snapshot \subseteq [key : Keys, data : 1..MaxSlot] /\ Live \subseteq Keys
      BY DEF Snapshot, Live, MirrorTypeOK
  <2>2. reconcile' \in PassRecords
    <3>1. CASE reconcile' = Resting
        BY <3>1, RestingTypes DEF PassRecords
    <3>2. CASE reconcile' # Resting
        BY <1>6, <2>1, <3>2, SnapshotEffect, PassTypes, PassRecord DEF PassFieldsTyped
    <3> QED
        BY <3>1, <3>2
  <2> QED
      BY <1>6, <2>2 DEF GetProgramAccounts, Error, MirrorTypeOK, PassRecords
<1>7. CASE UpsertSnapshot
  <2>1. PICK item \in reconcile.todo :
            /\ reconcile' = PassFields(reconcile')
            /\ reconcile'.step = reconcile.step /\ reconcile'.slot = reconcile.slot
            /\ reconcile'.todo = reconcile.todo \ {item}
            /\ reconcile'.present = reconcile.present /\ reconcile'.asOf = reconcile.asOf
            /\ persist(item.key, reconcile.slot, item.data)
      BY <1>7, UpsertEffect
  <2>2. PassFieldsTyped(reconcile)
      BY PassTypes
  <2>3. reconcile' \in PassRecords
      BY <2>1, <2>2, PassRecord DEF PassFieldsTyped
  <2>4. item.key \in Keys /\ item.data \in 0..MaxSlot
      BY <2>2 DEF PassFieldsTyped
  <2> QED
      BY <1>7, <2>1, <2>2, <2>3, <2>4, PersistTypes
      DEF UpsertSnapshot, MirrorTypeOK, PassRecords, PassFieldsTyped
<1>8. CASE Prune
  <2>1. prune(rows, reconcile.slot, reconcile.present)
            \in [Keys -> [slot : 0..MaxSlot, data : 0..MaxSlot]]
      BY DEF prune, NoRow, MirrorTypeOK
  <2> QED
      BY <1>8, <2>1, RestingTypes DEF Prune, Error, MirrorTypeOK
<1>9. CASE UNCHANGED mirror
    BY <1>9 DEF mirror, MirrorTypeOK
<1> QED
    BY <1>1, <1>2, <1>3, <1>4, <1>5, <1>6, <1>7, <1>8, <1>9 DEF MirrorNext

\* Every variable holds a value of the kind the code gives it, whatever the
\* tail loses and however often the process restarts (src/indexer).
THEOREM MirrorTypeCorrect == MirrorSpec => []MirrorTypeOK
<1>1. MirrorInit => MirrorTypeOK
    BY MirrorAssumption, RestingTypes DEF MirrorInit, NoRow, MirrorTypeOK
<1> QED
    BY <1>1, TypeStep, PTL DEF MirrorSpec
-----------------------------------------------------------------------------
\* What is known of an account, and in which order

\* The states of account k that the chain or the indexer still holds.
Seen(k) ==
    {accounts[k], rows[k].data, reconcile.asOf[k]}
      \cup {u.data : u \in {v \in updates : v.key = k}}
      \cup {i.data : i \in {j \in reconcile.todo : j.key = k}}

\* Nothing comes from the future, and a row that is there has been written.
Dated ==
    /\ reconcile.slot <= slot
    /\ \A u \in updates : u.slot <= slot /\ u.data <= u.slot
    /\ \A k \in Keys : /\ rows[k].slot <= slot
                       /\ rows[k] = NoRow \/ rows[k].data # 0
                       /\ \A x \in Seen(k) : x <= slot

\* A live account holds its latest state, and whatever is under way is the
\* latest state up to the slot it will be stamped with.
InOrder ==
    \A k \in Keys : \A x \in Seen(k) :
        /\ accounts[k] # 0 => x <= accounts[k]
        /\ \A u \in updates : u.key = k /\ x <= u.slot => x <= u.data
        /\ \A i \in reconcile.todo :
               i.key = k /\ x <= reconcile.slot => x <= i.data

\* Between the two reads of a pass, and then for what the snapshot did not
\* hold, no row shows a state newer than both its stamp and the pass.
StampedInPass ==
    reconcile.step # "sleep" =>
        \A k \in Keys \ reconcile.present :
            rows[k].data <= rows[k].slot \/ rows[k].data <= reconcile.slot

\* What the snapshot did not hold was closed then, and is closed still or was
\* written after the pass began.
AbsentIsClosed ==
    reconcile.step = "upsert" =>
        \A k \in Keys \ reconcile.present :
            accounts[k] = 0 \/ accounts[k] > reconcile.slot

\* A row ahead of the pass is no older than the account was at its begin.
AheadIsFresh ==
    reconcile.step # "sleep" =>
        /\ \A k \in Keys : /\ reconcile.asOf[k] <= reconcile.slot
                           /\ rows[k].slot > reconcile.slot
                                => rows[k].data >= reconcile.asOf[k]
        /\ \A i \in reconcile.todo : i.data >= reconcile.asOf[i.key]

\* An account of the snapshot is still to be upserted or was, but for failures.
PassGoesOn ==
    /\ reconcile.step # "upsert" => reconcile.todo = {} /\ reconcile.present = {}
    /\ \A i \in reconcile.todo : i.key \in reconcile.present
    /\ errors = 0 =>
        \A k \in reconcile.present :
            \/ \E i \in reconcile.todo : i.key = k
            \/ rows[k].slot >= reconcile.slot /\ rows[k].data >= reconcile.asOf[k]

MirrorInv ==
    /\ MirrorTypeOK /\ Dated /\ InOrder /\ StampedInPass /\ AbsentIsClosed
    /\ AheadIsFresh /\ PassGoesOn
-----------------------------------------------------------------------------
\* What the steps do to a row, to what is under way and to what is known

\* The statement wrote one row, if that was not newer, or failed.
LEMMA PersistEffect ==
    ASSUME MirrorTypeOK, NEW k \in Keys, NEW s \in 0..MaxSlot, NEW data \in 0..MaxSlot,
           persist(k, s, data)
    PROVE  /\ \A j \in Keys : \/ rows'[j] = rows[j]
                             \/ /\ j = k /\ rows[k].slot <= s
                                /\ rows'[k].slot = s /\ rows'[k].data = data
           /\ errors' = 0 => /\ errors = 0
                             /\ rows[k].slot <= s =>
                                  rows'[k].slot = s /\ rows'[k].data = data
<1>1. rows \in [Keys -> [slot : 0..MaxSlot, data : 0..MaxSlot]] /\ errors \in 0..MaxErrors
    BY DEF MirrorTypeOK
<1>2. CASE rows' = upsert_account(rows, k, s, data) /\ UNCHANGED errors
    BY <1>1, <1>2 DEF upsert_account
<1>3. CASE Error /\ UNCHANGED rows
    BY <1>1, <1>3, MirrorAssumption DEF Error
<1> QED
    BY <1>2, <1>3 DEF persist

LEMMA DeliverEffect ==
    ASSUME MirrorTypeOK, Deliver
    PROVE  \E u \in updates :
              /\ u.key \in Keys /\ u.slot \in 0..MaxSlot /\ u.data \in 1..MaxSlot
              /\ updates' = updates \ {u}
              /\ persist(u.key, u.slot, u.data)
              /\ UNCHANGED <<slot, accounts, reconcile, restarts>>
BY DEF Deliver, MirrorTypeOK

LEMMA ItemTypes ==
    ASSUME MirrorTypeOK, NEW item \in reconcile.todo
    PROVE  item.key \in Keys /\ item.data \in 1..MaxSlot
BY PassTypes DEF PassFieldsTyped

LEMMA RestingFields ==
    /\ Resting.step = "sleep" /\ Resting.slot = 0 /\ Resting.todo = {}
    /\ Resting.present = {} /\ \A k \in Keys : Resting.asOf[k] = 0
BY DEF Resting

LEMMA PruneEffect ==
    ASSUME MirrorTypeOK, Prune
    PROVE  /\ \A j \in Keys : \/ rows'[j] = rows[j]
                             \/ /\ rows'[j] = NoRow /\ j \notin reconcile.present
                                /\ rows[j].slot <= reconcile.slot
           /\ errors' = 0 => \A j \in Keys \ reconcile.present :
                                 rows'[j] = NoRow \/ rows'[j].slot > reconcile.slot
<1>1. rows \in [Keys -> [slot : 0..MaxSlot, data : 0..MaxSlot]] /\ errors \in 0..MaxErrors
      /\ reconcile.slot \in 0..MaxSlot
    BY DEF MirrorTypeOK
<1>2. CASE rows' = prune(rows, reconcile.slot, reconcile.present) /\ UNCHANGED errors
    BY <1>1, <1>2 DEF prune
<1>3. CASE Error /\ UNCHANGED rows
    BY <1>1, <1>3, MirrorAssumption DEF Error
<1> QED
    BY <1>2, <1>3 DEF Prune

\* Only a new slot brings a state that was not known.
LEMMA SeenStep ==
    ASSUME MirrorTypeOK, [MirrorNext]_mirror, NEW k \in Keys, NEW x \in Seen(k)', x # 0
    PROVE  x \in Seen(k) \/ (Slot /\ x = slot')
<1> USE DEF Seen
<1>1. CASE Slot
  <2>1. PICK written \in SUBSET Keys, closed \in SUBSET Live :
            /\ accounts' = [j \in Keys |-> IF j \in written THEN slot' ELSE
                                           IF j \in closed THEN 0 ELSE accounts[j]]
            /\ updates' = updates \cup {[key |-> j, slot |-> slot', data |-> slot'] : j \in written}
      BY <1>1 DEF Slot
  <2>2. accounts'[k] \in {slot', 0, accounts[k]}
      BY <2>1
  <2>3. UNCHANGED <<rows, reconcile>>
      BY <1>1 DEF Slot
  <2>4. CASE x = accounts'[k]
      BY <1>1, <2>2, <2>4
  <2>5. CASE x \in {rows'[k].data, reconcile'.asOf[k]}
      BY <2>3, <2>5
  <2>6. CASE \E u \in updates' : u.key = k /\ x = u.data
    <3>1. PICK u \in updates' : u.key = k /\ x = u.data
        BY <2>6
    <3>2. CASE u \in updates
        BY <3>1, <3>2
    <3>3. CASE u \notin updates
        BY <1>1, <2>1, <3>1, <3>3
    <3> QED
        BY <3>2, <3>3
  <2>7. CASE \E i \in reconcile'.todo : i.key = k /\ x = i.data
      BY <2>3, <2>7
  <2> QED
      BY <2>4, <2>5, <2>6, <2>7
<1>2. CASE Deliver
    BY <1>2, DeliverEffect, PersistEffect
<1>3. CASE Lose
    BY <1>3 DEF Lose
<1>4. CASE Restart
    BY <1>4, RestingFields DEF Restart
<1>5. CASE GetSlot
    BY <1>5, GetSlotEffect DEF GetSlot
<1>6. CASE GetProgramAccounts
    BY <1>6, SnapshotEffect, RestingFields DEF GetProgramAccounts, Snapshot
<1>7. CASE UpsertSnapshot
  <2>1. PICK item \in reconcile.todo :
            /\ reconcile'.todo = reconcile.todo \ {item}
            /\ reconcile'.asOf = reconcile.asOf
            /\ persist(item.key, reconcile.slot, item.data)
      BY <1>7, UpsertEffect
  <2>2. reconcile.slot \in 0..MaxSlot
      BY DEF MirrorTypeOK
  <2> QED
      BY <1>7, <2>1, <2>2, ItemTypes, PersistEffect DEF UpsertSnapshot
<1>8. CASE Prune
    BY <1>8, PruneEffect, RestingFields DEF Prune, NoRow
<1>9. CASE UNCHANGED mirror
    BY <1>9 DEF mirror
<1> QED
    BY <1>1, <1>2, <1>3, <1>4, <1>5, <1>6, <1>7, <1>8, <1>9 DEF MirrorNext
-----------------------------------------------------------------------------
\* The order of what is known

\* A slot adds updates that are stamped with it and hold it.
LEMMA SlotEffect ==
    ASSUME MirrorTypeOK, Slot
    PROVE  /\ slot' = slot + 1
           /\ \A k \in Keys : accounts'[k] \in {accounts[k], 0, slot'}
           /\ \A u \in updates' : u \in updates \/ (u.slot = slot' /\ u.data = slot')
           /\ UNCHANGED <<rows, reconcile, restarts, errors>>
<1>1. PICK written \in SUBSET Keys, closed \in SUBSET Live :
          /\ accounts' = [j \in Keys |-> IF j \in written THEN slot' ELSE
                                         IF j \in closed THEN 0 ELSE accounts[j]]
          /\ updates' = updates \cup {[key |-> j, slot |-> slot', data |-> slot'] : j \in written}
    BY DEF Slot
<1> QED
    BY <1>1 DEF Slot

\* What a slot wrote is what the account holds.
LEMMA SlotUpdates ==
    ASSUME MirrorTypeOK, Dated, Slot, NEW u \in updates', u.slot = slot'
    PROVE  accounts'[u.key] = slot'
<1>1. PICK written \in SUBSET Keys, closed \in SUBSET Live :
          /\ accounts' = [j \in Keys |-> IF j \in written THEN slot' ELSE
                                         IF j \in closed THEN 0 ELSE accounts[j]]
          /\ updates' = updates \cup {[key |-> j, slot |-> slot', data |-> slot'] : j \in written}
    BY DEF Slot
<1>2. u \notin updates
    BY SlotEffect, MirrorAssumption DEF Dated, MirrorTypeOK
<1>3. PICK j \in written : u = [key |-> j, slot |-> slot', data |-> slot']
    BY <1>1, <1>2
<1> QED
    BY <1>1, <1>3

\* An update that a restart begins with shows a live account.
LEMMA RestartEffect ==
    ASSUME MirrorTypeOK, Restart
    PROVE  /\ \A u \in updates' : /\ u.key \in Keys /\ accounts[u.key] # 0
                                 /\ u.slot = slot /\ u.data = accounts[u.key]
           /\ reconcile' = Resting
           /\ UNCHANGED <<slot, accounts, rows, errors>>
BY DEF Restart, Live

LEMMA DatedStep == MirrorTypeOK /\ Dated /\ [MirrorNext]_mirror => Dated'
<1> SUFFICES ASSUME MirrorTypeOK, Dated, [MirrorNext]_mirror PROVE Dated'
    OBVIOUS
<1>1. slot \in Nat /\ slot' \in Nat /\ slot <= slot'
    BY TypeStep, MirrorAssumption
    DEF MirrorTypeOK, MirrorNext, mirror, Slot, Deliver, Lose, Restart, GetSlot, GetProgramAccounts,
        UpsertSnapshot, Prune
<1>2. \A k \in Keys : \A x \in Seen(k)' : x <= slot'
  <2> SUFFICES ASSUME NEW k \in Keys, NEW x \in Seen(k)' PROVE x <= slot'
      OBVIOUS
  <2>1. \A y \in Seen(k) : y \in Nat /\ y <= slot
    <3>1. Seen(k) \subseteq 0..MaxSlot
        BY PassTypes DEF MirrorTypeOK, Seen, PassFieldsTyped
    <3> QED
        BY <3>1, MirrorAssumption DEF Dated
  <2> QED
      BY <1>1, <2>1, SeenStep
<1>3. reconcile'.slot <= slot'
  <2>1. reconcile.slot \in Nat /\ reconcile.slot <= slot
      BY MirrorAssumption DEF MirrorTypeOK, Dated
  <2>2. reconcile'.slot \in {reconcile.slot, slot, 0}
      BY SlotEffect, RestartEffect, GetSlotEffect, SnapshotEffect, UpsertEffect, RestingFields
      DEF MirrorNext, mirror, Deliver, Lose, GetProgramAccounts, Prune
  <2> QED
      BY <1>1, <2>1, <2>2
<1>4. \A u \in updates' : u.slot <= slot' /\ u.data <= u.slot
  <2>1. \A u \in updates : u.slot \in Nat /\ u.data \in Nat /\ u.slot <= slot /\ u.data <= u.slot
      BY MirrorAssumption DEF MirrorTypeOK, Dated
  <2>2. \A k \in Keys : accounts[k] \in Nat /\ accounts[k] <= slot
      BY MirrorAssumption DEF MirrorTypeOK, Dated, Seen
  <2> QED
      BY <1>1, <2>1, <2>2, SlotEffect, RestartEffect
      DEF MirrorNext, mirror, Deliver, Lose, GetSlot, GetProgramAccounts, UpsertSnapshot, Prune
<1>5. ASSUME NEW k \in Keys
      PROVE  rows'[k].slot <= slot' /\ (rows'[k] = NoRow \/ rows'[k].data # 0)
  <2>1. rows[k].slot \in Nat /\ rows[k].slot <= slot /\ (rows[k] = NoRow \/ rows[k].data # 0)
      BY MirrorAssumption DEF MirrorTypeOK, Dated
  <2>2. CASE Deliver
    <3>1. PICK u \in updates :
              /\ u.key \in Keys /\ u.slot \in 0..MaxSlot /\ u.data \in 1..MaxSlot
              /\ persist(u.key, u.slot, u.data)
        BY <2>2, DeliverEffect
    <3>2. u.slot <= slot
        BY DEF Dated
    <3> QED
        BY <1>1, <2>1, <3>1, <3>2, PersistEffect, MirrorAssumption
  <2>3. CASE UpsertSnapshot
    <3>1. PICK item \in reconcile.todo : persist(item.key, reconcile.slot, item.data)
        BY <2>3, UpsertEffect
    <3>2. reconcile.slot \in 0..MaxSlot /\ reconcile.slot <= slot
        BY DEF MirrorTypeOK, Dated
    <3> QED
        BY <1>1, <2>1, <3>1, <3>2, ItemTypes, PersistEffect, MirrorAssumption
  <2>4. CASE Prune
      BY <1>1, <2>1, <2>4, PruneEffect DEF NoRow
  <2>5. CASE UNCHANGED rows
      BY <1>1, <2>1, <2>5
  <2> QED
      BY <2>2, <2>3, <2>4, <2>5
      DEF MirrorNext, mirror, Slot, Lose, Restart, GetSlot, GetProgramAccounts
<1> QED
    BY <1>2, <1>3, <1>4, <1>5 DEF Dated

\* Numbers, for the comparisons below.
LEMMA SeenTypes ==
    ASSUME MirrorTypeOK, NEW k \in Keys
    PROVE  /\ Seen(k) \subseteq Nat /\ accounts[k] \in Seen(k) /\ rows[k].data \in Seen(k)
           /\ reconcile.asOf[k] \in Seen(k)
           /\ \A u \in updates : u.slot \in Nat /\ u.data \in Nat
           /\ \A i \in reconcile.todo : i.data \in Nat /\ i.key \in Keys
           /\ reconcile.slot \in Nat /\ slot \in Nat /\ rows[k].slot \in Nat
           /\ errors \in Nat
<1>1. PassFieldsTyped(reconcile)
    BY PassTypes
<1> QED
    BY <1>1, MirrorAssumption DEF MirrorTypeOK, Seen, PassFieldsTyped

LEMMA InOrderStep == MirrorTypeOK /\ Dated /\ InOrder /\ [MirrorNext]_mirror => InOrder'
<1> SUFFICES ASSUME MirrorTypeOK, Dated, InOrder, [MirrorNext]_mirror,
                    NEW k \in Keys, NEW x \in Seen(k)'
             PROVE  /\ accounts'[k] # 0 => x <= accounts'[k]
                    /\ \A u \in updates' : u.key = k /\ x <= u.slot => x <= u.data
                    /\ \A i \in reconcile'.todo :
                           i.key = k /\ x <= reconcile'.slot => x <= i.data
    BY DEF InOrder
<1>1. MirrorTypeOK' /\ Dated'
    BY TypeStep, DatedStep
<1>2. x \in Nat /\ accounts[k] \in Nat /\ accounts'[k] \in Nat
    BY <1>1, MirrorAssumption DEF MirrorTypeOK, Seen, PassRecords
<1>3. CASE x = 0
  <2>1. /\ \A u \in updates' : u.data \in Nat
        /\ \A i \in reconcile'.todo : i.data \in Nat
      BY <1>1 DEF MirrorTypeOK
  <2> QED
      BY <1>2, <1>3, <2>1
<1>4. CASE x # 0 /\ x \in Seen(k) /\ Slot
    BY <1>2, <1>4, SlotEffect, SeenTypes DEF InOrder, Dated
<1>5. CASE Slot /\ x = slot'
  <2>1. accounts'[k] # 0 => accounts'[k] = slot'
    <3>1. x > slot
        BY <1>5, SlotEffect, SeenTypes
    <3>2. x \notin Seen(k)
        BY <3>1, <1>2, SeenTypes DEF Dated
    <3>3. accounts'[k] = x \/ \E u \in updates' : u.key = k /\ u.slot = slot'
        BY <1>5, <3>2, SlotEffect DEF Seen
    <3> QED
        BY <3>3, <1>5, SlotUpdates, SlotEffect
  <2>2. \A u \in updates : u.slot < slot'
      BY SeenTypes, SlotEffect, <1>5 DEF Dated
  <2>3. reconcile.slot < slot'
      BY SeenTypes, SlotEffect, <1>5 DEF Dated
  <2> QED
      BY <1>2, <1>5, <2>1, <2>2, <2>3, SlotEffect, SeenTypes
<1>6. CASE x # 0 /\ x \in Seen(k) /\ Restart
    BY <1>2, <1>6, RestartEffect, RestingFields DEF InOrder
<1>7. CASE x # 0 /\ x \in Seen(k) /\ GetProgramAccounts
  <2>1. \A i \in reconcile'.todo : i.key = k => accounts[k] # 0 /\ i.data = accounts[k]
      BY <1>7, SnapshotEffect, RestingFields DEF Snapshot, Live
  <2> QED
      BY <1>7, <2>1 DEF GetProgramAccounts, InOrder
<1>8. CASE /\ x # 0 /\ x \in Seen(k)
           /\ UNCHANGED accounts /\ updates' \subseteq updates
           /\ reconcile'.todo \subseteq reconcile.todo
           /\ reconcile'.todo # {} => reconcile'.slot = reconcile.slot
    BY <1>8 DEF InOrder
<1>9. \/ Slot \/ Restart \/ GetProgramAccounts
      \/ /\ UNCHANGED accounts /\ updates' \subseteq updates
         /\ reconcile'.todo \subseteq reconcile.todo
         /\ reconcile'.todo # {} => reconcile'.slot = reconcile.slot
  <2>1. CASE Deliver \/ Lose \/ UNCHANGED mirror
      BY <2>1 DEF Deliver, Lose, mirror
  <2>2. CASE GetSlot
      BY <2>2, GetSlotEffect DEF GetSlot
  <2>3. CASE UpsertSnapshot
      BY <2>3, UpsertEffect DEF UpsertSnapshot
  <2>4. CASE Prune
      BY <2>4, RestingFields DEF Prune
  <2> QED
      BY <2>1, <2>2, <2>3, <2>4 DEF MirrorNext
<1> QED
    BY <1>3, <1>4, <1>5, <1>6, <1>7, <1>8, <1>9, SeenStep
-----------------------------------------------------------------------------
\* The pass

\* How the record of the pass moves.
LEMMA PassStep ==
    ASSUME MirrorTypeOK, [MirrorNext]_mirror
    PROVE  \/ reconcile' = reconcile
           \/ reconcile' = Resting
           \/ /\ GetSlot /\ reconcile'.step = "slot" /\ reconcile'.slot = slot
              /\ reconcile'.todo = {} /\ reconcile'.present = {} /\ reconcile'.asOf = accounts
           \/ /\ GetProgramAccounts /\ reconcile.step = "slot"
              /\ reconcile'.step = "upsert" /\ reconcile'.slot = reconcile.slot
              /\ reconcile'.todo = Snapshot /\ reconcile'.present = Live
              /\ reconcile'.asOf = reconcile.asOf
           \/ /\ UpsertSnapshot /\ reconcile'.step = reconcile.step
              /\ reconcile'.slot = reconcile.slot
              /\ reconcile'.present = reconcile.present /\ reconcile'.asOf = reconcile.asOf
              /\ reconcile'.todo \subseteq reconcile.todo
<1>1. CASE GetSlot
    BY <1>1, GetSlotEffect
<1>2. CASE GetProgramAccounts
    BY <1>2, SnapshotEffect DEF GetProgramAccounts
<1>3. CASE UpsertSnapshot
    BY <1>3, UpsertEffect
<1>4. CASE Slot \/ Deliver \/ Lose \/ Restart \/ Prune \/ UNCHANGED mirror
    BY <1>4 DEF Slot, Deliver, Lose, Restart, Prune, mirror
<1> QED
    BY <1>1, <1>2, <1>3, <1>4 DEF MirrorNext

\* A row moves to a newer stamp, or is pruned, or stays.  What comes is an
\* update, or an item of the pass.
LEMMA RowStep ==
    ASSUME MirrorTypeOK, Dated, [MirrorNext]_mirror, NEW k \in Keys
    PROVE  \/ rows'[k] = rows[k]
           \/ /\ Deliver
              /\ \E u \in updates : /\ u.key = k /\ rows[k].slot <= u.slot
                                    /\ rows'[k].slot = u.slot /\ rows'[k].data = u.data
           \/ /\ UpsertSnapshot
              /\ \E i \in reconcile.todo :
                    /\ i.key = k /\ rows[k].slot <= reconcile.slot
                    /\ rows'[k].slot = reconcile.slot /\ rows'[k].data = i.data
           \/ /\ Prune /\ rows'[k] = NoRow /\ k \notin reconcile.present
              /\ rows[k].slot <= reconcile.slot
<1>1. CASE Deliver
    BY <1>1, DeliverEffect, PersistEffect
<1>2. CASE UpsertSnapshot
  <2>1. PICK item \in reconcile.todo : persist(item.key, reconcile.slot, item.data)
      BY <1>2, UpsertEffect
  <2>2. reconcile.slot \in 0..MaxSlot
      BY DEF MirrorTypeOK
  <2> QED
      BY <1>2, <2>1, <2>2, ItemTypes, PersistEffect
<1>3. CASE Prune
    BY <1>3, PruneEffect
<1>4. CASE UNCHANGED rows
    BY <1>4
<1> QED
    BY <1>1, <1>2, <1>3, <1>4 DEF MirrorNext, mirror, Slot, Lose, Restart, GetSlot, GetProgramAccounts

LEMMA StampedStep ==
    MirrorTypeOK /\ Dated /\ PassGoesOn /\ StampedInPass /\ [MirrorNext]_mirror => StampedInPass'
<1> SUFFICES ASSUME MirrorTypeOK, Dated, PassGoesOn, StampedInPass, [MirrorNext]_mirror,
                    reconcile'.step # "sleep", NEW k \in Keys, k \notin reconcile'.present
             PROVE  rows'[k].data <= rows'[k].slot \/ rows'[k].data <= reconcile'.slot
    BY DEF StampedInPass
<1>1. CASE GetSlot
    BY <1>1, GetSlotEffect, SeenTypes DEF GetSlot, Dated
<1>2. CASE ~GetSlot
  <2>1. /\ reconcile.step # "sleep" /\ k \notin reconcile.present
        /\ reconcile'.slot = reconcile.slot
      BY <1>2, PassStep, RestingFields DEF PassGoesOn
  <2>2. rows[k].data <= rows[k].slot \/ rows[k].data <= reconcile.slot
      BY <2>1 DEF StampedInPass
  <2>3. CASE rows'[k] = rows[k]
      BY <2>1, <2>2, <2>3
  <2>4. CASE \E u \in updates : rows'[k].slot = u.slot /\ rows'[k].data = u.data
      BY <2>4 DEF Dated
  <2>5. CASE Prune
      BY <2>5, RestingFields DEF Prune
  <2> QED
      BY <2>1, <2>3, <2>4, <2>5, RowStep DEF PassGoesOn
<1> QED
    BY <1>1, <1>2

LEMMA AbsentStep ==
    MirrorTypeOK /\ Dated /\ AbsentIsClosed /\ [MirrorNext]_mirror => AbsentIsClosed'
<1> SUFFICES ASSUME MirrorTypeOK, Dated, AbsentIsClosed, [MirrorNext]_mirror,
                    reconcile'.step = "upsert", NEW k \in Keys, k \notin reconcile'.present
             PROVE  accounts'[k] = 0 \/ accounts'[k] > reconcile'.slot
    BY DEF AbsentIsClosed
<1>1. CASE GetProgramAccounts
    BY <1>1, SnapshotEffect, RestingFields DEF GetProgramAccounts, Live
<1>2. CASE ~GetProgramAccounts
  <2>1. /\ reconcile.step = "upsert" /\ k \notin reconcile.present
        /\ reconcile'.slot = reconcile.slot
      BY <1>2, PassStep, RestingFields
  <2>2. accounts[k] = 0 \/ accounts[k] > reconcile.slot
      BY <2>1 DEF AbsentIsClosed
  <2>3. CASE Slot
      BY <2>1, <2>2, <2>3, SlotEffect, SeenTypes DEF Dated
  <2>4. CASE UNCHANGED accounts
      BY <2>1, <2>2, <2>4
  <2> QED
      BY <2>3, <2>4
      DEF MirrorNext, mirror, Deliver, Lose, Restart, GetSlot, GetProgramAccounts, UpsertSnapshot, Prune
<1> QED
    BY <1>1, <1>2

LEMMA AheadStep ==
    MirrorTypeOK /\ Dated /\ InOrder /\ PassGoesOn /\ AheadIsFresh /\ [MirrorNext]_mirror => AheadIsFresh'
<1> SUFFICES ASSUME MirrorTypeOK, Dated, InOrder, PassGoesOn, AheadIsFresh, [MirrorNext]_mirror,
                    reconcile'.step # "sleep"
             PROVE  AheadIsFresh'
    BY DEF AheadIsFresh
<1>1. CASE GetSlot
  <2>1. \A k \in Keys : /\ accounts[k] \in Nat /\ accounts[k] <= slot
                       /\ rows[k].slot \in Nat /\ rows[k].slot <= slot /\ slot \in Nat
      BY SeenTypes DEF Dated
  <2>2. /\ reconcile'.slot = slot /\ reconcile'.asOf = accounts /\ reconcile'.todo = {}
        /\ UNCHANGED rows
      BY <1>1, GetSlotEffect DEF GetSlot
  <2> QED
      BY <2>1, <2>2 DEF AheadIsFresh
<1>2. CASE ~GetSlot
  <2>1. /\ reconcile.step # "sleep" /\ reconcile'.slot = reconcile.slot
        /\ reconcile'.asOf = reconcile.asOf
      BY <1>2, PassStep, RestingFields
  <2>2. ASSUME NEW k \in Keys
        PROVE  /\ reconcile'.asOf[k] <= reconcile'.slot
               /\ rows'[k].slot > reconcile'.slot => rows'[k].data >= reconcile'.asOf[k]
    <3>1. /\ reconcile.asOf[k] <= reconcile.slot
          /\ rows[k].slot > reconcile.slot => rows[k].data >= reconcile.asOf[k]
        BY <2>1 DEF AheadIsFresh
    <3>2. CASE rows'[k] = rows[k]
        BY <2>1, <3>1, <3>2
    <3>3. CASE \E u \in updates : /\ u.key = k
                                 /\ rows'[k].slot = u.slot /\ rows'[k].data = u.data
        BY <2>1, <3>1, <3>3, SeenTypes DEF InOrder
    <3>4. CASE rows'[k].slot = reconcile.slot
        BY <2>1, <3>1, <3>4, SeenTypes
    <3>5. CASE Prune
        BY <3>5, RestingFields DEF Prune
    <3> QED
        BY <3>2, <3>3, <3>4, <3>5, RowStep
  <2>3. ASSUME NEW i \in reconcile'.todo
        PROVE  i.data >= reconcile'.asOf[i.key]
    <3>1. CASE i \in reconcile.todo
        BY <2>1, <3>1 DEF AheadIsFresh
    <3>2. CASE i \in Snapshot
      <4>1. i.key \in Keys /\ accounts[i.key] # 0 /\ i.data = accounts[i.key]
          BY <3>2 DEF Snapshot, Live
      <4>2. accounts[i.key] \in Nat
          BY <4>1, SeenTypes
      <4> QED
          BY <2>1, <4>1, <4>2, SeenTypes DEF InOrder
    <3> QED
        BY <1>2, <3>1, <3>2, PassStep, RestingFields
  <2> QED
      BY <2>2, <2>3 DEF AheadIsFresh
<1> QED
    BY <1>1, <1>2

LEMMA PassGoesOnStep ==
    MirrorTypeOK /\ Dated /\ InOrder /\ AheadIsFresh /\ PassGoesOn /\ [MirrorNext]_mirror => PassGoesOn'
<1> SUFFICES ASSUME MirrorTypeOK, Dated, InOrder, AheadIsFresh, PassGoesOn, [MirrorNext]_mirror
             PROVE  PassGoesOn'
    OBVIOUS
<1>1. /\ reconcile'.step # "upsert" => reconcile'.todo = {} /\ reconcile'.present = {}
      /\ \A i \in reconcile'.todo : i.key \in reconcile'.present
    BY PassStep, RestingFields DEF PassGoesOn, Snapshot
<1>2. ASSUME errors' = 0, NEW k \in reconcile'.present
      PROVE  \/ \E i \in reconcile'.todo : i.key = k
             \/ rows'[k].slot >= reconcile'.slot /\ rows'[k].data >= reconcile'.asOf[k]
  <2>1. errors = 0 /\ k \in Keys
    <3>1. k \in Keys
        BY TypeStep DEF MirrorTypeOK
    <3>2. errors \in Nat /\ (errors' = errors \/ errors' = errors + 1)
        BY <3>1, SeenTypes
        DEF MirrorNext, mirror, Slot, Deliver, Lose, Restart, GetSlot, GetProgramAccounts, UpsertSnapshot,
            Prune, persist, Error
    <3> QED
        BY <1>2, <3>1, <3>2
  <2>2. CASE GetProgramAccounts
    <3>1. reconcile'.todo = Snapshot /\ k \in Live
        BY <1>2, <2>2, SnapshotEffect, RestingFields
    <3>2. [key |-> k, data |-> accounts[k]] \in Snapshot
        BY <3>1 DEF Snapshot
    <3> QED
        BY <3>1, <3>2
  <2>3. CASE ~GetProgramAccounts
    <3>1. /\ reconcile.step # "sleep" /\ k \in reconcile.present /\ reconcile'.slot = reconcile.slot
          /\ reconcile'.asOf = reconcile.asOf
        BY <1>2, <2>3, PassStep, RestingFields DEF PassGoesOn
    <3>2. /\ rows[k].slot \in Nat /\ reconcile.slot \in Nat /\ reconcile.asOf[k] \in Nat
          /\ rows[k].data \in Nat /\ reconcile.asOf[k] <= reconcile.slot
        BY <2>1, <3>1, SeenTypes DEF AheadIsFresh
    <3>3. CASE UpsertSnapshot
      <4>1. PICK item \in reconcile.todo :
                /\ reconcile'.todo = reconcile.todo \ {item}
                /\ persist(item.key, reconcile.slot, item.data)
          BY <3>3, UpsertEffect
      <4>2. CASE item.key = k /\ rows[k].slot <= reconcile.slot
        <5>1. rows'[k].slot = reconcile.slot /\ rows'[k].data = item.data
            BY <1>2, <4>1, <4>2, ItemTypes, PersistEffect DEF MirrorTypeOK
        <5>2. item.data >= reconcile.asOf[k]
            BY <3>1, <4>2 DEF AheadIsFresh
        <5> QED
            BY <3>1, <3>2, <5>1, <5>2
      <4>3. CASE item.key = k /\ ~(rows[k].slot <= reconcile.slot)
        <5>1. rows[k].slot > reconcile.slot
            BY <3>2, <4>3
        <5>2. rows'[k] = rows[k]
            BY <2>1, <3>2, <3>3, <4>3, RowStep DEF UpsertSnapshot, Deliver, Prune
        <5> QED
            BY <2>1, <3>1, <3>2, <5>1, <5>2 DEF AheadIsFresh
      <4>4. CASE item.key # k /\ \E i \in reconcile.todo : i.key = k
          BY <4>1, <4>4
      <4>5. CASE item.key # k /\ ~\E i \in reconcile.todo : i.key = k
        <5>1. rows'[k] = rows[k]
            BY <2>1, <4>1, <4>5, ItemTypes, PersistEffect DEF MirrorTypeOK
        <5> QED
            BY <2>1, <3>1, <4>5, <5>1 DEF PassGoesOn
      <4> QED
          BY <4>2, <4>3, <4>4, <4>5
    <3>4. CASE ~UpsertSnapshot
      <4>1. reconcile'.todo = reconcile.todo
          BY <1>2, <2>3, <3>4, PassStep, RestingFields
      <4>2. CASE \E i \in reconcile.todo : i.key = k
          BY <4>1, <4>2
      <4>3. CASE rows[k].slot >= reconcile.slot /\ rows[k].data >= reconcile.asOf[k]
        <5>1. CASE rows'[k] = rows[k]
            BY <3>1, <4>3, <5>1
        <5>2. CASE \E u \in updates : /\ u.key = k /\ rows[k].slot <= u.slot
                                     /\ rows'[k].slot = u.slot /\ rows'[k].data = u.data
          <6>1. PICK u \in updates : /\ u.key = k /\ rows[k].slot <= u.slot
                                     /\ rows'[k].slot = u.slot /\ rows'[k].data = u.data
              BY <5>2
          <6>2. u.slot \in Nat /\ u.data \in Nat /\ reconcile.asOf[k] <= u.slot
              BY <2>1, <3>2, <4>3, <6>1, SeenTypes
          <6>3. reconcile.asOf[k] <= u.data
              BY <2>1, <6>1, <6>2, SeenTypes DEF InOrder
          <6> QED
              BY <3>1, <3>2, <4>3, <6>1, <6>2, <6>3
        <5> QED
            BY <2>1, <3>1, <3>4, <5>1, <5>2, RowStep
      <4> QED
          BY <2>1, <3>1, <4>2, <4>3 DEF PassGoesOn
    <3> QED
        BY <3>3, <3>4
  <2> QED
      BY <2>2, <2>3
<1> QED
    BY <1>1, <1>2 DEF PassGoesOn

LEMMA MirrorInvHolds == MirrorSpec => []MirrorInv
<1>1. MirrorInit => MirrorInv
  <2> SUFFICES ASSUME MirrorInit PROVE MirrorInv
      OBVIOUS
  <2>1. MirrorTypeOK
      BY MirrorAssumption, RestingTypes DEF MirrorInit, NoRow, MirrorTypeOK
  <2>2. \A k \in Keys : Seen(k) = {0}
      BY RestingFields DEF MirrorInit, Seen, NoRow
  <2>3. slot = 0 /\ updates = {} /\ reconcile = Resting /\ \A k \in Keys : rows[k] = NoRow
      BY DEF MirrorInit
  <2>4. Dated /\ InOrder
      BY <2>2, <2>3, RestingFields DEF Dated, InOrder, MirrorInit, NoRow
  <2>5. StampedInPass /\ AbsentIsClosed /\ AheadIsFresh /\ PassGoesOn
      BY <2>3, RestingFields DEF StampedInPass, AbsentIsClosed, AheadIsFresh, PassGoesOn
  <2> QED
      BY <2>1, <2>4, <2>5 DEF MirrorInv
<1>2. MirrorInv /\ [MirrorNext]_mirror => MirrorInv'
    BY TypeStep, DatedStep, InOrderStep, StampedStep, AbsentStep, AheadStep, PassGoesOnStep
    DEF MirrorInv
<1> QED
    BY <1>1, <1>2, PTL DEF MirrorSpec

-----------------------------------------------------------------------------
\* What is promised of the table

\* No update, however late, and no snapshot puts an older state over a newer
\* one, but over a row whose stamp is older than its data (upsert_account).
THEOREM RowsNeverGoBack == MirrorSpec => RowsAdvance
<1>1. MirrorInv /\ [MirrorNext]_mirror =>
        [\A k \in Keys : rows'[k] = NoRow \/ rows'[k].data >= rows[k].data
                          \/ rows[k].slot < rows[k].data]_mirror
  <2> SUFFICES ASSUME MirrorInv, [MirrorNext]_mirror, NEW k \in Keys
               PROVE  rows'[k] = NoRow \/ rows'[k].data >= rows[k].data
                          \/ rows[k].slot < rows[k].data
      OBVIOUS
  <2>1. /\ rows[k].slot \in Nat /\ rows[k].data \in Nat /\ rows[k].data \in Seen(k)
        /\ reconcile.slot \in Nat /\ \A u \in updates : u.slot \in Nat /\ u.data \in Nat
        /\ \A i \in reconcile.todo : i.data \in Nat
      BY SeenTypes DEF MirrorInv
  <2>2. CASE rows'[k] = rows[k]
      BY <2>1, <2>2
  <2>3. CASE \E u \in updates : u.key = k /\ rows[k].slot <= u.slot /\ rows'[k].data = u.data
      BY <2>1, <2>3 DEF MirrorInv, InOrder
  <2>4. CASE \E i \in reconcile.todo :
                i.key = k /\ rows[k].slot <= reconcile.slot /\ rows'[k].data = i.data
      BY <2>1, <2>4 DEF MirrorInv, InOrder
  <2> QED
      BY <2>2, <2>3, <2>4, RowStep DEF MirrorInv
<1> QED
    BY <1>1, MirrorInvHolds, PTL DEF MirrorSpec, RowsAdvance

\* A row is only pruned when it does not show the account as it is (prune).
THEOREM PruneSparesLiveRows == MirrorSpec => LiveRowsAreKept
<1>1. MirrorInv /\ [MirrorNext]_mirror =>
        [\A k \in Keys : rows'[k] = NoRow /\ rows[k] # NoRow => rows[k].data # accounts[k]]_mirror
  <2> SUFFICES ASSUME MirrorInv, [MirrorNext]_mirror, NEW k \in Keys, rows'[k] = NoRow, rows[k] # NoRow
               PROVE  rows[k].data # accounts[k]
      OBVIOUS
  <2>1. /\ rows[k].slot \in Nat /\ rows[k].data \in Nat /\ reconcile.slot \in Nat
        /\ accounts[k] \in Nat /\ rows[k].data # 0
      BY SeenTypes DEF MirrorInv, Dated
  <2>2. NoRow.data = 0
      BY DEF NoRow
  <2>3. Prune /\ k \notin reconcile.present /\ rows[k].slot <= reconcile.slot
      BY <2>1, <2>2, RowStep, DeliverEffect, ItemTypes DEF MirrorInv, MirrorTypeOK
  <2>4. reconcile.step = "upsert"
      BY <2>3 DEF Prune
  <2>5. rows[k].data <= reconcile.slot
      BY <2>1, <2>3, <2>4 DEF MirrorInv, StampedInPass
  <2>6. accounts[k] = 0 \/ accounts[k] > reconcile.slot
      BY <2>3, <2>4 DEF MirrorInv, AbsentIsClosed
  <2> QED
      BY <2>1, <2>5, <2>6
<1> QED
    BY <1>1, MirrorInvHolds, PTL DEF MirrorSpec, LiveRowsAreKept

\* A pass without failures leaves no row older than the chain was when it
\* began, and none of an account that was closed then (reconcile_once).
THEOREM PassRefreshes == MirrorSpec => PassesRefresh
<1> DEFINE Whole == /\ reconcile.step = "upsert" /\ reconcile' = Resting
                    /\ errors = 0 /\ errors' = 0 /\ restarts' = restarts
           Known == \A k \in Keys :
                        IF k \in reconcile.present
                        THEN rows'[k].data >= reconcile.asOf[k]
                        ELSE rows'[k] = NoRow \/ rows'[k].slot > reconcile.slot
<1>1. MirrorInv /\ [MirrorNext]_mirror => [Whole => Known]_mirror
  <2> SUFFICES ASSUME MirrorInv, MirrorNext, Whole PROVE Known
      BY RestingFields DEF mirror
  <2>1. MirrorTypeOK /\ PassGoesOn
      BY DEF MirrorInv
  <2>2. Prune
    <3>1. ~Restart
        BY <2>1, MirrorAssumption DEF Restart, MirrorTypeOK
    <3>2. reconcile # Resting
        BY RestingFields
    <3> QED
        BY <2>1, <3>1, <3>2, RestingFields, UpsertEffect
        DEF MirrorNext, Slot, Deliver, Lose, GetSlot, GetProgramAccounts
  <2>3. reconcile.todo = {}
      BY <2>2 DEF Prune
  <2> QED
      BY <2>1, <2>2, <2>3, PruneEffect DEF PassGoesOn, MirrorTypeOK
<1> QED
    BY <1>1, MirrorInvHolds, PTL DEF MirrorSpec, PassesRefresh
=============================================================================
