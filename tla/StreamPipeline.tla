--------------------------- MODULE StreamPipeline ---------------------------
(***************************************************************************)
(* The event-driven rolling pipeline of fl-op: an event source (Kafka,     *)
(* Redis Streams or a JSONL file), the stream session that applies events  *)
(* and builds plan revisions, the publication of revisions as files, the   *)
(* durable event-id store (stream/dedup.py) and the commit of the source's *)
(* offsets; with process crashes between any two of these steps.           *)
(*                                                                         *)
(* Both drivers are modelled: "rolling" (planning/plans.py,                *)
(* run_plan_rolling: drain once, publish everything, record, commit, exit) *)
(* and "watch" (run_plan_watch: one session, many drain cycles).  Each     *)
(* start may be of either: they read the same group and the same id log.   *)
(*                                                                         *)
(* A Kafka partition and a Redis stream read by one consumer name are both *)
(* an append-only log read in order from the first unacknowledged entry:   *)
(* offset is Kafka's committed offset, and the number of acked entries of  *)
(* the Redis group (its pending entries are read before the new ones).     *)
(***************************************************************************)
EXTENDS Integers, Sequences, FiniteSets

CONSTANTS
    EventIds,     \* event ids a producer may stamp
    NoId,         \* the blank event id: never deduplicated, never recorded
    Torn,         \* a line of the id log that is no complete id
    Kinds,        \* message kinds of this instance (subset of AllKinds)
    Source,       \* EVENT_SOURCE_KIND: "kafka", "redis" or "jsonl"
    Modes,        \* the drivers a process may be started as
    DedupEnabled, \* EVENT_DEDUP_STORE_ENABLED
    Coalesce,     \* STREAM_CONVERGENCE_WINDOW_S > 0
    TornWrites,   \* a crash may cut an append to the id log inside a line
    MaxIds,       \* EVENT_DEDUP_MAX_IDS
    CycleLimit,   \* PLAN_WATCH_MAX_CYCLES (0: run forever)
    MaxLog,       \* bound: messages produced
    MaxCrashes,   \* bound: crashes
    MaxRuns,      \* bound: processes that open a run directory
    MaxRevs       \* bound: revisions built by one run

\* "event": accepted by parse_event.  "malformed": JSONDecodeError or
\* ValueError (bad JSON, unsupported event type), caught by the broker
\* sources.  "uncaught": a body that raises past their except clauses (JSON
\* that is no object: AttributeError; undecodable bytes, raised outside the
\* try; a Kafka tombstone: TypeError).
AllKinds == {"event", "malformed", "uncaught"}

ASSUME ConstantsAssumption ==
    /\ NoId \notin EventIds
    /\ Torn \notin EventIds \cup {NoId}
    /\ Kinds \subseteq AllKinds
    /\ Source \in {"kafka", "redis", "jsonl"}
    /\ Modes \subseteq {"watch", "rolling"}
    /\ DedupEnabled \in BOOLEAN
    /\ Coalesce \in BOOLEAN
    /\ TornWrites \in BOOLEAN
    /\ MaxIds \in Nat \ {0}
    /\ CycleLimit \in Nat
    /\ MaxLog \in Nat
    /\ MaxCrashes \in Nat
    /\ MaxRuns \in Nat
    /\ MaxRevs \in Nat

VARIABLES
    \* Durable: survives the process.
    log,        \* the topic or stream, append-only
    offset,     \* entries committed or acked
    dedupFile,  \* lines of $DATA_DIR/stream/event-dedup.ids
    torn,       \* the last line of dedupFile lacks its newline
    revs,       \* revision files, keyed by (run, n)
    summary,    \* per run: revisions its revisions_summary.json lists
    run,        \* runs that got as far as building a baseline
    \* Volatile: lost by a crash.
    mode,       \* the driver of the process: "watch" or "rolling"
    pc,         \* where the process is ("off": no process)
    position,   \* end of the drained backlog (offset: nothing drained)
    cursor,     \* last drained message already handed to the applicator
    seen,       \* EventApplicator._seen_event_ids
    storeIds,   \* EventDedupStore._ids (_seen is the set of its elements)
    working,    \* log positions applied to StreamSession.working
    pending,    \* revisions built, not yet written
    nBuilt,     \* revisions built by this run
    nWritten,   \* revisions written by this run (counter)
    toRecord,   \* log positions whose ids record_published still has to add
    cycle,      \* watch cycles begun
    crashes     \* crashes so far (bounded)

durable == <<log, offset, dedupFile, torn, revs, summary, run>>
session == <<position, cursor, seen, working>>
output == <<pending, nBuilt, nWritten>>
vars == <<durable, mode, pc, session, output, storeIds, toRecord, cycle, crashes>>

-----------------------------------------------------------------------------
(* Types *)

Ids == EventIds \cup {NoId}

Messages ==
    {[kind |-> "event", id |-> i] : i \in IF "event" \in Kinds THEN Ids ELSE {}}
        \cup {[kind |-> k, id |-> NoId] : k \in Kinds \ {"event"}}

Runs == 1..MaxRuns

\* One revision: ids of the events its rebuild applied are those at the log
\* positions src; its snapshot was built from a working copy that holds the
\* effects of the events at positions reflects.
Revisions == [run : Runs, n : Nat, src : SUBSET Nat, reflects : SUBSET Nat]

PCs == {"off", "drain", "poll", "apply", "write", "summary", "record",
        "compact", "commit"}

\* open_dedup_store: only sources registered with uses_dedup_store.
UseStore == Source # "jsonl" /\ DedupEnabled

-----------------------------------------------------------------------------
(* Derived state *)

IsEvent(i) == log[i].kind = "event"

\* Event ids (blank ones excepted) at the positions S: applied_event_ids.
IdsOf(S) == {log[i].id : i \in S} \ {NoId}

\* The ids on the lines of the in-memory store (EventDedupStore._seen).
StoreSeen == {storeIds[k] : k \in 1..Len(storeIds)}

DurableIds == {dedupFile[k] : k \in 1..Len(dedupFile)} \ {Torn}

\* The message at i has been published by one of the revisions R.
CoveredBy(R, i) ==
    \E r \in R : i \in r.src \/ log[i].id \in IdsOf(r.src)

PublishedIds == UNION {IdsOf(r.src) : r \in revs}

\* The iteration of the source raises on these kinds: JsonlEventSource lets
\* every parse error escape, the broker sources only the uncaught ones.
RaisingKinds ==
    IF Source = "jsonl" THEN {"malformed", "uncaught"} ELSE {"uncaught"}

Backlog == (offset + 1)..Len(log)

DrainRaises == \E i \in Backlog : log[i].kind \in RaisingKinds

EventsIn(a, b) == {i \in (a + 1)..b : IsEvent(i)}

-----------------------------------------------------------------------------
(* Environment *)

\* A producer appends a message; it may resend an id it already sent.
Produce(m) ==
    /\ Len(log) < MaxLog
    /\ log' = Append(log, m)
    /\ UNCHANGED <<offset, dedupFile, torn, revs, summary, run>>
    /\ UNCHANGED <<mode, pc, session, output, storeIds, toRecord, cycle, crashes>>

\* The process is gone and everything it kept in memory with it.
ProcessGone ==
    /\ pc' = "off"
    /\ mode' = mode
    /\ position' = 0 /\ cursor' = 0
    /\ seen' = {} /\ storeIds' = <<>> /\ working' = {}
    /\ pending' = {} /\ nBuilt' = 0 /\ nWritten' = 0
    /\ toRecord' = {} /\ cycle' = 0

\* A crash (or an exception out of the solver) between two steps.
Crash ==
    /\ pc # "off"
    /\ crashes < MaxCrashes
    /\ crashes' = crashes + 1
    /\ ProcessGone
    /\ UNCHANGED durable

\* A crash while record_published flushes an append, inside a line.
CrashTorn ==
    /\ TornWrites
    /\ pc = "record"
    /\ crashes < MaxCrashes
    /\ crashes' = crashes + 1
    /\ dedupFile' = IF torn THEN dedupFile ELSE Append(dedupFile, Torn)
    /\ torn' = TRUE
    /\ ProcessGone
    /\ UNCHANGED <<log, offset, revs, summary, run>>

-----------------------------------------------------------------------------
(* Process start *)

Baseline(r) == [run |-> r, n |-> 0, src |-> {}, reflects |-> {}]

LoadedStore == IF UseStore THEN dedupFile ELSE <<>>

\* run_plan_watch up to the baseline: sources and the id store are loaded
\* and the session is opened on the sources as they are on disk.
StartWatch ==
    /\ "watch" \in Modes
    /\ pc = "off"
    /\ run < MaxRuns
    /\ mode' = "watch"
    /\ run' = run + 1
    /\ storeIds' = LoadedStore
    /\ position' = offset /\ cursor' = offset
    /\ pending' = {Baseline(run + 1)}
    /\ nBuilt' = 1
    /\ pc' = "write"
    /\ UNCHANGED <<log, offset, dedupFile, torn, revs, summary>>
    /\ UNCHANGED <<seen, working, nWritten, toRecord, cycle, crashes>>

\* run_plan_rolling starts by loading the sources and draining the source.
StartRolling ==
    /\ "rolling" \in Modes
    /\ pc = "off"
    /\ run < MaxRuns
    /\ mode' = "rolling"
    /\ pc' = "drain"
    /\ UNCHANGED <<durable, session, output, storeIds, toRecord, cycle, crashes>>

-----------------------------------------------------------------------------
(* Draining the source *)

\* list(event_source) raises: the exception ends the process.
DrainFails ==
    /\ pc \in {"drain", "poll"}
    /\ pc = "poll" => CycleLimit = 0 \/ cycle < CycleLimit
    /\ DrainRaises
    /\ ProcessGone
    /\ UNCHANGED <<durable, crashes>>

DrainRolling ==
    /\ pc = "drain"
    /\ ~DrainRaises
    /\ run' = run + 1
    /\ storeIds' = LoadedStore
    /\ cursor' = offset
    /\ position' = Len(log)
    /\ pending' = {Baseline(run + 1)}
    /\ nBuilt' = 1
    /\ pc' = "apply"
    /\ UNCHANGED <<log, offset, dedupFile, torn, revs, summary>>
    /\ UNCHANGED <<mode, seen, working, nWritten, toRecord, cycle, crashes>>

\* One watch cycle: drain; with no event the consumer is closed, nothing is
\* committed and the next cycle polls again.
DrainWatch ==
    /\ pc = "poll"
    /\ CycleLimit = 0 \/ cycle < CycleLimit
    /\ ~DrainRaises
    /\ cycle' = IF CycleLimit = 0 THEN 0 ELSE cycle + 1
    /\ cursor' = offset
    /\ IF EventsIn(offset, Len(log)) # {}
         THEN position' = Len(log) /\ pc' = "apply"
         ELSE position' = offset /\ pc' = "poll"
    /\ UNCHANGED <<mode, durable, seen, working, output, storeIds, toRecord, crashes>>

StopWatch ==
    /\ pc = "poll"
    /\ CycleLimit # 0 /\ cycle = CycleLimit
    /\ ProcessGone
    /\ UNCHANGED <<durable, crashes>>

-----------------------------------------------------------------------------
(* StreamSession.drain *)

\* Faults the properties below must notice, one per property: the durable
\* store is not asked, this run's ids are forgotten, blank ids count as seen.
AppliedWithoutStore(batch) ==
    {i \in batch :
        \/ log[i].id = NoId
        \/ /\ log[i].id \notin seen
           /\ \A j \in batch : j < i => log[j].id # log[i].id}

AppliedWithoutSeen(batch) ==
    {i \in batch :
        \/ log[i].id = NoId
        \/ /\ log[i].id \notin StoreSeen
           /\ \A j \in batch : j < i => log[j].id # log[i].id}

AppliedBlankOnce(batch) ==
    {i \in batch :
        /\ log[i].id = NoId => working = {}
        /\ log[i].id \notin seen \cup StoreSeen
        /\ \A j \in batch : j < i => log[j].id # log[i].id}

\* The events of a batch that EventApplicator.apply does not skip: blank ids,
\* and ids seen neither in this run, nor in the store, nor earlier in the
\* batch.
Applied(batch) ==
    {i \in batch :
        \/ log[i].id = NoId
        \/ /\ log[i].id \notin seen \cup StoreSeen
           /\ \A j \in batch : j < i => log[j].id # log[i].id}

\* A fault: each batch starts from a fresh copy of the sources.
WorkingReset(applied) == applied

\* The session's working copy keeps the effect of every applied event.
WorkingAfter(applied) == working \cup applied

\* One converged batch: every event up to position b.  A batch none of whose
\* events applies yields no revision.
ApplyBatch(b) ==
    LET batch == EventsIn(cursor, b)
        applied == Applied(batch)
    IN /\ pc = "apply"
       /\ b \in EventsIn(cursor, position)
       /\ Coalesce \/ batch = {b}
       /\ nBuilt < MaxRevs
       /\ cursor' = b
       /\ seen' = seen \cup IdsOf(applied)
       /\ working' = WorkingAfter(applied)
       /\ IF applied = {}
            THEN UNCHANGED <<pending, nBuilt, pc>>
            ELSE /\ pending' = pending \cup
                      {[run |-> run, n |-> nBuilt, src |-> applied,
                        reflects |-> WorkingAfter(applied)]}
                 /\ nBuilt' = nBuilt + 1
                 /\ pc' = IF mode = "watch" THEN "write" ELSE "apply"
       /\ UNCHANGED <<mode, durable, position, nWritten, storeIds, toRecord, cycle,
                      crashes>>

\* A fault: the rolling run records its ids before it writes its revisions.
FinishDrainRecordsFirst ==
    /\ pc = "apply"
    /\ EventsIn(cursor, position) = {}
    /\ toRecord' = {i \in working : log[i].id \notin StoreSeen \cup {NoId}}
    /\ pc' = IF toRecord' = {} THEN "write" ELSE "record"
    /\ UNCHANGED <<mode, durable, session, output, storeIds, cycle, crashes>>

\* The drained backlog is exhausted: the watcher has published each revision
\* already and commits, the rolling run publishes now.
FinishDrain ==
    /\ pc = "apply"
    /\ EventsIn(cursor, position) = {}
    /\ pc' = IF mode = "watch" THEN "commit" ELSE "write"
    /\ UNCHANGED <<mode, durable, session, output, storeIds, toRecord, cycle, crashes>>

-----------------------------------------------------------------------------
(* Publication, recording, commit *)

\* Positions whose ids record_published will append (new_ids).
NewIds(S) == {i \in S : log[i].id \notin StoreSeen \cup {NoId}}

WriteRevision(r) ==
    /\ pc = "write"
    /\ r \in pending
    /\ r.n = nWritten
    /\ revs' = revs \cup {r}
    /\ pending' = pending \ {r}
    /\ nWritten' = nWritten + 1
    /\ toRecord' = IF UseStore THEN NewIds(toRecord \cup r.src) ELSE {}
    /\ pc' = IF mode = "rolling"
               THEN (IF pending' = {} THEN "summary" ELSE "write")
               ELSE IF r.n = 0 THEN "summary"
                    ELSE IF toRecord' # {} THEN "record" ELSE "apply"
    /\ UNCHANGED <<log, offset, dedupFile, torn, summary, run>>
    /\ UNCHANGED <<mode, session, nBuilt, storeIds, cycle, crashes>>

\* revisions_summary.json is rewritten with every revision of the run.
WriteSummary ==
    /\ pc = "summary"
    /\ summary' = [summary EXCEPT ![run] = nWritten]
    /\ pc' = IF mode = "watch" THEN "poll"
             ELSE IF toRecord # {} THEN "record" ELSE "commit"
    /\ UNCHANGED <<log, offset, dedupFile, torn, revs, run>>
    /\ UNCHANGED <<mode, session, output, storeIds, toRecord, cycle, crashes>>

\* record_published appends one line (a line behind a torn one is merged
\* into it).
RecordId(i) ==
    /\ pc = "record"
    /\ i \in toRecord /\ \A j \in toRecord : i <= j
    /\ storeIds' = Append(storeIds, log[i].id)
    /\ dedupFile' = IF torn THEN dedupFile ELSE Append(dedupFile, log[i].id)
    /\ torn' = FALSE
    /\ toRecord' = toRecord \ {i}
    /\ pc' = IF toRecord' = {} THEN "compact" ELSE "record"
    /\ UNCHANGED <<log, offset, revs, summary, run>>
    /\ UNCHANGED <<mode, session, output, cycle, crashes>>

\* Faults: compaction keeps the oldest ids; it leaves the id set in memory.
Oldest(s) == IF Len(s) > MaxIds THEN SubSeq(s, 1, MaxIds) ELSE s

CompactFileOnly ==
    /\ pc = "compact"
    /\ storeIds' = storeIds
    /\ dedupFile' = IF Len(storeIds) > MaxIds
                      THEN SubSeq(storeIds, Len(storeIds) - MaxIds + 1, Len(storeIds))
                      ELSE dedupFile
    /\ pc' = IF mode = "watch" THEN "apply" ELSE "commit"
    /\ UNCHANGED <<log, offset, torn, revs, summary, run>>
    /\ UNCHANGED <<mode, session, output, toRecord, cycle, crashes>>

\* keep = self._ids[-EVENT_DEDUP_MAX_IDS:]
Newest(s) ==
    IF Len(s) > MaxIds THEN SubSeq(s, Len(s) - MaxIds + 1, Len(s)) ELSE s

\* The end of record_published: past the retention bound the file is replaced
\* atomically by its newest ids.
Compact ==
    /\ pc = "compact"
    /\ storeIds' = Newest(storeIds)
    /\ dedupFile' = IF Len(storeIds) > MaxIds THEN Newest(storeIds) ELSE dedupFile
    /\ pc' = IF mode = "watch" THEN "apply" ELSE "commit"
    /\ UNCHANGED <<log, offset, torn, revs, summary, run>>
    /\ UNCHANGED <<mode, session, output, toRecord, cycle, crashes>>

\* Faults: the end of the log is committed, not the consumed position;
\* nothing (the source is only closed).
CommitToEnd == IF Source = "jsonl" THEN offset ELSE Len(log)

CommitNothing == offset

\* Commit the drained entries; the JSONL source has nothing to commit.
CommitTo == IF Source = "jsonl" THEN offset ELSE position

\* The end of a watch cycle: commit, then refresh the summary when the cycle
\* published something (finalize keeps no state of this module).
CommitWatch ==
    /\ pc = "commit"
    /\ mode = "watch"
    /\ offset' = CommitTo
    /\ pc' = IF nWritten > summary[run] THEN "summary" ELSE "poll"
    /\ UNCHANGED <<log, dedupFile, torn, revs, summary, run>>
    /\ UNCHANGED <<mode, session, output, storeIds, toRecord, cycle, crashes>>

CommitRolling ==
    /\ pc = "commit"
    /\ mode = "rolling"
    /\ offset' = CommitTo
    /\ ProcessGone
    /\ UNCHANGED <<log, dedupFile, torn, revs, summary, run, crashes>>

-----------------------------------------------------------------------------
(* Specification *)

Init ==
    /\ log = <<>> /\ offset = 0
    /\ dedupFile = <<>> /\ torn = FALSE
    /\ revs = {} /\ summary = [r \in Runs |-> 0] /\ run = 0
    /\ pc = "off" /\ mode \in {"watch", "rolling"}
    /\ position = 0 /\ cursor = 0
    /\ seen = {} /\ storeIds = <<>> /\ working = {}
    /\ pending = {} /\ nBuilt = 0 /\ nWritten = 0
    /\ toRecord = {} /\ cycle = 0
    /\ crashes = 0

\* The steps of a running process.
Step ==
    \/ DrainFails \/ DrainRolling \/ DrainWatch \/ StopWatch
    \/ \E b \in 1..Len(log) : ApplyBatch(b)
    \/ FinishDrain
    \/ \E r \in pending : WriteRevision(r)
    \/ WriteSummary
    \/ \E i \in toRecord : RecordId(i)
    \/ Compact
    \/ CommitWatch \/ CommitRolling

Start == StartWatch \/ StartRolling

Next ==
    \/ \E m \in Messages : Produce(m)
    \/ Start
    \/ Step
    \/ Crash
    \/ CrashTorn

Spec == Init /\ [][Next]_vars

\* A running process keeps running, and a dead one is started again (the
\* watcher by its supervisor, the rolling run by its schedule).
FairSpec == Spec /\ WF_vars(Step) /\ WF_vars(Start)

-----------------------------------------------------------------------------
(* Properties *)

\* Every variable holds a value of its type; positions stay inside the log.
TypeOK ==
    /\ log \in Seq(Messages) /\ offset \in 0..Len(log)
    /\ dedupFile \in Seq(EventIds \cup {Torn}) /\ torn \in BOOLEAN
    /\ revs \subseteq Revisions
    /\ summary \in [Runs -> Nat] /\ run \in 0..MaxRuns
    /\ pc \in PCs /\ mode \in {"watch", "rolling"}
    /\ position \in 0..Len(log) /\ cursor \in 0..Len(log)
    /\ seen \subseteq EventIds
    /\ storeIds \in Seq(EventIds \cup {Torn})
    /\ working \subseteq 1..Len(log)
    /\ pending \subseteq Revisions
    /\ nBuilt \in Nat /\ nWritten \in Nat
    /\ toRecord \subseteq 1..Len(log)
    /\ cycle \in Nat /\ crashes \in Nat

\* No event is lost: an entry whose offset is committed (acked) has been
\* published by a revision file, itself or an earlier delivery of its id,
\* whatever crashes happen between applying, writing, recording and commit.
CommittedArePublished ==
    \A i \in 1..offset : IsEvent(i) => CoveredBy(revs, i)

\* An id in the durable store belongs to an event whose revision is on disk
\* (record_published is called after _write_revision): only so may its
\* redelivery be suppressed.
StoreHoldsOnlyPublished == DurableIds \subseteq PublishedIds

\* Publication comes first: before an id is recorded and before an entry is
\* committed (the order of _write_revision, record_published and commit).
PublishedFirst == CommittedArePublished /\ StoreHoldsOnlyPublished

\* No revision is published for an event whose id is in the durable store:
\* redelivery of a recorded event, in this or in a later process, is
\* suppressed by EventApplicator.apply.
RecordedNeverRepublished ==
    [][UseStore =>
        \A r \in revs' \ revs : IdsOf(r.src) \cap DurableIds = {}]_vars

\* Within one run no event id is published twice, also when the store is
\* off or has evicted the id, and no event revision is empty.
OnceWithinRun ==
    \A r, q \in revs :
        /\ r.n > 0 => r.src # {}
        /\ (r.run = q.run /\ r # q) => IdsOf(r.src) \cap IdsOf(q.src) = {}

\* The process has read no torn line: a line behind one is merged into it, so
\* the id there is lost to the next process.
CleanLog == Torn \notin StoreSeen

\* When a cycle is about to commit its offsets, every id it published itself is
\* on a line of the id log, unless it published more ids than the retention
\* bound keeps.
CommitWindowDurable ==
    LET window == IdsOf(EventsIn(offset, position) \cap working)
    IN (pc = "commit" /\ UseStore /\ CleanLog /\ Cardinality(window) <= MaxIds)
         => window \subseteq DurableIds

\* A crash before that commit would redeliver the whole backlog, also what an
\* earlier process has published and recorded before it crashed: unless the
\* backlog has more ids than the retention bound keeps, all of them are on a
\* line of the id log.  An id that a committed entry carries too, a resend of
\* the producer, has the age of its first record and may be gone.
BacklogDurable ==
    LET redelivered == IdsOf((offset + 1)..position)
    IN (pc = "commit" /\ UseStore /\ CleanLog /\ Cardinality(redelivered) <= MaxIds)
         => redelivered \ IdsOf(1..offset) \subseteq DurableIds

\* The id set in memory and the id log agree whenever a batch is applied or
\* published, and no id is on two lines.
StoreMatchesFile ==
    (UseStore /\ pc \in {"apply", "commit", "poll"}) =>
        /\ CleanLog => dedupFile = storeIds
        /\ \A j, k \in 1..Len(dedupFile) :
               j # k /\ dedupFile[j] = dedupFile[k] => dedupFile[j] = Torn

\* Revisions of a run are numbered without gaps or overwriting, and the
\* snapshot of each holds the effects of all earlier ones and its own.
RevisionsChain ==
    \A r \in revs :
        /\ r.src \subseteq r.reflects
        /\ \A n \in 0..r.n : \E q \in revs : q.run = r.run /\ q.n = n
        /\ \A q \in revs : (q.run = r.run /\ q.n < r.n) => q.reflects \subseteq r.reflects
        /\ \A q \in revs : (q.run = r.run /\ q.n = r.n) => q = r

\* The revision files of a run are a sound history: each event is in one of
\* them, and each builds on all that came before (the session of
\* stream/driver.py shared by the drain cycles of a run).
RevisionsSound == OnceWithinRun /\ RevisionsChain

\* What the id log promises to the next process, as long as the ids of a cycle
\* and of a backlog do not outnumber EVENT_DEDUP_MAX_IDS: at every commit it
\* holds what a crash could have redelivered, whichever process published it,
\* and it says what the memory says (record_published and _compact of
\* stream/dedup.py).  Past that bound compaction does drop ids that are not
\* committed yet.
DurableIdsSound == CommitWindowDurable /\ BacklogDurable /\ StoreMatchesFile

\* Every event accepted from the source is published in the end (one batch
\* per revision or coalesced, through crashes and restarts).
EventuallyPublished ==
    \A i \in 1..MaxLog :
        (i <= Len(log) /\ IsEvent(i)) ~> (i <= Len(log) /\ CoveredBy(revs, i))

\* Every entry that is an event or has one behind it is committed (acked) in
\* the end.
EventuallyCommitted ==
    \A i \in 1..MaxLog : (\E j \in i..Len(log) : IsEvent(j)) ~> (offset >= i)

\* No event is left behind: whatever crashes and restarts come in between, it
\* reaches a revision and is acked, with all entries before it, malformed ones
\* too.  Malformed entries with no event behind them are not promised anything:
\* a watch cycle that drains only such entries commits nothing (run_plan_watch).
EveryEntrySettled == EventuallyPublished /\ EventuallyCommitted

-----------------------------------------------------------------------------
(* The inductive invariant behind the theorems of StreamPipelineProofs *)

Active == pc \notin {"off", "drain"}

\* A process that has drained belongs to a run; positions are in log order.
Positions ==
    /\ Active => run \in Runs /\ offset <= position /\ cursor <= position
    /\ pc = "drain" => run < MaxRuns /\ mode = "rolling"

\* Revisions wait to be written only where the drivers keep them waiting.
PendingShape ==
    /\ pc \notin {"apply", "write"} => pending = {}
    /\ (mode = "watch" /\ pc = "apply") => pending = {}
    /\ (mode = "watch" /\ pc = "write") => \E r \in pending : pending = {r}

\* Once the backlog is exhausted nothing of it is left to apply.
DrainedShape ==
    (pc = "commit" \/ (mode = "rolling" /\ pc \in {"write", "summary", "record", "compact"}))
        => EventsIn(cursor, position) = {}

\* Revisions are made of log entries.
SourcesInLog == \A r \in revs \cup pending : r.src \subseteq 1..Len(log)

\* What was applied beyond the committed offset is published or waits to be.
CursorCovered ==
    \A i \in EventsIn(offset, cursor) : CoveredBy(revs \cup pending, i)

\* The ids that suppress an event in this run are published or wait to be.
SeenCovered ==
    \A e \in seen : \E r \in revs \cup pending : e \in IdsOf(r.src)

\* The store, and what it is about to record, is published.
StoreCovered ==
    /\ StoreSeen \ {Torn} \subseteq PublishedIds
    /\ DurableIds \subseteq PublishedIds
    /\ \A i \in toRecord : log[i].id \in PublishedIds

\* A running process knows every id of the log, and no revision that waits
\* is made of one.
StoreKnown ==
    /\ (UseStore /\ Active) => DurableIds \subseteq StoreSeen
    /\ UseStore => \A r \in pending : IdsOf(r.src) \cap DurableIds = {}

\* The inductive invariant: where each step of publish, record and commit
\* leaves the log, the revisions and the id store, for any crash.
PipelineInv ==
    /\ TypeOK /\ Positions /\ PendingShape /\ DrainedShape /\ SourcesInLog
    /\ CommittedArePublished /\ CursorCovered /\ SeenCovered
    /\ StoreCovered /\ StoreKnown

\* The revisions a run has built, on disk or waiting to be written.
Built == revs \cup pending

\* A process that has not opened its run starts with nothing applied.
HistoryOpens == ~Active => nWritten = 0 /\ working = {} /\ seen = {}

\* Only the run at hand waits for anything, in the numbers not yet written.
HistoryNumbered ==
    /\ \A r \in Built : r.run <= run
    /\ \A r \in pending : r.run = run /\ nWritten <= r.n
    /\ \A r \in revs : \A n \in 0..r.n : \E q \in revs : q.run = r.run /\ q.n = n
    /\ Active =>
          /\ nWritten <= nBuilt
          /\ \A r \in revs : r.run = run => r.n < nWritten
          /\ \A n \in 0..(nWritten - 1) : \E q \in revs : q.run = run /\ q.n = n

\* What the run at hand has built is in its working copy and its ids are seen.
HistoryCurrent ==
    Active => \A r \in Built : r.run = run =>
        r.n < nBuilt /\ r.reflects \subseteq working /\ IdsOf(r.src) \subseteq seen

\* The revisions of one run differ in number, build on the earlier ones and
\* share no id.
HistoryOrdered ==
    /\ \A r \in Built : r.src \subseteq r.reflects /\ (r.n > 0 => r.src # {})
    /\ \A r, q \in Built : r.run = q.run =>
          /\ q.n < r.n => q.reflects \subseteq r.reflects
          /\ q.n = r.n => q = r
          /\ q # r => IdsOf(q.src) \cap IdsOf(r.src) = {}

\* With PipelineInv, the inductive invariant behind RevisionsSound.
HistoryInv == HistoryOpens /\ HistoryNumbered /\ HistoryCurrent /\ HistoryOrdered

\* The events this cycle has applied; their offsets are not committed yet.
Window == EventsIn(offset, cursor) \cap working

\* Ids wait to be recorded only between a publication and its record; the
\* baseline comes first and has no ids; a cycle starts at the offset, and what
\* a watch run has applied is committed before it polls again.
RecordShape ==
    /\ toRecord # {} => UseStore /\ (pc = "record" \/ (mode = "rolling" /\ pc \in {"write", "summary"}))
    /\ (Active => nBuilt >= 1) /\ (pc = "poll" => mode = "watch")
    /\ (pc \in {"apply", "write", "record", "compact"} \/ (mode = "rolling" /\ pc = "summary")) => offset <= cursor
    /\ \A r \in pending : r.n = 0 => r.src = {} /\ (mode = "watch" => working = {})
    /\ (UseStore /\ Active) => \A i \in working : i <= cursor
    /\ (UseStore /\ mode = "watch" /\ pc \in {"summary", "poll"}) => \A i \in working : i <= offset

\* No two applied events share an id.
AppliedDistinct ==
    /\ seen = IdsOf(working)
    /\ \A i, j \in working : i # j /\ log[i].id = log[j].id => log[i].id = NoId

\* No id is on two lines of s.
NoIdTwice(s) == \A j, k \in 1..Len(s) : j # k /\ s[j] = s[k] => s[j] = Torn

\* The id log and the ids in memory: they agree but for torn lines.
LinesAgree ==
    /\ NoIdTwice(dedupFile) /\ NoIdTwice(storeIds)
    /\ torn => Torn \in {dedupFile[k] : k \in 1..Len(dedupFile)}
    /\ pc = "compact" => ~torn
    /\ (UseStore /\ Active /\ CleanLog) => dedupFile = storeIds /\ ~torn

\* Behind the line of e there are only ids of the cycle at hand.
Recent(e) ==
    \E k \in 1..Len(storeIds) :
        storeIds[k] = e /\ \A l \in k..Len(storeIds) : storeIds[l] \in IdsOf(Window)

Waits(e) == e \in IdsOf(toRecord) \/ \E r \in pending : e \in IdsOf(r.src)

\* The ids of the cycle wait to be published or recorded, or are the newest of
\* the store: compaction keeps them as long as they are not too many.
WindowStored ==
    (UseStore /\ Active) =>
        /\ toRecord \subseteq Window
        /\ \A i \in toRecord : log[i].id \notin StoreSeen \cup {NoId}
        /\ \A r \in pending : r.src \subseteq Window /\ IdsOf(r.src) \cap StoreSeen = {}
        /\ (Cardinality(IdsOf(Window)) <= MaxIds) =>
              (\A e \in IdsOf(Window) : Waits(e) \/ Recent(e))

\* With PipelineInv, the inductive invariant behind DurableIdsSound.
LogInv == RecordShape /\ AppliedDistinct /\ LinesAgree /\ WindowStored

\* The ids of committed entries, and of those a crash could have redelivered
\* that were drained or, between two cycles, can be.
OldIds == IdsOf(1..offset)
Reach == IF position > offset THEN position ELSE Len(log)
OpenIds == IdsOf((offset + 1)..Reach)

\* From the line of an id that is not committed on, all lines of the log s are
\* of the backlog, given the ids of both.
Aged(s, old, open) ==
    \A k \in 1..Len(s) : s[k] \notin old \cup {Torn} =>
        \A l \in k..Len(s) : s[l] \in open \cup {Torn}

\* The line of e is dropped, but a torn line and other ids of the backlog are
\* left.
BehindTorn(s, e, open) ==
    \E k \in 1..Len(s) :
        s[k] = Torn /\ \A l \in k..Len(s) : s[l] \in (open \ {e}) \cup {Torn}

\* An id that suppresses an entry of the backlog waits for its line or has it.
Held(e) == Waits(e) \/ e \in StoreSeen \/ BehindTorn(storeIds, e, OpenIds)

\* With the others, the inductive invariant behind BacklogDurable: what has been
\* handed to the applicator is held until its entry is committed.
BacklogInv ==
    /\ UseStore => Aged(dedupFile, OldIds, OpenIds)
    /\ (UseStore /\ Active) =>
          /\ Aged(storeIds, OldIds, OpenIds)
          /\ (position > offset /\ Cardinality(OpenIds) <= MaxIds) =>
                \A e \in IdsOf((offset + 1)..cursor) \ OldIds : Held(e)

-----------------------------------------------------------------------------
(* Refinement *)

\* The entries a revision file accounts for.
Covered == {i \in 1..Len(log) : IsEvent(i) /\ CoveredBy(revs, i)}

Delivery == INSTANCE DeliveryContract
                WITH EventKind <- "event", published <- Covered, acked <- offset

\* Every behaviour of the pipeline is one of DeliveryContract (at-least-once
\* delivery from the broker to the revision files).
DeliveryRefined == Delivery!Spec

=============================================================================
