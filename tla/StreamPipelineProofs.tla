----------------------- MODULE StreamPipelineProofs -----------------------
(***************************************************************************)
(* Proofs about StreamPipeline for every source, mode, retention bound and *)
(* number of messages, crashes and runs: the inductive invariant           *)
(* PipelineInv, the safety properties it implies and the refinement of     *)
(* DeliveryContract.                                                       *)
(*                                                                         *)
(* The second half is about the revision files, a sound history of every   *)
(* run: numbered without gaps, each built on all earlier ones, no id       *)
(* twice.  HistoryInv is inductive relative to PipelineInv.  The id log,   *)
(* in turn, keeps the ids of the cycle at hand until its offsets are       *)
(* committed: LogInv is inductive relative to both; and those an earlier   *)
(* process recorded for the same backlog: BacklogInv.                      *)
(*                                                                         *)
(* The last part is about EventApply, what a batch does to the rows.       *)
(***************************************************************************)
EXTENDS StreamPipeline, EventApply, WellFoundedInduction, FiniteSetTheorems, TLAPS

-----------------------------------------------------------------------------
(* Facts about the data *)

\* A non-empty set of positions has a first one.
LEMMA FirstPosition ==
    ASSUME NEW T \in SUBSET Nat, T # {}
    PROVE  \E x \in T : \A y \in T : x <= y
<1> DEFINE R == {ss \in Nat \X Nat : ss[1] < ss[2]}
<1>1. IsWellFoundedOn(R, Nat)
  BY NatLessThanWellFounded, Zenon DEF OpToRel
<1>2. \E x \in T : \A y \in T : ~ (<<y, x>> \in R)
  <2> HIDE DEF R
  <2> QED BY <1>1, WFMin, Zenon
<1>3. PICK x \in T : \A y \in T : ~ (<<y, x>> \in R)
  BY <1>2
<1>4. ASSUME NEW y \in T PROVE x <= y
  <2>1. <<y, x>> \notin R
    BY <1>3
  <2> QED BY <2>1
<1> QED BY <1>4

\* The lines of an id log after one more id is appended.
LEMMA LinesAppend ==
    ASSUME NEW T, NEW s \in Seq(T), NEW e \in T
    PROVE  /\ Append(s, e) \in Seq(T)
           /\ {Append(s, e)[k] : k \in 1..Len(Append(s, e))}
                = {s[k] : k \in 1..Len(s)} \cup {e}
<1>1. Append(s, e) \in Seq(T) /\ Len(Append(s, e)) = Len(s) + 1
  OBVIOUS
<1>2. ASSUME NEW k \in 1..(Len(s) + 1)
      PROVE Append(s, e)[k] = IF k <= Len(s) THEN s[k] ELSE e
  OBVIOUS
<1>3. {Append(s, e)[k] : k \in 1..(Len(s) + 1)} = {s[k] : k \in 1..Len(s)} \cup {e}
  <2>1. ASSUME NEW k \in 1..(Len(s) + 1)
        PROVE Append(s, e)[k] \in {s[j] : j \in 1..Len(s)} \cup {e}
    BY <1>2
  <2>2. ASSUME NEW k \in 1..Len(s)
        PROVE s[k] \in {Append(s, e)[j] : j \in 1..(Len(s) + 1)}
    <3>1. k \in 1..(Len(s) + 1) /\ Append(s, e)[k] = s[k]
      BY <1>2
    <3> QED BY <3>1
  <2>3. e \in {Append(s, e)[j] : j \in 1..(Len(s) + 1)}
    <3>1. Len(s) + 1 \in 1..(Len(s) + 1) /\ Append(s, e)[Len(s) + 1] = e
      BY <1>2
    <3> QED BY <3>1
  <2> QED BY <2>1, <2>2, <2>3, Zenon
<1> QED BY <1>1, <1>3

\* Compaction keeps lines of the id log and adds none.
LEMMA LinesNewest ==
    ASSUME NEW T, NEW s \in Seq(T)
    PROVE  /\ Newest(s) \in Seq(T)
           /\ {Newest(s)[k] : k \in 1..Len(Newest(s))} \subseteq {s[k] : k \in 1..Len(s)}
<1>1. CASE Len(s) > MaxIds
  <2> DEFINE m == Len(s) - MaxIds + 1
  <2>1. m \in 1..Len(s) /\ Newest(s) = SubSeq(s, m, Len(s))
    BY <1>1, ConstantsAssumption DEF Newest
  <2>2. Newest(s) \in Seq(T) /\ Len(Newest(s)) = Len(s) - m + 1
    BY <2>1
  <2>3. ASSUME NEW k \in 1..Len(Newest(s))
        PROVE Newest(s)[k] \in {s[j] : j \in 1..Len(s)}
    <3>1. Newest(s)[k] = s[m + k - 1] /\ m + k - 1 \in 1..Len(s)
      BY <2>1, <2>2
    <3> QED BY <3>1
  <2> QED BY <2>2, <2>3
<1>2. CASE ~(Len(s) > MaxIds)
  BY <1>2 DEF Newest
<1> QED BY <1>1, <1>2

-----------------------------------------------------------------------------
(* Initial states and the steps that keep the published state *)

\* The pipeline starts with an empty log, no revision and no recorded id.
LEMMA InitPipelineInv == Init => PipelineInv
<1> SUFFICES ASSUME Init PROVE PipelineInv
  OBVIOUS
<1>1. TypeOK
  <2>1. log \in Seq(Messages) /\ offset \in 0..Len(log)
    BY DEF Init
  <2>2. dedupFile \in Seq(EventIds \cup {Torn}) /\ storeIds \in Seq(EventIds \cup {Torn})
    BY DEF Init
  <2>3. summary \in [Runs -> Nat] /\ run \in 0..MaxRuns
    BY ConstantsAssumption DEF Init
  <2> QED BY <2>1, <2>2, <2>3 DEF Init, TypeOK, PCs
<1>2. Positions /\ PendingShape /\ DrainedShape /\ SourcesInLog
  BY DEF Init, Positions, Active, PendingShape, DrainedShape, SourcesInLog
<1>3. CommittedArePublished /\ CursorCovered /\ SeenCovered
  BY DEF Init, CommittedArePublished, CursorCovered, EventsIn, SeenCovered
<1>4. StoreCovered /\ StoreKnown
  BY DEF Init, StoreCovered, StoreSeen, DurableIds, StoreKnown, Active
<1> QED BY <1>1, <1>2, <1>3, <1>4 DEF PipelineInv

\* The published ids are ids of the log.
LEMMA PublishedIdsType ==
    ASSUME PipelineInv
    PROVE  PublishedIds \subseteq EventIds
<1> SUFFICES ASSUME NEW r \in revs, NEW i \in r.src, log[i].id # NoId
             PROVE  log[i].id \in EventIds
  BY DEF PublishedIds, IdsOf
<1>1. i \in 1..Len(log) /\ log[i] \in Messages
  BY DEF PipelineInv, SourcesInLog, TypeOK
<1> QED BY <1>1 DEF Messages, Ids

\* The end of a process keeps the invariant when what is durable is sound.
LEMMA GoneKeeps ==
    ASSUME PipelineInv, ProcessGone,
           log' = log, revs' = revs, run' = run, summary' = summary,
           crashes' \in Nat, torn' \in BOOLEAN, offset' \in 0..Len(log),
           dedupFile' \in Seq(EventIds \cup {Torn}),
           DurableIds' \subseteq PublishedIds, CommittedArePublished'
    PROVE  PipelineInv'
<1>1. TypeOK'
  BY DEF PipelineInv, TypeOK, ProcessGone, PCs
<1>2. Positions' /\ PendingShape' /\ DrainedShape' /\ SourcesInLog'
  BY DEF PipelineInv, ProcessGone, Positions, Active, PendingShape,
         DrainedShape, SourcesInLog
<1>3. CursorCovered' /\ SeenCovered'
  <2>1. EventsIn(offset, cursor)' = {}
    BY DEF ProcessGone, EventsIn, PipelineInv, TypeOK
  <2> QED BY <2>1 DEF ProcessGone, CursorCovered, SeenCovered
<1>4. StoreCovered' /\ StoreKnown'
  <2>1. StoreSeen' = {} /\ toRecord' = {} /\ pending' = {} /\ pc' = "off"
    BY DEF ProcessGone, StoreSeen
  <2>2. PublishedIds' = PublishedIds
    BY DEF PublishedIds, IdsOf
  <2> QED BY <2>1, <2>2 DEF StoreCovered, StoreKnown, Active
<1> QED BY <1>1, <1>2, <1>3, <1>4 DEF PipelineInv

\* A step that leaves the log, the offset, the store, the revisions and the
\* session alone only has to keep the shape of the process.
LEMMA QuietKeeps ==
    ASSUME PipelineInv, TypeOK', Positions', PendingShape', DrainedShape',
           UNCHANGED <<log, offset, dedupFile, revs, cursor, seen, storeIds,
                       pending, toRecord>>,
           Active' => Active
    PROVE  PipelineInv'
<1>1. SourcesInLog' /\ CommittedArePublished' /\ CursorCovered' /\ SeenCovered'
  BY DEF PipelineInv, SourcesInLog, CommittedArePublished, CursorCovered,
         SeenCovered, EventsIn, IsEvent, CoveredBy, IdsOf
<1>2. StoreSeen' = StoreSeen /\ DurableIds' = DurableIds /\ PublishedIds' = PublishedIds
  BY DEF StoreSeen, DurableIds, PublishedIds, IdsOf
<1>3. StoreCovered' /\ StoreKnown'
  BY <1>2 DEF PipelineInv, StoreCovered, StoreKnown, IdsOf
<1> QED BY <1>1, <1>3 DEF PipelineInv

\* A producer's message changes nothing that is published or recorded.
LEMMA ProduceKeeps ==
    ASSUME PipelineInv, NEW m \in Messages, Produce(m)
    PROVE  PipelineInv'
<1>1. /\ log' \in Seq(Messages) /\ Len(log') = Len(log) + 1
      /\ \A i \in 1..Len(log) : log'[i] = log[i]
  BY DEF PipelineInv, TypeOK, Produce
<1>2. TypeOK'
  BY <1>1 DEF PipelineInv, TypeOK, Produce, durable, session, output
<1>3. Positions' /\ PendingShape'
  BY DEF PipelineInv, Positions, Active, PendingShape, Produce, session, output
<1>4. \A S \in SUBSET (1..Len(log)) : IdsOf(S)' = IdsOf(S)
  BY <1>1 DEF IdsOf
<1>5. \A a, b \in 0..Len(log) : EventsIn(a, b)' = EventsIn(a, b)
  BY <1>1 DEF EventsIn, IsEvent
<1>6. DrainedShape'
  BY <1>5 DEF PipelineInv, TypeOK, DrainedShape, Produce, session
<1>7. SourcesInLog' /\ \A r \in revs \cup pending : r.src \subseteq 1..Len(log)
  BY <1>1 DEF PipelineInv, SourcesInLog, Produce, output
<1>8. \A i \in 1..Len(log) : /\ CoveredBy(revs, i)' <=> CoveredBy(revs, i)
                             /\ CoveredBy(revs \cup pending, i)' <=> CoveredBy(revs \cup pending, i)
  <2>1. revs' = revs /\ pending' = pending
    BY DEF Produce, output
  <2> QED BY <1>1, <1>4, <1>7, <2>1 DEF CoveredBy
<1>9. CommittedArePublished' /\ CursorCovered'
  <2>1. offset' = offset /\ cursor' = cursor
    BY DEF Produce, session
  <2>2. CommittedArePublished'
    <3> SUFFICES ASSUME NEW i \in 1..offset, IsEvent(i)'
                 PROVE  CoveredBy(revs, i)'
      BY <2>1 DEF CommittedArePublished
    <3>1. i \in 1..Len(log) /\ IsEvent(i)
      BY SMTT(60), <1>1 DEF PipelineInv, TypeOK, IsEvent
    <3>2. CoveredBy(revs, i)
      BY <3>1 DEF PipelineInv, CommittedArePublished
    <3> QED BY <1>8, <3>1, <3>2
  <2>3. EventsIn(offset, cursor)' = EventsIn(offset, cursor)
    BY <1>5, <2>1 DEF PipelineInv, TypeOK
  <2>4. EventsIn(offset, cursor) \subseteq 1..Len(log)
    BY DEF PipelineInv, TypeOK, EventsIn
  <2> QED BY <2>2, <2>3, <2>4, <1>8 DEF PipelineInv, CursorCovered
<1>10. SeenCovered'
  BY <1>4, <1>7 DEF PipelineInv, SeenCovered, Produce, session, output
<1>11. PublishedIds' = PublishedIds /\ StoreSeen' = StoreSeen /\ DurableIds' = DurableIds
  BY <1>4, <1>7 DEF PublishedIds, StoreSeen, DurableIds, Produce
<1>12. StoreCovered' /\ StoreKnown'
  <2>1. \A i \in toRecord : log'[i] = log[i]
    BY <1>1 DEF PipelineInv, TypeOK
  <2> QED BY <1>4, <1>7, <1>11, <2>1 DEF PipelineInv, StoreCovered, StoreKnown, Active, Produce, output
<1> QED BY <1>2, <1>3, <1>6, <1>7, <1>9, <1>10, <1>12 DEF PipelineInv

-----------------------------------------------------------------------------
(* Crashes, the end of a process and its start *)

\* A crash between two steps leaves everything durable as it is.
LEMMA CrashKeeps ==
    ASSUME PipelineInv, Crash \/ DrainFails \/ StopWatch
    PROVE  PipelineInv'
<1>1. /\ ProcessGone /\ UNCHANGED durable /\ crashes' \in Nat
  BY DEF Crash, DrainFails, StopWatch, PipelineInv, TypeOK
<1>2. /\ log' = log /\ revs' = revs /\ run' = run /\ summary' = summary
      /\ torn' = torn /\ offset' = offset /\ dedupFile' = dedupFile
  BY <1>1 DEF durable
<1>3. DurableIds' = DurableIds /\ CommittedArePublished'
  BY <1>2 DEF DurableIds, CommittedArePublished, CoveredBy, IdsOf, IsEvent, PipelineInv
<1>4. DurableIds' \subseteq PublishedIds
  BY <1>3 DEF PipelineInv, StoreCovered
<1> QED BY <1>1, <1>2, <1>3, <1>4, GoneKeeps DEF PipelineInv, TypeOK

\* A torn append adds a line that is no id.
LEMMA CrashTornKeeps ==
    ASSUME PipelineInv, CrashTorn
    PROVE  PipelineInv'
<1>1. /\ ProcessGone /\ crashes' \in Nat /\ torn' \in BOOLEAN
      /\ log' = log /\ revs' = revs /\ run' = run /\ summary' = summary
      /\ offset' = offset
  BY DEF CrashTorn, PipelineInv, TypeOK
<1>2. dedupFile' \in Seq(EventIds \cup {Torn}) /\ DurableIds' = DurableIds
  <2>1. dedupFile \in Seq(EventIds \cup {Torn})
    BY DEF PipelineInv, TypeOK
  <2>2. CASE torn
    BY <2>1, <2>2 DEF CrashTorn, DurableIds
  <2>3. CASE ~torn
    <3>1. dedupFile' = Append(dedupFile, Torn)
      BY <2>3 DEF CrashTorn
    <3>2. dedupFile' \in Seq(EventIds \cup {Torn})
      BY <2>1, <3>1
    <3>3. {dedupFile'[k] : k \in 1..Len(dedupFile')}
            = {dedupFile[k] : k \in 1..Len(dedupFile)} \cup {Torn}
      BY <2>1, <3>1, LinesAppend
    <3> QED BY <3>2, <3>3 DEF DurableIds
  <2> QED BY <2>2, <2>3
<1>3. CommittedArePublished'
  BY <1>1 DEF CommittedArePublished, CoveredBy, IdsOf, IsEvent, PipelineInv
<1>4. DurableIds' \subseteq PublishedIds
  BY <1>2 DEF PipelineInv, StoreCovered
<1> QED BY <1>1, <1>2, <1>3, <1>4, GoneKeeps DEF PipelineInv, TypeOK

\* A process that opens its run loads the id log as its store and starts
\* with a baseline revision made of no event.
LEMMA BeginKeeps ==
    ASSUME PipelineInv, pc \in {"off", "drain"}, run < MaxRuns,
           run' = run + 1, storeIds' = LoadedStore, cursor' = offset,
           position' \in offset..Len(log), pending' = {Baseline(run + 1)},
           nBuilt' = 1, pc' \in {"write", "apply"}, mode' \in {"watch", "rolling"},
           mode' = "watch" => pc' = "write", mode' = "rolling" => pc' = "apply",
           UNCHANGED <<log, offset, dedupFile, torn, revs, summary, seen,
                       working, nWritten, toRecord, cycle, crashes>>
    PROVE  PipelineInv'
<1>1. pending = {}
  BY DEF PipelineInv, PendingShape
<1>2. LoadedStore \in Seq(EventIds \cup {Torn})
  BY DEF PipelineInv, TypeOK, LoadedStore
<1>3. Baseline(run + 1) \in Revisions /\ run + 1 \in Runs
  BY ConstantsAssumption DEF PipelineInv, TypeOK, Baseline, Revisions, Runs
<1>4. TypeOK'
  <2>1. /\ position' \in 0..Len(log) /\ cursor' \in 0..Len(log)
        /\ run' \in 0..MaxRuns
    BY <1>3, ConstantsAssumption DEF PipelineInv, TypeOK, Runs
  <2> QED BY <1>2, <1>3, <2>1 DEF PipelineInv, TypeOK, PCs
<1>5. Positions' /\ PendingShape' /\ DrainedShape'
  BY <1>3, ConstantsAssumption
  DEF PipelineInv, TypeOK, Positions, Active, PendingShape, DrainedShape
<1>6. SourcesInLog'
  BY <1>1 DEF PipelineInv, SourcesInLog, Baseline
<1>7. CommittedArePublished' /\ SeenCovered'
  BY <1>1 DEF PipelineInv, CommittedArePublished, SeenCovered, CoveredBy, IdsOf, IsEvent
<1>8. CursorCovered'
  <2>1. EventsIn(offset, cursor)' = {}
    BY DEF EventsIn, PipelineInv, TypeOK
  <2> QED BY <2>1 DEF CursorCovered
<1>9. /\ PublishedIds' = PublishedIds /\ DurableIds' = DurableIds
      /\ StoreSeen' \ {Torn} \subseteq DurableIds
      /\ UseStore => DurableIds \subseteq StoreSeen'
  BY DEF PublishedIds, DurableIds, IdsOf, StoreSeen, LoadedStore
<1>10. StoreCovered' /\ StoreKnown'
  BY <1>9 DEF PipelineInv, StoreCovered, StoreKnown, Baseline, IdsOf
<1> QED BY <1>4, <1>5, <1>6, <1>7, <1>8, <1>10 DEF PipelineInv

LEMMA StartKeeps ==
    ASSUME PipelineInv, StartWatch \/ StartRolling \/ DrainRolling
    PROVE  PipelineInv'
<1>0. offset \in Nat /\ Len(log) \in Nat /\ offset <= Len(log)
  BY DEF PipelineInv, TypeOK
<1>1. CASE StartWatch
  BY <1>0, <1>1, BeginKeeps DEF StartWatch
<1>2. CASE StartRolling
  <2>1. TypeOK'
    BY <1>2 DEF StartRolling, PipelineInv, TypeOK, PCs, durable, session, output
  <2>2. Positions' /\ PendingShape' /\ DrainedShape'
    BY <1>2 DEF StartRolling, PipelineInv, Positions, PendingShape, DrainedShape,
                Active, durable, session, output
  <2> QED BY <1>2, <2>1, <2>2, QuietKeeps
      DEF StartRolling, Active, durable, session, output
<1>3. CASE DrainRolling
  <2>1. run < MaxRuns /\ mode = "rolling"
    BY <1>3 DEF DrainRolling, PipelineInv, Positions
  <2> QED BY <1>0, <1>3, <2>1, BeginKeeps DEF DrainRolling
<1> QED BY <1>1, <1>2, <1>3

-----------------------------------------------------------------------------
(* Draining and applying *)

\* A watch cycle starts over behind the committed offset.
LEMMA DrainWatchKeeps ==
    ASSUME PipelineInv, DrainWatch
    PROVE  PipelineInv'
<1>1. /\ UNCHANGED <<log, offset, dedupFile, torn, revs, summary, run, seen, working>>
      /\ UNCHANGED <<pending, nBuilt, nWritten, storeIds, toRecord, crashes, mode>>
  BY DEF DrainWatch, durable, output
<1>2. /\ offset \in 0..Len(log) /\ Len(log) \in Nat
      /\ cursor' = offset /\ position' \in offset..Len(log)
      /\ pc = "poll" /\ pc' \in {"poll", "apply"} /\ cycle' \in Nat
  BY DEF DrainWatch, PipelineInv, TypeOK
<1>3. TypeOK'
  BY SMTT(60), <1>1, <1>2 DEF PipelineInv, TypeOK, PCs
<1>4. Positions' /\ PendingShape' /\ DrainedShape' /\ SourcesInLog'
  BY <1>1, <1>2 DEF PipelineInv, Positions, Active, PendingShape, DrainedShape, SourcesInLog
<1>5. CursorCovered'
  <2>1. EventsIn(offset, cursor)' = {}
    BY <1>1, <1>2 DEF EventsIn
  <2> QED BY <2>1 DEF CursorCovered
<1>6. CommittedArePublished' /\ SeenCovered'
  BY <1>1 DEF PipelineInv, CommittedArePublished, SeenCovered, CoveredBy, IdsOf, IsEvent
<1>7. StoreSeen' = StoreSeen /\ DurableIds' = DurableIds /\ PublishedIds' = PublishedIds
  BY <1>1 DEF StoreSeen, DurableIds, PublishedIds, IdsOf
<1>8. StoreCovered' /\ StoreKnown'
  BY <1>1, <1>2, <1>7 DEF PipelineInv, StoreCovered, StoreKnown, IdsOf, Active
<1> QED BY <1>3, <1>4, <1>5, <1>6, <1>8 DEF PipelineInv

LEMMA FinishDrainKeeps ==
    ASSUME PipelineInv, FinishDrain
    PROVE  PipelineInv'
<1>1. UNCHANGED <<log, offset, dedupFile, torn, revs, summary, run, position,
                  cursor, seen, working, pending, nBuilt, nWritten, storeIds,
                  toRecord, cycle, crashes, mode>>
  BY DEF FinishDrain, durable, session, output
<1>2. pc = "apply" /\ pc' = IF mode = "watch" THEN "commit" ELSE "write"
  BY DEF FinishDrain
<1>3. TypeOK'
  BY <1>1, <1>2 DEF PipelineInv, TypeOK, PCs
<1>4. Positions' /\ PendingShape'
  BY <1>1, <1>2, ConstantsAssumption DEF PipelineInv, TypeOK, Positions, PendingShape, Active
<1>5. DrainedShape'
  <2>1. EventsIn(cursor, position)' = EventsIn(cursor, position)
    BY <1>1 DEF EventsIn, IsEvent
  <2> QED BY <2>1 DEF FinishDrain, DrainedShape
<1> QED BY <1>1, <1>2, <1>3, <1>4, <1>5, QuietKeeps DEF Active

\* Every event of a batch is applied or carries an id that an earlier event
\* of the batch, this run or the store accounts for.
LEMMA BatchAccounted ==
    ASSUME NEW batch \in SUBSET Nat, NEW i \in batch
    PROVE  \/ i \in Applied(batch)
           \/ log[i].id \in seen \cup StoreSeen
           \/ \E j \in Applied(batch) : log[j].id = log[i].id
<1> SUFFICES ASSUME log[i].id \notin seen \cup StoreSeen, log[i].id # NoId
             PROVE  \E j \in Applied(batch) : log[j].id = log[i].id
  BY DEF Applied
<1> DEFINE Same == {j \in batch : log[j].id = log[i].id}
<1>1. PICK j \in Same : \A k \in Same : j <= k
  BY FirstPosition
<1>2. \A k \in batch : k < j => log[k].id # log[j].id
  BY <1>1
<1> QED BY <1>1, <1>2 DEF Applied

\* Applying a batch: what it applies becomes a waiting revision, what it
\* skips is published or waits already.
LEMMA ApplyBatchKeeps ==
    ASSUME PipelineInv, NEW b \in 1..Len(log), ApplyBatch(b)
    PROVE  PipelineInv'
<1> DEFINE batch == EventsIn(cursor, b)
           applied == Applied(batch)
           rev == [run |-> run, n |-> nBuilt, src |-> applied,
                   reflects |-> WorkingAfter(applied)]
<1>1. /\ UNCHANGED <<log, offset, dedupFile, torn, revs, summary, run, position>>
      /\ UNCHANGED <<nWritten, storeIds, toRecord, cycle, crashes, mode>>
      /\ pc = "apply" /\ b \in EventsIn(cursor, position) /\ cursor' = b
      /\ seen' = seen \cup IdsOf(applied)
      /\ working' = WorkingAfter(applied)
  BY DEF ApplyBatch, durable
<1>2. /\ applied = {} => pending' = pending /\ nBuilt' = nBuilt /\ pc' = pc
      /\ applied # {} => /\ pending' = pending \cup {rev} /\ nBuilt' = nBuilt + 1
                         /\ pc' = IF mode = "watch" THEN "write" ELSE "apply"
  BY DEF ApplyBatch
<1>3. /\ offset \in Nat /\ cursor \in Nat /\ position \in Nat /\ Len(log) \in Nat
      /\ offset <= position /\ cursor < b /\ b <= position /\ position <= Len(log)
      /\ run \in Runs
  BY <1>1 DEF PipelineInv, TypeOK, Positions, Active, EventsIn
<1>4. batch \subseteq 1..Len(log) /\ applied \subseteq batch
  BY <1>3 DEF EventsIn, Applied
<1>5. IdsOf(applied) \subseteq EventIds
  <2>1. \A i \in applied : log[i] \in Messages
    BY <1>4 DEF PipelineInv, TypeOK
  <2> QED BY <2>1 DEF IdsOf, Messages, Ids
<1>6. WorkingAfter(applied) \subseteq 1..Len(log)
  BY <1>4 DEF WorkingAfter, PipelineInv, TypeOK
<1>7. rev \in Revisions
  BY <1>3, <1>4, <1>6 DEF Revisions, PipelineInv, TypeOK
<1> HIDE DEF batch, applied, rev
<1>8. TypeOK'
  <2>1. pending' \subseteq Revisions /\ nBuilt' \in Nat /\ pc' \in PCs
    BY <1>1, <1>2, <1>7 DEF PipelineInv, TypeOK, PCs
  <2>2. seen' \subseteq EventIds /\ working' \subseteq 1..Len(log) /\ cursor' \in 0..Len(log)
    BY <1>1, <1>3, <1>5, <1>6 DEF PipelineInv, TypeOK
  <2> QED BY <1>1, <2>1, <2>2 DEF PipelineInv, TypeOK
<1>9. Positions'
  BY <1>1, <1>2, <1>3 DEF Positions, Active, PipelineInv
<1>10. PendingShape'
  BY <1>1, <1>2 DEF PipelineInv, PendingShape
<1>11. DrainedShape'
  BY <1>1, <1>2 DEF PipelineInv, TypeOK, DrainedShape
<1>12. rev.src = applied
  BY DEF rev
<1>13. SourcesInLog'
  BY <1>1, <1>2, <1>4, <1>12 DEF PipelineInv, SourcesInLog
<1>14. CommittedArePublished'
  BY <1>1 DEF PipelineInv, CommittedArePublished, CoveredBy, IdsOf, IsEvent
<1>15. pending \subseteq pending' /\ (applied # {} => rev \in pending')
  BY <1>2
<1>16. SeenCovered'
  <2>1. ASSUME NEW e \in seen' PROVE \E r \in (revs \cup pending)' : e \in IdsOf(r.src)'
    <3>1. \A S : IdsOf(S)' = IdsOf(S)
      BY <1>1 DEF IdsOf
    <3>2. CASE e \in seen
      BY <1>1, <1>15, <3>1, <3>2 DEF PipelineInv, SeenCovered
    <3>3. CASE e \in IdsOf(applied)
      <4>1. applied # {}
        BY <3>3 DEF IdsOf
      <4> QED BY <1>12, <1>15, <3>1, <3>3, <4>1
    <3> QED BY <1>1, <3>2, <3>3
  <2> QED BY <2>1 DEF SeenCovered
<1>17. CursorCovered'
  <2>0. \A S : IdsOf(S)' = IdsOf(S)
    BY <1>1 DEF IdsOf
  <2>1. SUFFICES ASSUME NEW i \in EventsIn(offset, cursor)'
                 PROVE  \E r \in revs \cup pending' : i \in r.src \/ log[i].id \in IdsOf(r.src)
    BY <1>1, <2>0 DEF CursorCovered, CoveredBy
  <2>2. i \in EventsIn(offset, cursor) \/ i \in batch
    BY <1>1, <1>3, <2>1 DEF EventsIn, IsEvent, batch
  <2>3. CASE i \in EventsIn(offset, cursor)
    BY <1>15, <2>3 DEF PipelineInv, CursorCovered, CoveredBy
  <2>4. CASE i \in batch
    <3>0. log[i] \in Messages /\ IsEvent(i)
      BY <1>4, <2>4 DEF PipelineInv, TypeOK, batch, EventsIn
    <3>1. \/ i \in applied \/ log[i].id \in seen \cup StoreSeen
          \/ \E j \in applied : log[j].id = log[i].id
      BY <1>4, <2>4, BatchAccounted DEF applied
    <3>2. CASE i \in applied
      BY <1>12, <1>15, <3>2
    <3>3. CASE log[i].id \in seen
      BY <1>15, <3>3 DEF PipelineInv, SeenCovered
    <3>4. CASE log[i].id \in StoreSeen
      <4>1. log[i].id # Torn
        BY <3>0, ConstantsAssumption DEF Messages, Ids
      <4>2. log[i].id \in PublishedIds
        BY <3>4, <4>1 DEF PipelineInv, StoreCovered
      <4> QED BY <4>2 DEF PublishedIds
    <3>5. CASE (\E j \in applied : log[j].id = log[i].id) /\ log[i].id # NoId
      <4>1. log[i].id \in IdsOf(applied) /\ applied # {}
        BY <3>5 DEF IdsOf
      <4> QED BY <1>12, <1>15, <4>1
    <3>6. log[i].id = NoId => i \in applied
      BY <2>4 DEF applied, Applied
    <3> QED BY <3>1, <3>2, <3>3, <3>4, <3>5, <3>6
  <2> QED BY <2>2, <2>3, <2>4
<1>18. StoreSeen' = StoreSeen /\ DurableIds' = DurableIds /\ PublishedIds' = PublishedIds
  BY <1>1 DEF StoreSeen, DurableIds, PublishedIds, IdsOf
<1>19. StoreCovered'
  BY <1>1, <1>18 DEF PipelineInv, StoreCovered
<1>20. StoreKnown'
  <2>1. ASSUME UseStore PROVE IdsOf(applied) \cap DurableIds = {}
    <3>1. DurableIds \subseteq StoreSeen
      BY <1>1, <2>1 DEF PipelineInv, StoreKnown, Active
    <3>2. \A i \in applied : log[i].id = NoId \/ log[i].id \notin StoreSeen
      BY DEF applied, Applied
    <3> QED BY <3>1, <3>2 DEF IdsOf
  <2>2. \A S : IdsOf(S)' = IdsOf(S)
    BY <1>1 DEF IdsOf
  <2>3. UseStore => \A r \in pending' : IdsOf(r.src)' \cap DurableIds' = {}
    BY <1>2, <1>12, <1>18, <2>1, <2>2 DEF PipelineInv, StoreKnown
  <2>4. (UseStore /\ Active') => DurableIds' \subseteq StoreSeen'
    BY <1>1, <1>18 DEF PipelineInv, StoreKnown, Active
  <2> QED BY <2>3, <2>4 DEF StoreKnown, UseStore
<1> QED BY <1>8, <1>9, <1>10, <1>11, <1>13, <1>14, <1>16, <1>17, <1>19, <1>20 DEF PipelineInv

-----------------------------------------------------------------------------
(* Publishing, recording and committing *)

\* Writing a revision moves it from the waiting ones to the published ones.
LEMMA WriteRevisionKeeps ==
    ASSUME PipelineInv, NEW r \in pending, WriteRevision(r)
    PROVE  PipelineInv'
<1>1. /\ UNCHANGED <<log, offset, dedupFile, torn, summary, run>>
      /\ UNCHANGED <<position, cursor, seen, working, nBuilt, storeIds, cycle, crashes, mode>>
      /\ pc = "write" /\ revs' = revs \cup {r} /\ pending' = pending \ {r}
      /\ nWritten' = nWritten + 1
      /\ toRecord' = IF UseStore THEN NewIds(toRecord \cup r.src) ELSE {}
      /\ pc' \in {"summary", "write", "record", "apply"}
  BY DEF WriteRevision, session
<1>2. /\ mode = "rolling" => pc' = IF pending' = {} THEN "summary" ELSE "write"
      /\ mode = "watch" => pc' \in {"summary", "record", "apply"}
  BY DEF WriteRevision
<1>3. mode = "watch" => pending' = {}
  BY <1>1 DEF PipelineInv, PendingShape
<1>4. (revs \cup pending)' = revs \cup pending
  BY <1>1
<1>5. \A S : IdsOf(S)' = IdsOf(S)
  BY <1>1 DEF IdsOf
<1>6. toRecord' \subseteq toRecord \cup r.src /\ r.src \subseteq 1..Len(log)
  BY <1>1 DEF NewIds, PipelineInv, SourcesInLog
<1>7. TypeOK'
  <2>1. revs' \subseteq Revisions /\ pending' \subseteq Revisions
    BY <1>1 DEF PipelineInv, TypeOK
  <2>2. toRecord' \subseteq 1..Len(log)
    BY <1>6 DEF PipelineInv, TypeOK
  <2>3. nWritten' \in Nat /\ pc' \in PCs
    BY <1>1 DEF PipelineInv, TypeOK, PCs
  <2> QED BY <1>1, <2>1, <2>2, <2>3 DEF PipelineInv, TypeOK
<1>8. Positions' /\ PendingShape'
  BY <1>1, <1>2, <1>3, ConstantsAssumption DEF PipelineInv, TypeOK, Positions, PendingShape, Active
<1>9. DrainedShape'
  <2>1. EventsIn(cursor, position)' = EventsIn(cursor, position)
    BY <1>1 DEF EventsIn, IsEvent
  <2> QED BY <1>1, <1>2, <2>1 DEF PipelineInv, TypeOK, DrainedShape
<1>10. SourcesInLog' /\ CommittedArePublished' /\ CursorCovered' /\ SeenCovered'
  BY <1>1, <1>4, <1>5 DEF PipelineInv, SourcesInLog, CommittedArePublished, CursorCovered,
     SeenCovered, EventsIn, CoveredBy, IsEvent
<1>11. PublishedIds' = PublishedIds \cup IdsOf(r.src)
  BY <1>1, <1>5 DEF PublishedIds
<1>12. StoreSeen' = StoreSeen /\ DurableIds' = DurableIds
  BY <1>1 DEF StoreSeen, DurableIds
<1>13. StoreCovered'
  <2>1. ASSUME NEW i \in toRecord' PROVE log[i].id \in PublishedIds'
    <3>1. log[i].id # NoId
      BY <1>1, <2>1 DEF NewIds
    <3> QED BY <1>6, <1>11, <2>1, <3>1 DEF PipelineInv, StoreCovered, IdsOf
  <2> QED BY <1>1, <1>11, <1>12, <2>1 DEF PipelineInv, StoreCovered
<1>14. StoreKnown'
  BY <1>1, <1>5, <1>12 DEF PipelineInv, StoreKnown, Active, UseStore
<1> QED BY <1>7, <1>8, <1>9, <1>10, <1>13, <1>14 DEF PipelineInv

LEMMA WriteSummaryKeeps ==
    ASSUME PipelineInv, WriteSummary
    PROVE  PipelineInv'
<1>1. UNCHANGED <<log, offset, dedupFile, torn, revs, run, position,
                  cursor, seen, working, pending, nBuilt, nWritten, storeIds,
                  toRecord, cycle, crashes, mode>>
  BY DEF WriteSummary, session, output
<1>2. /\ pc = "summary" /\ pc' \in {"poll", "record", "commit"}
      /\ mode = "watch" => pc' = "poll"
  BY DEF WriteSummary
<1>3. TypeOK'
  BY <1>1, <1>2 DEF WriteSummary, PipelineInv, TypeOK, PCs
<1>4. Positions' /\ PendingShape'
  BY <1>1, <1>2 DEF PipelineInv, Positions, PendingShape, Active
<1>5. DrainedShape'
  <2>1. EventsIn(cursor, position)' = EventsIn(cursor, position)
    BY <1>1 DEF EventsIn, IsEvent
  <2> QED BY <1>2, <1>1, <2>1 DEF PipelineInv, TypeOK, DrainedShape
<1> QED BY <1>1, <1>2, <1>3, <1>4, <1>5, QuietKeeps DEF Active

\* One recorded id is the id of a published event; the log and the store
\* take it together, unless a torn line swallows it.
LEMMA RecordIdKeeps ==
    ASSUME PipelineInv, NEW i \in toRecord, RecordId(i)
    PROVE  PipelineInv'
<1> DEFINE e == log[i].id
<1>1. /\ UNCHANGED <<log, offset, revs, summary, run, position, cursor, seen>>
      /\ UNCHANGED <<working, pending, nBuilt, nWritten, cycle, crashes, mode>>
      /\ pc = "record" /\ storeIds' = Append(storeIds, e)
      /\ dedupFile' = IF torn THEN dedupFile ELSE Append(dedupFile, e)
      /\ torn' = FALSE /\ toRecord' = toRecord \ {i}
      /\ pc' \in {"compact", "record"}
  BY DEF RecordId, session, output
<1>2. e \in PublishedIds /\ e \in EventIds
  BY PublishedIdsType DEF PipelineInv, StoreCovered
<1>3. pending = {}
  BY <1>1 DEF PipelineInv, PendingShape
<1> HIDE DEF e
<1>4. storeIds' \in Seq(EventIds \cup {Torn}) /\ StoreSeen' = StoreSeen \cup {e}
  <2>1. storeIds \in Seq(EventIds \cup {Torn}) /\ e \in EventIds \cup {Torn}
    BY <1>2 DEF PipelineInv, TypeOK
  <2>2. /\ Append(storeIds, e) \in Seq(EventIds \cup {Torn})
        /\ {Append(storeIds, e)[k] : k \in 1..Len(Append(storeIds, e))}
             = {storeIds[k] : k \in 1..Len(storeIds)} \cup {e}
    BY <2>1, LinesAppend
  <2> QED BY <1>1, <2>2, Zenon DEF StoreSeen
<1>5. /\ dedupFile' \in Seq(EventIds \cup {Torn})
      /\ DurableIds' \subseteq DurableIds \cup {e}
  <2>1. dedupFile \in Seq(EventIds \cup {Torn}) /\ e \in EventIds \cup {Torn}
    BY <1>2 DEF PipelineInv, TypeOK
  <2>2. /\ Append(dedupFile, e) \in Seq(EventIds \cup {Torn})
        /\ {Append(dedupFile, e)[k] : k \in 1..Len(Append(dedupFile, e))}
             = {dedupFile[k] : k \in 1..Len(dedupFile)} \cup {e}
    BY <2>1, LinesAppend
  <2>3. CASE torn
    BY <1>1, <2>1, <2>3 DEF DurableIds
  <2>4. CASE ~torn
    <3>1. dedupFile' = Append(dedupFile, e)
      BY <1>1, <2>4
    <3>2. {dedupFile'[k] : k \in 1..Len(dedupFile')}
             = {dedupFile[k] : k \in 1..Len(dedupFile)} \cup {e}
      BY <2>2, <3>1, Zenon
    <3> QED BY <2>2, <3>1, <3>2 DEF DurableIds
  <2> QED BY <2>3, <2>4
<1>6. TypeOK'
  BY <1>1, <1>4, <1>5 DEF PipelineInv, TypeOK, PCs
<1>7. Positions' /\ PendingShape' /\ DrainedShape' /\ SourcesInLog'
  BY <1>1, <1>3 DEF PipelineInv, Positions, PendingShape, DrainedShape, SourcesInLog,
     Active, EventsIn, IsEvent
<1>8. CommittedArePublished' /\ CursorCovered' /\ SeenCovered'
  BY <1>1 DEF PipelineInv, CommittedArePublished, CursorCovered, SeenCovered,
     EventsIn, IsEvent, CoveredBy, IdsOf
<1>9. PublishedIds' = PublishedIds
  BY <1>1 DEF PublishedIds, IdsOf
<1>10. StoreCovered'
  BY <1>1, <1>2, <1>4, <1>5, <1>9 DEF PipelineInv, StoreCovered
<1>11. StoreKnown'
  BY <1>1, <1>3, <1>4, <1>5 DEF PipelineInv, StoreKnown, Active
<1> QED BY <1>6, <1>7, <1>8, <1>10, <1>11 DEF PipelineInv

\* Compaction forgets ids, in the log and in the store alike.
LEMMA CompactKeeps ==
    ASSUME PipelineInv, Compact
    PROVE  PipelineInv'
<1>1. /\ UNCHANGED <<log, offset, torn, revs, summary, run, position, cursor, seen>>
      /\ UNCHANGED <<working, pending, nBuilt, nWritten, toRecord, cycle, crashes, mode>>
      /\ pc = "compact" /\ storeIds' = Newest(storeIds)
      /\ dedupFile' = IF Len(storeIds) > MaxIds THEN Newest(storeIds) ELSE dedupFile
      /\ pc' = IF mode = "watch" THEN "apply" ELSE "commit"
  BY DEF Compact, session, output
<1>2. pending = {}
  BY <1>1 DEF PipelineInv, PendingShape
<1>3. storeIds' \in Seq(EventIds \cup {Torn}) /\ StoreSeen' \subseteq StoreSeen
  BY ZenonT(60), <1>1, LinesNewest DEF PipelineInv, TypeOK, StoreSeen
<1>4. /\ dedupFile' \in Seq(EventIds \cup {Torn})
      /\ DurableIds' \subseteq PublishedIds
      /\ UseStore => DurableIds' \subseteq StoreSeen'
  <2>1. CASE Len(storeIds) > MaxIds
    <3>1. dedupFile' = storeIds'
      BY <1>1, <2>1
    <3>2. /\ dedupFile' \in Seq(EventIds \cup {Torn})
          /\ DurableIds' = StoreSeen' \ {Torn}
      BY <1>3, <3>1 DEF DurableIds, StoreSeen
    <3>3. DurableIds' \subseteq PublishedIds
      BY <1>3, <3>2 DEF PipelineInv, StoreCovered
    <3> QED BY <3>2, <3>3
  <2>2. CASE ~(Len(storeIds) > MaxIds)
    <3>1. dedupFile' = dedupFile /\ storeIds' = storeIds
      BY <1>1, <2>2 DEF Newest
    <3>2. DurableIds' = DurableIds /\ StoreSeen' = StoreSeen
      BY <3>1 DEF DurableIds, StoreSeen
    <3> QED BY <1>1, <3>1, <3>2 DEF PipelineInv, TypeOK, StoreCovered, StoreKnown, Active
  <2> QED BY <2>1, <2>2
<1>7. TypeOK'
  BY <1>1, <1>3, <1>4 DEF PipelineInv, TypeOK, PCs
<1>8. Positions' /\ PendingShape' /\ DrainedShape' /\ SourcesInLog'
  BY <1>1, <1>2
  DEF PipelineInv, TypeOK, Positions, PendingShape, DrainedShape, SourcesInLog,
      Active, EventsIn, IsEvent
<1>9. CommittedArePublished' /\ CursorCovered' /\ SeenCovered'
  BY <1>1 DEF PipelineInv, CommittedArePublished, CursorCovered, SeenCovered,
     EventsIn, IsEvent, CoveredBy, IdsOf
<1>10. PublishedIds' = PublishedIds
  BY <1>1 DEF PublishedIds, IdsOf
<1>11. StoreCovered'
  BY <1>1, <1>3, <1>4, <1>10 DEF PipelineInv, StoreCovered
<1>12. StoreKnown'
  BY <1>1, <1>2, <1>4 DEF StoreKnown
<1> QED BY <1>7, <1>8, <1>9, <1>11, <1>12 DEF PipelineInv

\* Committing the drained position passes only published events.
LEMMA CommitCovered ==
    ASSUME PipelineInv, pc = "commit"
    PROVE  /\ CommitTo \in offset..Len(log)
           /\ \A i \in 1..CommitTo : IsEvent(i) => CoveredBy(revs, i)
<1>1. /\ offset \in Nat /\ cursor \in Nat /\ position \in Nat /\ Len(log) \in Nat
      /\ offset <= position /\ position <= Len(log)
      /\ CommitTo \in {offset, position}
  BY DEF PipelineInv, TypeOK, Positions, Active, CommitTo
<1>2. pending = {} /\ EventsIn(cursor, position) = {}
  BY DEF PipelineInv, PendingShape, DrainedShape
<1>3. ASSUME NEW i \in 1..CommitTo, IsEvent(i)
      PROVE  CoveredBy(revs, i)
  <2>1. CASE i <= offset
    BY <1>1, <1>3, <2>1 DEF PipelineInv, CommittedArePublished
  <2>2. CASE offset < i /\ i <= cursor
    <3>1. i \in EventsIn(offset, cursor)
      BY <1>1, <1>3, <2>2 DEF EventsIn
    <3>2. CoveredBy(revs \cup pending, i)
      BY <3>1 DEF PipelineInv, CursorCovered
    <3> QED BY <1>2, <3>2 DEF CoveredBy
  <2>3. CASE cursor < i
    <3>1. i <= position => i \in EventsIn(cursor, position)
      BY <1>1, <1>3, <2>3 DEF EventsIn
    <3> QED BY <1>1, <1>2, <2>1, <3>1
  <2> QED BY <1>1, <2>1, <2>2, <2>3
<1> QED BY <1>1, <1>3

LEMMA CommitKeeps ==
    ASSUME PipelineInv, CommitWatch \/ CommitRolling
    PROVE  PipelineInv'
<1>1. /\ pc = "commit" /\ offset' = CommitTo
      /\ UNCHANGED <<log, dedupFile, torn, revs, summary, run, crashes>>
  BY DEF CommitWatch, CommitRolling
<1>2. offset' \in 0..Len(log) /\ offset <= offset' /\ offset' \in {offset, position}
  BY <1>1, CommitCovered DEF PipelineInv, TypeOK, CommitTo
<1>3. CommittedArePublished'
  BY <1>1, CommitCovered DEF CommittedArePublished, CoveredBy, IdsOf, IsEvent
<1>4. DurableIds' = DurableIds /\ PublishedIds' = PublishedIds
  BY <1>1 DEF DurableIds, PublishedIds, IdsOf
<1>5. CASE CommitRolling
  <2>1. ProcessGone
    BY <1>5 DEF CommitRolling
  <2>2. DurableIds' \subseteq PublishedIds
    BY <1>4 DEF PipelineInv, StoreCovered
  <2> QED BY <1>1, <1>2, <1>3, <2>1, <2>2, GoneKeeps DEF PipelineInv, TypeOK
<1>6. CASE CommitWatch
  <2>1. /\ UNCHANGED <<position, cursor, seen, working, pending, nBuilt, nWritten>>
        /\ UNCHANGED <<storeIds, toRecord, cycle, mode>>
        /\ pc' \in {"summary", "poll"} /\ mode = "watch"
    BY <1>6 DEF CommitWatch, session, output
  <2>2. TypeOK'
    BY <1>1, <1>2, <2>1 DEF PipelineInv, TypeOK, PCs
  <2>3. Positions' /\ PendingShape' /\ DrainedShape' /\ SourcesInLog'
    BY <1>1, <1>2, <2>1 DEF PipelineInv, TypeOK, Positions, PendingShape, DrainedShape,
       SourcesInLog, Active
  <2>4. CursorCovered'
    <3>1. EventsIn(offset, cursor)' \subseteq EventsIn(offset, cursor)
      BY <1>1, <1>2, <2>1 DEF EventsIn, IsEvent, PipelineInv, TypeOK
    <3> QED BY <1>1, <2>1, <3>1 DEF PipelineInv, CursorCovered, CoveredBy, IdsOf
  <2>5. SeenCovered'
    BY <1>1, <2>1 DEF PipelineInv, SeenCovered, IdsOf
  <2>6. StoreSeen' = StoreSeen
    BY <2>1 DEF StoreSeen
  <2>7. StoreCovered' /\ StoreKnown'
    BY <1>1, <1>4, <2>1, <2>6 DEF PipelineInv, StoreCovered, StoreKnown, Active, IdsOf
  <2> QED BY <1>3, <2>2, <2>3, <2>4, <2>5, <2>7 DEF PipelineInv
<1> QED BY <1>5, <1>6

-----------------------------------------------------------------------------
(* The invariant and what follows from it *)

\* Every step of a process, every crash and every message keep the invariant.
LEMMA NextKeeps == PipelineInv /\ [Next]_vars => PipelineInv'
<1> SUFFICES ASSUME PipelineInv, [Next]_vars PROVE PipelineInv'
  OBVIOUS
<1>1. CASE \E m \in Messages : Produce(m)
  BY <1>1, ProduceKeeps
<1>2. CASE Start
  BY <1>2, StartKeeps DEF Start
<1>3. CASE Step
  <2>1. CASE DrainFails \/ StopWatch
    BY <2>1, CrashKeeps
  <2>2. CASE DrainRolling
    BY <2>2, StartKeeps
  <2>3. CASE DrainWatch
    BY <2>3, DrainWatchKeeps
  <2>4. CASE \E b \in 1..Len(log) : ApplyBatch(b)
    BY <2>4, ApplyBatchKeeps
  <2>5. CASE FinishDrain
    BY <2>5, FinishDrainKeeps
  <2>6. CASE \E r \in pending : WriteRevision(r)
    BY <2>6, WriteRevisionKeeps
  <2>7. CASE WriteSummary
    BY <2>7, WriteSummaryKeeps
  <2>8. CASE \E i \in toRecord : RecordId(i)
    BY <2>8, RecordIdKeeps
  <2>9. CASE Compact
    BY <2>9, CompactKeeps
  <2>10. CASE CommitWatch \/ CommitRolling
    BY <2>10, CommitKeeps
  <2> QED BY <1>3, <2>1, <2>2, <2>3, <2>4, <2>5, <2>6, <2>7, <2>8, <2>9, <2>10 DEF Step
<1>4. CASE Crash
  BY <1>4, CrashKeeps
<1>5. CASE CrashTorn
  BY <1>5, CrashTornKeeps
<1>6. CASE UNCHANGED vars
  <2>1. /\ UNCHANGED <<log, offset, dedupFile, torn, revs, summary, run, pc, position,
                       cursor, seen, working, pending, nBuilt, nWritten, storeIds,
                       toRecord, cycle, crashes, mode>>
    BY <1>6 DEF vars, durable, session, output
  <2>2. TypeOK'
    BY <2>1 DEF PipelineInv, TypeOK
  <2>3. Positions' /\ PendingShape' /\ DrainedShape'
    BY <2>1 DEF PipelineInv, Positions, PendingShape, DrainedShape, Active, EventsIn, IsEvent
  <2> QED BY <2>1, <2>2, <2>3, QuietKeeps DEF Active
<1> QED BY <1>1, <1>2, <1>3, <1>4, <1>5, <1>6 DEF Next

\* PipelineInv is an invariant of the pipeline, for every source, both
\* drivers, any retention bound and any number of crashes.
THEOREM PipelineInvariant == Spec => []PipelineInv
<1>1. Init => PipelineInv
  BY InitPipelineInv
<1>2. PipelineInv /\ [Next]_vars => PipelineInv'
  BY NextKeeps
<1> QED BY <1>1, <1>2, PTL DEF Spec

\* Type correctness of the pipeline.
THEOREM TypeCorrect == Spec => []TypeOK
<1>1. PipelineInv => TypeOK
  BY DEF PipelineInv
<1> QED BY <1>1, PipelineInvariant, PTL

\* Nothing is lost: a committed (acked) event is in a published revision.
THEOREM NoEventLost == Spec => []CommittedArePublished
<1>1. PipelineInv => CommittedArePublished
  BY DEF PipelineInv
<1> QED BY <1>1, PipelineInvariant, PTL

\* The durable store only suppresses what is published.
THEOREM StoreSound == Spec => []StoreHoldsOnlyPublished
<1>1. PipelineInv => StoreHoldsOnlyPublished
  BY DEF PipelineInv, StoreCovered, StoreHoldsOnlyPublished
<1> QED BY <1>1, PipelineInvariant, PTL

\* Publication precedes the record of an id and the commit of an entry, for
\* every sequence of rolling runs, watchers and crashes.
THEOREM PublicationFirst == Spec => []PublishedFirst
<1>1. CommittedArePublished /\ StoreHoldsOnlyPublished => PublishedFirst
  BY DEF PublishedFirst
<1> QED BY <1>1, NoEventLost, StoreSound, PTL

\* A recorded event never gets another revision.
THEOREM RecordedSuppressed == Spec => RecordedNeverRepublished
<1> DEFINE A == UseStore => \A r \in revs' \ revs : IdsOf(r.src) \cap DurableIds = {}
<1>1. PipelineInv /\ [Next]_vars => [A]_vars
  <2> SUFFICES ASSUME PipelineInv, [Next]_vars, UseStore, NEW r \in revs' \ revs
               PROVE  IdsOf(r.src) \cap DurableIds = {}
    OBVIOUS
  <2>1. r \in pending
    BY DEF Next, vars, durable, Produce, Start, StartWatch, StartRolling, Step, DrainFails,
       DrainRolling, DrainWatch, StopWatch, ApplyBatch, FinishDrain, WriteRevision,
       WriteSummary, RecordId, Compact, CommitWatch, CommitRolling, Crash, CrashTorn
  <2> QED BY <2>1 DEF PipelineInv, StoreKnown
<1>2. Spec => [][A]_vars
  BY <1>1, PipelineInvariant, PTL DEF Spec
<1> QED BY <1>2 DEF RecordedNeverRepublished

-----------------------------------------------------------------------------
(* Refinement of the delivery contract *)

\* A step that keeps the log and the offset and only adds revisions
\* publishes, or stutters.
LEMMA PublishStep ==
    ASSUME PipelineInv, log' = log, offset' = offset, revs \subseteq revs'
    PROVE  Delivery!Next \/ UNCHANGED Delivery!vars
<1>1. Covered \subseteq Covered' /\ Covered' \subseteq 1..Len(log)
  BY DEF Covered, CoveredBy, IdsOf, IsEvent
<1>2. Covered' = Covered \cup Covered'
  BY <1>1
<1>3. Delivery!Publish(Covered')
  BY <1>2 DEF Delivery!Publish
<1> QED BY <1>1, <1>3 DEF Delivery!Next

\* A message is a Produce step: it is published at once exactly when its id
\* is.
LEMMA ProduceStep ==
    ASSUME PipelineInv, NEW m \in Messages, Produce(m)
    PROVE  Delivery!Produce(m)
<1> DEFINE n == Len(log) + 1
<1>1. /\ log' = Append(log, m) /\ Len(log') = n /\ offset' = offset /\ revs' = revs
      /\ \A i \in 1..Len(log) : log'[i] = log[i]
      /\ Len(log) \in Nat
  BY DEF PipelineInv, TypeOK, Produce
<1>2. \A r \in revs : r.src \subseteq 1..Len(log)
  BY DEF PipelineInv, SourcesInLog
<1>3. \A r \in revs : IdsOf(r.src)' = IdsOf(r.src)
  BY <1>1, <1>2 DEF IdsOf
<1>4. \A i \in 1..Len(log) : i \in Covered' <=> i \in Covered
  BY <1>1, <1>3 DEF Covered, CoveredBy, IsEvent
<1>5. Covered \subseteq 1..Len(log) /\ Covered' \subseteq 1..n
  BY <1>1 DEF Covered
<1>6. \A i \in 1..n : i \in 1..Len(log) \/ i = n
  BY <1>1
<1>7. Covered' \in {Covered, Covered \cup {n}}
  <2>1. CASE n \in Covered'
    <3>1. Covered' = Covered \cup {n}
      BY <1>4, <1>5, <1>6, <2>1
    <3> QED BY <3>1
  <2>2. CASE n \notin Covered'
    <3>1. Covered' = Covered
      BY <1>4, <1>5, <1>6, <2>2
    <3> QED BY <3>1
  <2> QED BY <2>1, <2>2
<1> QED BY <1>1, <1>7 DEF Delivery!Produce

\* A commit is an acknowledgement the contract allows.
LEMMA AckStep ==
    ASSUME PipelineInv, CommitWatch \/ CommitRolling
    PROVE  Delivery!Next
<1>1. pc = "commit" /\ offset' = CommitTo /\ log' = log /\ revs' = revs
  BY DEF CommitWatch, CommitRolling
<1>2. /\ CommitTo \in offset..Len(log)
      /\ \A i \in 1..CommitTo : IsEvent(i) => CoveredBy(revs, i)
  BY <1>1, CommitCovered
<1>3. offset \in Nat /\ Len(log) \in Nat
  BY DEF PipelineInv, TypeOK
<1>4. Covered' = Covered
  BY <1>1 DEF Covered, CoveredBy, IdsOf, IsEvent
<1>5. Delivery!Ack(CommitTo)
  BY <1>1, <1>2, <1>3, <1>4 DEF Delivery!Ack, Covered, IsEvent
<1> QED BY <1>2, <1>3, <1>5 DEF Delivery!Next

\* The pipeline implements DeliveryContract.
THEOREM PipelineDelivers == Spec => DeliveryRefined
<1>1. Init => Delivery!Init
  BY DEF Init, Delivery!Init, Covered
<1>2. PipelineInv /\ [Next]_vars => [Delivery!Next]_(Delivery!vars)
  <2> SUFFICES ASSUME PipelineInv, [Next]_vars
               PROVE  Delivery!Next \/ UNCHANGED Delivery!vars
    OBVIOUS
  <2>1. CASE \E m \in Messages : Produce(m)
    BY <2>1, ProduceStep DEF Delivery!Next
  <2>2. CASE CommitWatch \/ CommitRolling
    BY <2>2, AckStep
  <2>3. CASE ~(\E m \in Messages : Produce(m)) /\ ~(CommitWatch \/ CommitRolling)
    <3>1. log' = log /\ offset' = offset /\ revs \subseteq revs'
      BY <2>3 DEF Next, vars, durable, Start, StartWatch, StartRolling, Step, DrainFails,
         DrainRolling, DrainWatch, StopWatch, ApplyBatch, FinishDrain, WriteRevision,
         WriteSummary, RecordId, Compact, Crash, CrashTorn
    <3> QED BY <3>1, PublishStep
  <2> QED BY <2>1, <2>2, <2>3
<1>3. Spec => Delivery!Spec
  BY <1>1, <1>2, PipelineInvariant, PTL DEF Spec, Delivery!Spec
<1> QED BY <1>3 DEF DeliveryRefined

-----------------------------------------------------------------------------
(* Steps that build and write nothing *)

\* The numbers and the runs of revisions.
LEMMA BuiltTyped ==
    ASSUME PipelineInv
    PROVE  /\ \A r \in Built : r \in Revisions /\ r.run \in Runs /\ r.n \in Nat
           /\ \A r \in Built : r.src \subseteq 1..Len(log)
           /\ nWritten \in Nat /\ nBuilt \in Nat /\ run \in 0..MaxRuns
           /\ ~Active => pending = {}
<1>1. revs \subseteq Revisions /\ pending \subseteq Revisions
  BY DEF PipelineInv, TypeOK
<1>2. \A r \in Built : r \in Revisions
  BY <1>1 DEF Built
<1>3. \A r \in Revisions : r.run \in Runs /\ r.n \in Nat
  BY DEF Revisions
<1>4. \A r \in Built : r.src \subseteq 1..Len(log)
  BY DEF PipelineInv, SourcesInLog, Built
<1>5. nWritten \in Nat /\ nBuilt \in Nat /\ run \in 0..MaxRuns
  BY DEF PipelineInv, TypeOK
<1>6. ~Active => pending = {}
  BY DEF PipelineInv, PendingShape, Active
<1> QED BY <1>2, <1>3, <1>4, <1>5, <1>6

\* A step that leaves the revisions, their ids and the session as they are.
LEMMA QuietHistory ==
    ASSUME PipelineInv, HistoryInv, Active' <=> Active,
           UNCHANGED <<revs, run, pending, nBuilt, nWritten, seen, working>>,
           \A r \in Built : IdsOf(r.src)' = IdsOf(r.src)
    PROVE  HistoryInv'
<1>1. Built' = Built
  BY DEF Built
<1>2. HistoryOpens' /\ HistoryNumbered'
  BY <1>1 DEF HistoryInv, HistoryOpens, HistoryNumbered
<1>3. HistoryCurrent'
  BY <1>1 DEF HistoryInv, HistoryCurrent
<1>4. HistoryOrdered'
  BY <1>1 DEF HistoryInv, HistoryOrdered
<1> QED BY <1>2, <1>3, <1>4 DEF HistoryInv

\* The end of a process leaves whole revisions on disk and forgets the rest.
LEMMA GoneHistory ==
    ASSUME PipelineInv, HistoryInv, ProcessGone,
           UNCHANGED <<log, revs, run>>
    PROVE  HistoryInv'
<1>1. /\ ~Active' /\ pending' = {} /\ nWritten' = 0 /\ working' = {} /\ seen' = {}
      /\ Built' = revs /\ revs \subseteq Built
  BY DEF ProcessGone, Active, Built
<1>2. \A r \in revs : IdsOf(r.src)' = IdsOf(r.src)
  BY DEF IdsOf
<1>3. HistoryOpens' /\ HistoryCurrent'
  BY <1>1 DEF HistoryOpens, HistoryCurrent
<1>4. HistoryNumbered'
  BY <1>1 DEF HistoryInv, HistoryNumbered
<1>5. HistoryOrdered'
  BY <1>1, <1>2 DEF HistoryInv, HistoryOrdered
<1> QED BY <1>3, <1>4, <1>5 DEF HistoryInv

\* A message at the end of the log is in no revision yet.
LEMMA ProduceHistory ==
    ASSUME PipelineInv, HistoryInv, NEW m \in Messages, Produce(m)
    PROVE  HistoryInv'
<1>1. \A i \in 1..Len(log) : log'[i] = log[i]
  BY DEF PipelineInv, TypeOK, Produce
<1>2. \A r \in Built : IdsOf(r.src)' = IdsOf(r.src)
  BY <1>1, BuiltTyped DEF IdsOf
<1>3. /\ UNCHANGED <<revs, run, pending, nBuilt, nWritten, seen, working, pc>>
  BY DEF Produce, session, output
<1> QED BY <1>2, <1>3, QuietHistory DEF Active

-----------------------------------------------------------------------------
(* Opening a run *)

\* A new run has a number of its own, so its baseline meets no revision.
LEMMA BeginHistory ==
    ASSUME PipelineInv, HistoryInv, ~Active, Active',
           run' = run + 1, pending' = {Baseline(run + 1)}, nBuilt' = 1,
           UNCHANGED <<log, revs, seen, working, nWritten>>
    PROVE  HistoryInv'
<1> DEFINE base == Baseline(run + 1)
<1>1. /\ base.run = run + 1 /\ base.n = 0 /\ base.src = {} /\ base.reflects = {}
      /\ nWritten = 0 /\ Built = revs /\ Built' = revs \cup {base}
      /\ run \in Nat
  BY BuiltTyped DEF HistoryInv, HistoryOpens, Built, Baseline
<1>2. \A r \in revs : r.run \in Nat /\ r.n \in Nat /\ r.run <= run /\ r.run # run + 1
  BY <1>1, BuiltTyped, ConstantsAssumption DEF HistoryInv, HistoryNumbered, Runs
<1>3. \A r \in Built' : IdsOf(r.src)' = IdsOf(r.src)
  BY DEF IdsOf
<1>4. IdsOf(base.src) = {}
  BY <1>1 DEF IdsOf
<1> HIDE DEF base
<1>5. HistoryOpens'
  BY DEF HistoryOpens
<1>6. HistoryNumbered'
  <2>1. \A r \in Built' : r.run <= run'
    BY <1>1, <1>2
  <2>2. \A r \in pending' : r.run = run' /\ nWritten' <= r.n
    BY <1>1 DEF base
  <2>3. \A r \in revs' : \A n \in 0..r.n : \E q \in revs' : q.run = r.run /\ q.n = n
    BY DEF HistoryInv, HistoryNumbered
  <2>4. nWritten' <= nBuilt' /\ \A n \in 0..(nWritten' - 1) : FALSE
    BY <1>1
  <2>5. \A r \in revs' : r.run # run'
    BY <1>2
  <2> QED BY <2>1, <2>2, <2>3, <2>4, <2>5 DEF HistoryNumbered
<1>7. HistoryCurrent'
  <2>1. ASSUME NEW r \in Built', r.run = run'
        PROVE  r.n < nBuilt' /\ r.reflects \subseteq working' /\ IdsOf(r.src) \subseteq seen'
    <3>1. r = base
      BY <1>1, <1>2, <2>1
    <3>2. r.n = 0 /\ r.reflects = {} /\ IdsOf(r.src) = {}
      BY <1>1, <1>4, <3>1
    <3> QED BY <3>2
  <2> QED BY <1>3, <2>1 DEF HistoryCurrent
<1>8. HistoryOrdered'
  <2>1. ASSUME NEW r \in Built'
        PROVE  r.src \subseteq r.reflects /\ (r.n > 0 => r.src # {})
    BY <1>1 DEF HistoryInv, HistoryOrdered
  <2>2. ASSUME NEW r \in Built', NEW q \in Built', r.run = q.run
        PROVE  (r \in revs /\ q \in revs) \/ (r = base /\ q = base)
    BY <1>1, <1>2, <2>2
  <2>3. ASSUME NEW r \in Built', NEW q \in Built', r.run = q.run
        PROVE  /\ q.n < r.n => q.reflects \subseteq r.reflects
               /\ q.n = r.n => q = r
               /\ q # r => IdsOf(q.src) \cap IdsOf(r.src) = {}
    BY <1>1, <2>2, <2>3 DEF HistoryInv, HistoryOrdered
  <2> QED BY <1>3, <2>1, <2>3 DEF HistoryOrdered
<1> QED BY <1>5, <1>6, <1>7, <1>8 DEF HistoryInv

-----------------------------------------------------------------------------
(* Building and writing a revision *)

\* A revision that is built has the next number, the whole working copy and
\* ids that were not seen in this run.
LEMMA BuildHistory ==
    ASSUME PipelineInv, HistoryInv, NEW b \in 1..Len(log), ApplyBatch(b)
    PROVE  HistoryInv'
<1> DEFINE batch == EventsIn(cursor, b)
           applied == Applied(batch)
           new == [run |-> run, n |-> nBuilt, src |-> applied, reflects |-> WorkingAfter(applied)]
<1>1. /\ pc = "apply" /\ pc' \in {"apply", "write"} /\ Active /\ Active'
      /\ UNCHANGED <<log, revs, run, nWritten>>
      /\ seen' = seen \cup IdsOf(applied) /\ working' = working \cup applied
  BY DEF ApplyBatch, Active, durable, WorkingAfter
<1>2. \/ applied = {} /\ pending' = pending /\ nBuilt' = nBuilt
      \/ applied # {} /\ pending' = pending \cup {new} /\ nBuilt' = nBuilt + 1
  BY DEF ApplyBatch, output
<1>3. \A S : IdsOf(S)' = IdsOf(S)
  BY <1>1 DEF IdsOf
<1>4. IdsOf(applied) \cap seen = {}
  BY DEF IdsOf, Applied
<1>5. nWritten \in Nat /\ nBuilt \in Nat /\ \A r \in Built : r.n \in Nat
  BY BuiltTyped
<1>6. /\ new.run = run /\ new.n = nBuilt /\ new.src = applied
      /\ new.reflects = working \cup applied
  BY DEF WorkingAfter
<1> HIDE DEF new, applied
<1>7. \A r \in Built' : r \in Built \/ (r = new /\ applied # {} /\ nBuilt' = nBuilt + 1)
  BY <1>1, <1>2 DEF Built
<1>8. Built \subseteq Built' /\ nBuilt <= nBuilt' /\ nBuilt' \in Nat
  BY <1>1, <1>2, <1>5 DEF Built
<1>9. \A r \in Built : r.run = run =>
          r.n < nBuilt /\ r.reflects \subseteq working /\ IdsOf(r.src) \subseteq seen
  BY <1>1 DEF HistoryInv, HistoryCurrent
<1>10. HistoryOpens'
  BY <1>1 DEF HistoryOpens
<1>11. HistoryNumbered'
  <2>1. \A r \in Built' : r.run <= run'
    BY <1>1, <1>6, <1>7, BuiltTyped, ConstantsAssumption DEF HistoryInv, HistoryNumbered
  <2>2. \A r \in pending' : r.run = run' /\ nWritten' <= r.n
    BY <1>1, <1>2, <1>6 DEF HistoryInv, HistoryNumbered
  <2>3. nWritten' <= nBuilt'
    BY <1>1, <1>5, <1>8 DEF HistoryInv, HistoryNumbered
  <2> QED BY <1>1, <2>1, <2>2, <2>3 DEF HistoryInv, HistoryNumbered
<1>12. HistoryCurrent'
  <2> SUFFICES ASSUME NEW r \in Built', r.run = run
               PROVE  /\ r.n < nBuilt' /\ r.reflects \subseteq working'
                      /\ IdsOf(r.src) \subseteq seen'
    BY <1>1, <1>3 DEF HistoryCurrent
  <2>1. CASE r \in Built
    BY <1>1, <1>5, <1>8, <1>9, <2>1
  <2>2. CASE r = new /\ nBuilt' = nBuilt + 1
    BY <1>1, <1>5, <1>6, <2>2
  <2> QED BY <1>7, <2>1, <2>2
<1>13. HistoryOrdered'
  <2>1. ASSUME NEW r \in Built'
        PROVE  r.src \subseteq r.reflects /\ (r.n > 0 => r.src # {})
    BY <1>6, <1>7 DEF HistoryInv, HistoryOrdered
  <2>2. ASSUME NEW r \in Built', NEW q \in Built', r.run = q.run
        PROVE  /\ q.n < r.n => q.reflects \subseteq r.reflects
               /\ q.n = r.n => q = r
               /\ q # r => IdsOf(q.src) \cap IdsOf(r.src) = {}
    <3>1. CASE r \in Built /\ q \in Built
      BY <2>2, <3>1 DEF HistoryInv, HistoryOrdered
    <3>2. CASE r = new /\ q = new
      BY <1>5, <1>6, <3>2
    <3>3. CASE r = new /\ q \in Built
      <4>1. q.n < nBuilt /\ q.reflects \subseteq working /\ IdsOf(q.src) \subseteq seen
        BY <1>6, <1>9, <2>2, <3>3
      <4> QED BY <1>4, <1>5, <1>6, <3>3, <4>1
    <3>4. CASE q = new /\ r \in Built
      <4>1. r.n < nBuilt /\ IdsOf(r.src) \subseteq seen
        BY <1>6, <1>9, <2>2, <3>4
      <4> QED BY <1>4, <1>5, <1>6, <3>4, <4>1
    <3> QED BY <1>7, <3>1, <3>2, <3>3, <3>4
  <2> QED BY <1>3, <2>1, <2>2 DEF HistoryOrdered
<1> QED BY <1>10, <1>11, <1>12, <1>13 DEF HistoryInv

\* The revision that is written closes the gap after the last one.
LEMMA WriteHistory ==
    ASSUME PipelineInv, HistoryInv, NEW r \in pending, WriteRevision(r)
    PROVE  HistoryInv'
<1>1. /\ Active /\ Active' /\ UNCHANGED <<log, run, nBuilt, seen, working>>
      /\ r.n = nWritten /\ revs' = revs \cup {r} /\ pending' = pending \ {r}
      /\ nWritten' = nWritten + 1
  BY DEF WriteRevision, Active, session
<1>2. Built' = Built /\ r \in Built /\ \A S : IdsOf(S)' = IdsOf(S)
  BY <1>1 DEF Built, IdsOf
<1>3. /\ nWritten \in Nat /\ nBuilt \in Nat /\ \A q \in Built : q.n \in Nat
      /\ r.run = run
  BY BuiltTyped DEF HistoryInv, HistoryNumbered
<1>4. HistoryOpens' /\ HistoryCurrent' /\ HistoryOrdered'
  BY <1>1, <1>2 DEF HistoryInv, HistoryOpens, HistoryCurrent, HistoryOrdered
<1>5. HistoryNumbered'
  <2>1. \A q \in Built' : q.run <= run'
    BY <1>1, <1>2 DEF HistoryInv, HistoryNumbered
  <2>2. ASSUME NEW q \in pending'
        PROVE  q.run = run' /\ nWritten' <= q.n
    <3>1. q \in pending /\ q # r /\ q \in Built
      BY <1>1 DEF Built
    <3>2. q.run = run /\ nWritten <= q.n
      BY <3>1 DEF HistoryInv, HistoryNumbered
    <3>3. q.n # nWritten
      BY <1>1, <1>2, <1>3, <3>1, <3>2 DEF HistoryInv, HistoryOrdered
    <3> QED BY <1>1, <1>3, <3>1, <3>2, <3>3
  <2>3. ASSUME NEW n \in 0..nWritten
        PROVE  \E q \in revs' : q.run = run /\ q.n = n
    <3>1. CASE n = nWritten
      BY <1>1, <1>3, <3>1
    <3>2. CASE n \in 0..(nWritten - 1)
      <4>1. PICK q \in revs : q.run = run /\ q.n = n
        BY <1>1, <3>2 DEF HistoryInv, HistoryNumbered
      <4> QED BY <1>1, <4>1
    <3> QED BY <1>3, <3>1, <3>2
  <2>4. ASSUME NEW q \in revs', NEW n \in 0..q.n
        PROVE  \E p \in revs' : p.run = q.run /\ p.n = n
    <3>1. CASE q \in revs
      <4>1. PICK p \in revs : p.run = q.run /\ p.n = n
        BY <3>1 DEF HistoryInv, HistoryNumbered
      <4> QED BY <1>1, <4>1
    <3>2. CASE q = r
      BY <1>1, <1>3, <2>3, <3>2
    <3> QED BY <1>1, <3>1, <3>2
  <2>5. nWritten' <= nBuilt'
    BY <1>1, <1>2, <1>3 DEF HistoryInv, HistoryCurrent
  <2>6. \A q \in revs' : q.run = run' => q.n < nWritten'
    <3>1. \A q \in revs : q.run = run => q.n < nWritten
      BY <1>1 DEF HistoryInv, HistoryNumbered
    <3>2. \A q \in revs : q.n \in Nat
      BY <1>3 DEF Built
    <3> QED BY <1>1, <1>3, <3>1, <3>2
  <2>7. \A n \in 0..(nWritten' - 1) : \E q \in revs' : q.run = run' /\ q.n = n
    BY <1>1, <1>3, <2>3
  <2> QED BY <2>1, <2>2, <2>4, <2>5, <2>6, <2>7 DEF HistoryNumbered
<1> QED BY <1>4, <1>5 DEF HistoryInv

-----------------------------------------------------------------------------
(* The invariant *)

\* HistoryInv is kept by every step.
LEMMA HistoryKept == PipelineInv /\ HistoryInv /\ [Next]_vars => HistoryInv'
<1> SUFFICES ASSUME PipelineInv, HistoryInv, [Next]_vars PROVE HistoryInv'
  OBVIOUS
<1>1. CASE \E m \in Messages : Produce(m)
  BY <1>1, ProduceHistory
<1>2. CASE StartWatch \/ DrainRolling
  BY <1>2, BeginHistory DEF StartWatch, DrainRolling, Active
<1>3. CASE \E b \in 1..Len(log) : ApplyBatch(b)
  BY <1>3, BuildHistory
<1>4. CASE \E r \in pending : WriteRevision(r)
  BY <1>4, WriteHistory
<1>5. CASE DrainFails \/ StopWatch \/ CommitRolling \/ Crash \/ CrashTorn
  <2>1. ProcessGone /\ UNCHANGED <<log, revs, run>>
    BY <1>5 DEF DrainFails, StopWatch, CommitRolling, Crash, CrashTorn, durable
  <2> QED BY <2>1, GoneHistory
<1>6. CASE \/ StartRolling \/ DrainWatch \/ FinishDrain \/ WriteSummary \/ Compact
           \/ CommitWatch \/ UNCHANGED vars
  <2>1. UNCHANGED <<log, revs, run, pending, nBuilt, nWritten, seen, working>>
    BY <1>6 DEF StartRolling, DrainWatch, FinishDrain, WriteSummary, Compact, CommitWatch,
                durable, session, output, vars
  <2>2. Active' <=> Active
    BY <1>6 DEF StartRolling, DrainWatch, FinishDrain, WriteSummary, Compact, CommitWatch,
                Active, vars
  <2> QED BY <2>1, <2>2, QuietHistory DEF IdsOf
<1>7. CASE \E i \in toRecord : RecordId(i)
  <2>1. /\ UNCHANGED <<log, revs, run, pending, nBuilt, nWritten, seen, working>>
        /\ Active' <=> Active
    BY <1>7 DEF RecordId, session, output, Active
  <2> QED BY <2>1, QuietHistory DEF IdsOf
<1> QED BY <1>1, <1>2, <1>3, <1>4, <1>5, <1>6, <1>7 DEF Next, Start, Step

\* What a run has built is a sound history at every moment.
LEMMA HistoryInvariant == Spec => []HistoryInv
<1>1. Init => HistoryInv
  BY DEF Init, HistoryInv, HistoryOpens, HistoryNumbered, HistoryCurrent, HistoryOrdered,
         Built, Active
<1>2. PipelineInv /\ HistoryInv /\ [Next]_vars => HistoryInv'
  BY HistoryKept
<1> QED BY <1>1, <1>2, PipelineInvariant, PTL DEF Spec

\* The revision files of a run are a sound history: no id is in two of them,
\* their numbers have no gap, and each snapshot holds all earlier effects,
\* for every source, driver, schedule of crashes and retention bound.
THEOREM RevisionHistory == Spec => []RevisionsSound
<1>1. HistoryInv => RevisionsSound
  <2> SUFFICES ASSUME HistoryInv PROVE OnceWithinRun /\ RevisionsChain
    BY DEF RevisionsSound
  <2>1. revs \subseteq Built
    BY DEF Built
  <2> QED BY <2>1 DEF HistoryInv, HistoryOrdered, HistoryNumbered, OnceWithinRun, RevisionsChain
<1> QED BY <1>1, HistoryInvariant, PTL

-----------------------------------------------------------------------------
(* The id log: facts about the cycle at hand *)

\* The positions and ids of a cycle.
LEMMA CycleTyped ==
    ASSUME PipelineInv
    PROVE  /\ offset \in 0..Len(log) /\ cursor \in 0..Len(log) /\ position \in 0..Len(log)
           /\ Len(log) \in Nat /\ working \subseteq 1..Len(log) /\ toRecord \subseteq 1..Len(log)
           /\ storeIds \in Seq(EventIds \cup {Torn}) /\ dedupFile \in Seq(EventIds \cup {Torn})
           /\ Window \subseteq working /\ Window \subseteq 1..Len(log)
           /\ \A S \in SUBSET (1..Len(log)) : IdsOf(S) \subseteq EventIds /\ IsFiniteSet(IdsOf(S))
<1>1. /\ offset \in 0..Len(log) /\ cursor \in 0..Len(log) /\ position \in 0..Len(log)
      /\ Len(log) \in Nat /\ working \subseteq 1..Len(log) /\ toRecord \subseteq 1..Len(log)
      /\ storeIds \in Seq(EventIds \cup {Torn}) /\ dedupFile \in Seq(EventIds \cup {Torn})
      /\ log \in Seq(Messages)
  BY DEF PipelineInv, TypeOK
<1>2. Window \subseteq working /\ Window \subseteq 1..Len(log)
  BY <1>1 DEF Window
<1>3. ASSUME NEW S \in SUBSET (1..Len(log)) PROVE IdsOf(S) \subseteq EventIds
  <2>1. \A i \in S : log[i] \in Messages
    BY <1>1
  <2> QED BY <2>1 DEF IdsOf, Messages, Ids
<1>4. ASSUME NEW S \in SUBSET (1..Len(log)) PROVE IsFiniteSet(IdsOf(S))
  <2> DEFINE image == {log[i].id : i \in S}
             f == [i \in S |-> log[i].id]
  <2>1. IsFiniteSet(1..Len(log))
    BY <1>1, FS_Interval
  <2>2. IsFiniteSet(S)
    BY <2>1, FS_Subset
  <2>3. f \in Surjection(S, image)
    BY DEF Surjection
  <2>4. IsFiniteSet(image)
    BY <2>2, <2>3, FS_Surjection
  <2>5. IdsOf(S) \subseteq image
    BY DEF IdsOf
  <2> QED BY <2>4, <2>5, FS_Subset
<1> QED BY <1>1, <1>2, <1>3, <1>4

\* A part of a cycle has no more ids than the whole.
LEMMA FewerIds ==
    ASSUME NEW S, NEW T, IsFiniteSet(T), S \subseteq T, Cardinality(T) <= MaxIds
    PROVE  IsFiniteSet(S) /\ Cardinality(S) <= MaxIds
<1>1. IsFiniteSet(S) /\ Cardinality(S) <= Cardinality(T) /\ Cardinality(S) \in Nat /\ Cardinality(T) \in Nat
  BY FS_Subset, FS_CardinalityType
<1> QED BY <1>1, ConstantsAssumption

-----------------------------------------------------------------------------
(* The id log: steps that record nothing *)

LEMMA QuietLog ==
    ASSUME PipelineInv, LogInv, RecordShape', Active' => Active, pc' = "compact" => pc = "compact",
           UNCHANGED <<log, offset, cursor, working, seen, dedupFile, torn, storeIds, toRecord, pending>>
    PROVE  LogInv'
<1>1. Window' = Window /\ StoreSeen' = StoreSeen /\ \A S : IdsOf(S)' = IdsOf(S)
  BY DEF Window, EventsIn, IsEvent, StoreSeen, IdsOf
<1>2. AppliedDistinct'
  BY <1>1 DEF LogInv, AppliedDistinct, IdsOf
<1>3. LinesAgree'
  BY <1>1 DEF LogInv, LinesAgree, NoIdTwice, CleanLog
<1>4. IdsOf(Window)' = IdsOf(Window) /\ IdsOf(toRecord)' = IdsOf(toRecord)
  BY <1>1 DEF IdsOf
<1>5. \A e : (Recent(e) => Recent(e)') /\ (Waits(e) => Waits(e)')
  BY <1>1, <1>4 DEF Recent, Waits, IdsOf
<1>6. WindowStored'
  BY <1>1, <1>4, <1>5 DEF LogInv, WindowStored, IdsOf
<1> QED BY <1>2, <1>3, <1>6 DEF LogInv

\* A message at the end of the log is beyond the cycle.
LEMMA ProduceLog ==
    ASSUME PipelineInv, LogInv, NEW m \in Messages, Produce(m)
    PROVE  LogInv'
<1>1. /\ \A i \in 1..Len(log) : log'[i] = log[i]
      /\ UNCHANGED <<offset, cursor, working, seen, dedupFile, torn, storeIds, toRecord, pending, pc, mode, nBuilt>>
  BY DEF PipelineInv, TypeOK, Produce, session, output
<1>2. Window' = Window /\ StoreSeen' = StoreSeen /\ (Active' <=> Active)
  BY <1>1, CycleTyped DEF Window, EventsIn, IsEvent, StoreSeen, Active
<1>3. \A S \in SUBSET (1..Len(log)) : IdsOf(S)' = IdsOf(S)
  BY <1>1 DEF IdsOf
<1>4. /\ IdsOf(Window)' = IdsOf(Window) /\ IdsOf(toRecord)' = IdsOf(toRecord)
      /\ IdsOf(working)' = IdsOf(working)
  BY <1>1, <1>2, <1>3, CycleTyped DEF IdsOf
<1>5. \A r \in pending : r.src \subseteq 1..Len(log) /\ IdsOf(r.src)' = IdsOf(r.src)
  BY <1>3 DEF PipelineInv, SourcesInLog
<1>6. RecordShape' /\ LinesAgree'
  BY <1>1, <1>2 DEF LogInv, RecordShape, LinesAgree, NoIdTwice, CleanLog
<1>7. AppliedDistinct'
  BY <1>1, <1>4, CycleTyped DEF LogInv, AppliedDistinct
<1>8. \A e : (Recent(e) => Recent(e)') /\ (Waits(e) => Waits(e)')
  BY <1>1, <1>4, <1>5 DEF Recent, Waits
<1>9. \A i \in toRecord : log'[i].id = log[i].id
  BY <1>1, CycleTyped
<1>10. WindowStored'
  BY <1>1, <1>2, <1>4, <1>5, <1>8, <1>9 DEF LogInv, WindowStored
<1> QED BY <1>6, <1>7, <1>10 DEF LogInv

\* The end of a process leaves the lines of the log.
LEMMA GoneLog ==
    ASSUME PipelineInv, LogInv, ProcessGone, log' = log, NoIdTwice(dedupFile'),
           torn' => Torn \in {dedupFile'[k] : k \in 1..Len(dedupFile')}
    PROVE  LogInv'
<1>1. /\ ~Active' /\ pc' = "off" /\ toRecord' = {} /\ pending' = {} /\ working' = {} /\ seen' = {}
      /\ storeIds' = <<>>
  BY DEF ProcessGone, Active
<1>2. RecordShape' /\ AppliedDistinct' /\ WindowStored'
  BY <1>1 DEF RecordShape, AppliedDistinct, WindowStored, IdsOf
<1>3. LinesAgree'
  BY <1>1 DEF LinesAgree, NoIdTwice
<1> QED BY <1>2, <1>3 DEF LogInv

\* A cycle without events, from what is in the log.
LEMMA FreshCycle ==
    ASSUME PipelineInv, RecordShape', AppliedDistinct', LinesAgree', Window' = {}, toRecord' = {},
           \A r \in pending' : r.src = {}
    PROVE  LogInv'
<1>1. \A S : S = {} => IdsOf(S)' = {}
  BY DEF IdsOf
<1>2. IdsOf(Window)' = {}
  BY DEF IdsOf
<1>3. WindowStored'
  BY <1>1, <1>2 DEF WindowStored
<1> QED BY <1>3 DEF LogInv

-----------------------------------------------------------------------------
(* The id log: the steps of a cycle *)

\* A process starts on the log as it is, with nothing applied.
LEMMA BeginLog ==
    ASSUME PipelineInv, HistoryInv, LogInv, ~Active, Active', pc' \in {"write", "apply"},
           pending' = {Baseline(run + 1)}, nBuilt' = 1, storeIds' = LoadedStore, cursor' = offset,
           UNCHANGED <<log, offset, dedupFile, torn, seen, working, toRecord>>
    PROVE  LogInv'
<1>1. working = {} /\ seen = {} /\ toRecord = {}
  BY DEF HistoryInv, HistoryOpens, LogInv, RecordShape, Active
<1>2. \A r \in pending' : r.n = 0 /\ r.src = {}
  BY DEF Baseline
<1>3. RecordShape'
  BY <1>1, <1>2, CycleTyped DEF RecordShape
<1>4. AppliedDistinct'
  BY <1>1 DEF AppliedDistinct, IdsOf
<1>5. LinesAgree'
  <2>1. NoIdTwice(<<>>)
    BY DEF NoIdTwice
  <2>2. NoIdTwice(storeIds') /\ NoIdTwice(dedupFile')
    BY <2>1 DEF LoadedStore, LogInv, LinesAgree
  <2>3. torn' => Torn \in {dedupFile'[k] : k \in 1..Len(dedupFile')}
    BY DEF LogInv, LinesAgree
  <2>4. UseStore => storeIds' = dedupFile'
    BY DEF LoadedStore
  <2> QED BY <2>2, <2>3, <2>4 DEF LinesAgree, NoIdTwice, CleanLog, StoreSeen
<1>6. Window' = {}
  BY <1>1 DEF Window
<1> QED BY <1>1, <1>2, <1>3, <1>4, <1>5, <1>6, FreshCycle

\* The ids of a batch are new to the run and to the store.
LEMMA ApplyLog ==
    ASSUME PipelineInv, HistoryInv, LogInv, NEW b \in 1..Len(log), ApplyBatch(b)
    PROVE  LogInv'
<1> DEFINE batch == EventsIn(cursor, b)
           applied == Applied(batch)
           new == [run |-> run, n |-> nBuilt, src |-> applied, reflects |-> WorkingAfter(applied)]
<1>1. /\ pc = "apply" /\ pc' \in {"apply", "write"} /\ Active /\ Active' /\ cursor' = b
      /\ UNCHANGED <<log, offset, dedupFile, torn, storeIds, toRecord, mode>>
      /\ seen' = seen \cup IdsOf(applied) /\ working' = working \cup applied
      /\ b \in EventsIn(cursor, position)
  BY DEF ApplyBatch, Active, durable, WorkingAfter
<1>2. \/ pending' = pending /\ nBuilt' = nBuilt /\ applied = {}
      \/ pending' = pending \cup {new} /\ nBuilt' = nBuilt + 1
  BY DEF ApplyBatch, output
<1>3. applied \subseteq batch /\ batch \subseteq (cursor + 1)..b /\ batch \subseteq EventsIn(offset, b)
      /\ cursor < b /\ b \in Nat /\ cursor \in Nat
  <2>1. cursor \in Nat /\ offset \in Nat /\ position \in Nat /\ b \in (cursor + 1)..position
    BY <1>1, CycleTyped DEF EventsIn
  <2>2. offset <= cursor
    BY <1>1 DEF LogInv, RecordShape
  <2> QED BY <2>1, <2>2 DEF Applied, EventsIn
<1>4. /\ IdsOf(applied) \cap (seen \cup StoreSeen) = {}
      /\ \A i, j \in applied : i # j /\ log[i].id = log[j].id => log[i].id = NoId
  <2>1. IdsOf(applied) \cap (seen \cup StoreSeen) = {}
    BY DEF IdsOf, Applied
  <2>2. ASSUME NEW i \in applied, NEW j \in applied, i < j, log[i].id = log[j].id
        PROVE  log[i].id = NoId
    BY <2>2 DEF Applied
  <2> QED BY <1>3, <2>1, <2>2
<1>5. new.n = nBuilt /\ new.src = applied
  OBVIOUS
<1> HIDE DEF applied, batch, new
<1>6. /\ StoreSeen' = StoreSeen /\ \A S : IdsOf(S)' = IdsOf(S)
  BY <1>1 DEF StoreSeen, IdsOf
<1>7. UseStore => \A i \in working : i <= cursor
  BY <1>1 DEF LogInv, RecordShape
<1>8. RecordShape'
  <2>1. offset' <= cursor'
    BY <1>1, <1>3, CycleTyped DEF LogInv, RecordShape
  <2>2. nBuilt >= 1 /\ nBuilt \in Nat /\ nBuilt' >= 1 /\ toRecord' = {}
    BY <1>1, <1>2, BuiltTyped DEF LogInv, RecordShape
  <2>3. ASSUME NEW r \in pending', r.n = 0
        PROVE  r.src = {} /\ (mode' = "watch" => working' = {})
    <3>1. r \in pending
      BY <1>2, <1>5, <2>2, <2>3
    <3>2. mode # "watch"
      BY <1>1, <3>1 DEF PipelineInv, PendingShape
    <3> QED BY <1>1, <2>3, <3>1, <3>2 DEF LogInv, RecordShape
  <2>4. UseStore => \A i \in working' : i <= cursor'
    <3>1. \A i \in applied : i <= b
      BY <1>3
    <3>2. UseStore => \A i \in working : i <= b
      <4>1. working \subseteq 1..Len(log)
        BY CycleTyped
      <4> QED BY <1>3, <1>7, <4>1
    <3> QED BY <1>1, <3>1, <3>2
  <2> QED BY <1>1, <2>1, <2>2, <2>3, <2>4 DEF RecordShape
<1>9. AppliedDistinct'
  <2>1. seen' = IdsOf(working')
    BY <1>1 DEF LogInv, AppliedDistinct, IdsOf
  <2>2. ASSUME NEW i \in working, NEW j \in applied, log[i].id = log[j].id, log[i].id # NoId
        PROVE  FALSE
    <3>1. log[i].id \in seen /\ log[j].id \in IdsOf(applied)
      BY <2>2 DEF LogInv, AppliedDistinct, IdsOf
    <3> QED BY <1>4, <2>2, <3>1
  <2>3. \A i, j \in working : i # j /\ log[i].id = log[j].id => log[i].id = NoId
    BY DEF LogInv, AppliedDistinct
  <2>4. \A i, j \in working' : i # j /\ log[i].id = log[j].id => log[i].id = NoId
    BY <1>1, <1>4, <2>2, <2>3
  <2> QED BY <1>1, <1>6, <2>1, <2>4 DEF AppliedDistinct
<1>10. LinesAgree'
  BY <1>1, <1>6 DEF LogInv, LinesAgree, NoIdTwice, CleanLog
<1>11. UseStore => Window' = Window \cup applied
  <2>1. Window' = EventsIn(offset, b) \cap (working \cup applied)
    BY <1>1 DEF Window, EventsIn, IsEvent
  <2>2. UseStore => EventsIn(offset, b) \cap working = Window
    <3>1. working \subseteq Nat /\ offset \in Nat
      BY CycleTyped
    <3> QED BY <1>3, <1>7, <3>1 DEF Window, EventsIn
  <2>3. applied \subseteq EventsIn(offset, b)
    BY <1>3
  <2> QED BY <2>1, <2>2, <2>3
<1>12. WindowStored'
  <2> SUFFICES ASSUME UseStore PROVE WindowStored'
    BY DEF WindowStored
  <2>1. /\ IdsOf(Window)' = IdsOf(Window) \cup IdsOf(applied) /\ IdsOf(toRecord)' = IdsOf(toRecord)
        /\ IsFiniteSet(IdsOf(applied))
    <3>1. IdsOf(Window)' = IdsOf(Window) \cup IdsOf(applied) /\ IdsOf(toRecord)' = IdsOf(toRecord)
      BY <1>1, <1>11 DEF IdsOf
    <3>2. applied \subseteq 1..Len(log)
      BY <1>3, CycleTyped
    <3>3. IsFiniteSet(IdsOf(applied))
      BY <3>2, CycleTyped
    <3> QED BY <3>1, <3>3
  <2>2. ASSUME NEW r \in pending'
        PROVE  r.src \subseteq Window' /\ IdsOf(r.src)' \cap StoreSeen' = {}
    <3>1. CASE r \in pending
      BY <1>1, <1>6, <1>11, <3>1 DEF LogInv, WindowStored
    <3>2. CASE r = new
      BY <1>4, <1>5, <1>6, <1>11, <3>2
    <3> QED BY <1>2, <3>1, <3>2
  <2>3. toRecord' = {}
    BY <1>1 DEF LogInv, RecordShape
  <2>4. ASSUME Cardinality(IdsOf(Window)') <= MaxIds, NEW e \in IdsOf(Window)'
        PROVE  Waits(e)' \/ Recent(e)'
    <3>1. CASE e \in IdsOf(Window)
      <4>1. Cardinality(IdsOf(Window)) <= MaxIds
        <5>1. IsFiniteSet(IdsOf(Window)')
          BY <2>1, CycleTyped, FS_Union
        <5> QED BY <2>1, <2>4, <5>1, FewerIds
      <4>2. Waits(e) \/ Recent(e)
        BY <1>1, <3>1, <4>1 DEF LogInv, WindowStored
      <4>3. Recent(e) => Recent(e)'
        BY <1>1, <2>1 DEF Recent
      <4>4. Waits(e) => Waits(e)'
        BY <1>2, <1>6, <2>1 DEF Waits
      <4> QED BY <4>2, <4>3, <4>4
    <3>2. CASE e \in IdsOf(applied)
      <4>1. \E r \in pending' : r.src = applied
        BY <1>2, <1>5, <3>2 DEF IdsOf
      <4>2. \E r \in pending' : e \in IdsOf(r.src)'
        BY <1>6, <3>2, <4>1
      <4> QED BY <4>2 DEF Waits
    <3> QED BY <2>1, <2>4, <3>1, <3>2
  <2> QED BY <2>2, <2>3, <2>4 DEF WindowStored
<1> QED BY <1>8, <1>9, <1>10, <1>12 DEF LogInv

\* The ids of a written revision are new to the store and wait to be recorded.
LEMMA WriteLog ==
    ASSUME PipelineInv, LogInv, NEW r \in pending, WriteRevision(r)
    PROVE  LogInv'
<1>1. /\ pc = "write" /\ Active /\ Active'
      /\ UNCHANGED <<log, offset, cursor, seen, working, dedupFile, torn, storeIds, mode, nBuilt>>
      /\ pending' = pending \ {r}
      /\ toRecord' = (IF UseStore THEN NewIds(toRecord \cup r.src) ELSE {})
      /\ pc' = IF mode = "rolling"
                 THEN (IF pending' = {} THEN "summary" ELSE "write")
                 ELSE IF r.n = 0 THEN "summary"
                      ELSE IF toRecord' # {} THEN "record" ELSE "apply"
  BY DEF WriteRevision, Active, session
<1>2. /\ Window' = Window /\ StoreSeen' = StoreSeen /\ \A S : IdsOf(S)' = IdsOf(S)
  BY <1>1 DEF Window, EventsIn, IsEvent, StoreSeen, IdsOf
<1>3. mode \in {"watch", "rolling"} /\ (mode = "watch" => pending = {r} /\ toRecord = {})
  <2>1. mode \in {"watch", "rolling"} /\ (mode = "watch" => \E q \in pending : pending = {q})
    BY <1>1 DEF PipelineInv, TypeOK, PendingShape
  <2>2. mode = "watch" => toRecord = {}
    BY <1>1 DEF LogInv, RecordShape
  <2> QED BY <2>1, <2>2
<1>4. r.n = 0 => r.src = {} /\ (mode = "watch" => working = {})
  BY DEF LogInv, RecordShape
<1>5. RecordShape'
  <2>1. ASSUME toRecord' # {}
        PROVE  UseStore /\ (pc' = "record" \/ (mode = "rolling" /\ pc' \in {"write", "summary"}))
    <3>1. UseStore
      BY <1>1, <2>1
    <3>2. CASE mode = "rolling"
      BY <1>1, <3>1, <3>2
    <3>3. CASE mode = "watch"
      <4>1. r.n # 0
        BY <1>1, <1>3, <1>4, <2>1, <3>3 DEF NewIds
      <4> QED BY <1>1, <2>1, <3>1, <3>3, <4>1
    <3> QED BY <1>3, <3>2, <3>3
  <2>2. offset' <= cursor' /\ nBuilt' >= 1
    BY <1>1 DEF LogInv, RecordShape
  <2>3. \A q \in pending' : q.n = 0 => q.src = {} /\ (mode' = "watch" => working' = {})
    BY <1>1 DEF LogInv, RecordShape
  <2>4. UseStore => \A i \in working' : i <= cursor'
    BY <1>1 DEF LogInv, RecordShape
  <2>5. (mode' = "watch" /\ pc' \in {"summary", "poll"}) => working' = {}
    BY <1>1, <1>3, <1>4
  <2> QED BY <1>1, <2>1, <2>2, <2>3, <2>4, <2>5 DEF RecordShape
<1>6. AppliedDistinct'
  BY <1>1, <1>2 DEF LogInv, AppliedDistinct
<1>7. LinesAgree'
  BY <1>1, <1>2 DEF LogInv, LinesAgree, NoIdTwice, CleanLog
<1>8. WindowStored'
  <2> SUFFICES ASSUME UseStore PROVE WindowStored'
    BY DEF WindowStored
  <2>1. /\ toRecord \subseteq Window /\ \A i \in toRecord : log[i].id \notin StoreSeen \cup {NoId}
        /\ \A q \in pending : q.src \subseteq Window /\ IdsOf(q.src) \cap StoreSeen = {}
        /\ (Cardinality(IdsOf(Window)) <= MaxIds) => (\A e \in IdsOf(Window) : Waits(e) \/ Recent(e))
    BY <1>1 DEF LogInv, WindowStored
  <2>2. /\ toRecord' \subseteq Window /\ \A i \in toRecord' : log[i].id \notin StoreSeen \cup {NoId}
    BY <1>1, <2>1 DEF NewIds
  <2>3. ASSUME NEW e, Waits(e) PROVE Waits(e)'
    <3>1. CASE e \in IdsOf(toRecord) \cup IdsOf(r.src)
      <4>1. PICK i \in toRecord \cup r.src : e = log[i].id /\ e # NoId
        BY <3>1 DEF IdsOf
      <4>2. e \notin StoreSeen
        <5>1. CASE i \in toRecord
          BY <2>1, <4>1, <5>1
        <5>2. CASE i \in r.src
          <6>1. e \in IdsOf(r.src) /\ IdsOf(r.src) \cap StoreSeen = {}
            BY <2>1, <4>1, <5>2 DEF IdsOf
          <6> QED BY <6>1
        <5> QED BY <4>1, <5>1, <5>2
      <4>3. i \in toRecord'
        BY <1>1, <4>1, <4>2 DEF NewIds
      <4>4. e \in IdsOf(toRecord')
        BY <4>1, <4>3 DEF IdsOf
      <4>5. IdsOf(toRecord)' = IdsOf(toRecord')
        BY <1>1 DEF IdsOf
      <4> QED BY <4>4, <4>5 DEF Waits
    <3>2. CASE \E q \in pending : q # r /\ e \in IdsOf(q.src)
      <4>1. \E q \in pending' : e \in IdsOf(q.src)'
        BY <1>1, <1>2, <3>2
      <4> QED BY <4>1 DEF Waits
    <3> QED BY <2>3, <3>1, <3>2 DEF Waits
  <2>4. \A e : Recent(e) => Recent(e)'
    BY <1>1, <1>2 DEF Recent, IdsOf
  <2>5. IdsOf(Window)' = IdsOf(Window)
    BY <1>1, <1>2 DEF IdsOf
  <2>6. \A q \in pending' : q.src \subseteq Window' /\ IdsOf(q.src)' \cap StoreSeen' = {}
    BY <1>1, <1>2, <2>1
  <2> QED BY <1>1, <1>2, <2>1, <2>2, <2>3, <2>4, <2>5, <2>6 DEF WindowStored
<1> QED BY <1>5, <1>6, <1>7, <1>8 DEF LogInv

\* Appending an id that is new leaves no id on two lines.
LEMMA AppendedOnce ==
    ASSUME NEW s \in Seq(EventIds \cup {Torn}), NEW e \in EventIds \cup {Torn}, NoIdTwice(s),
           e # Torn => e \notin {s[k] : k \in 1..Len(s)}
    PROVE  NoIdTwice(Append(s, e))
<1>1. /\ Len(Append(s, e)) = Len(s) + 1 /\ Len(s) \in Nat
      /\ \A k \in 1..(Len(s) + 1) : Append(s, e)[k] = IF k <= Len(s) THEN s[k] ELSE e
  OBVIOUS
<1> SUFFICES ASSUME NEW j \in 1..(Len(s) + 1), NEW k \in 1..(Len(s) + 1), j # k,
                    Append(s, e)[j] = Append(s, e)[k]
             PROVE  Append(s, e)[j] = Torn
  BY <1>1 DEF NoIdTwice
<1>2. CASE j <= Len(s) /\ k <= Len(s)
  BY <1>1, <1>2 DEF NoIdTwice
<1>3. CASE j <= Len(s) /\ k = Len(s) + 1
  BY <1>1, <1>3
<1>4. CASE j = Len(s) + 1 /\ k <= Len(s)
  BY <1>1, <1>4
<1> QED BY <1>1, <1>2, <1>3, <1>4

\* A recorded id is the newest line, in the log and in memory.
LEMMA RecordLog ==
    ASSUME PipelineInv, LogInv, NEW i \in toRecord, RecordId(i)
    PROVE  LogInv'
<1>0. PICK e : e = log[i].id
  OBVIOUS
<1>1. /\ UNCHANGED <<log, offset, cursor, seen, working, pending, nBuilt, mode>>
      /\ pc = "record" /\ storeIds' = Append(storeIds, e) /\ Active /\ Active'
      /\ dedupFile' = IF torn THEN dedupFile ELSE Append(dedupFile, e)
      /\ torn' = FALSE /\ toRecord' = toRecord \ {i}
      /\ pc' = IF toRecord' = {} THEN "compact" ELSE "record"
  BY <1>0 DEF RecordId, session, output, Active
<1>2. UseStore /\ toRecord \subseteq Window /\ \A j \in toRecord : log[j].id \notin StoreSeen \cup {NoId}
  BY <1>1 DEF LogInv, RecordShape, WindowStored
<1>3. e \in IdsOf(Window) /\ e \in EventIds /\ e \notin StoreSeen /\ e # Torn /\ e # NoId
  <2>1. e \in IdsOf(Window) /\ e \notin StoreSeen /\ e # NoId
    BY <1>0, <1>2 DEF IdsOf
  <2>2. IdsOf(Window) \subseteq EventIds
    BY CycleTyped
  <2> QED BY <2>1, <2>2, ConstantsAssumption
<1>4. \A j \in toRecord : j # i => log[j].id # e
  <2>1. i \in working /\ toRecord \subseteq working
    BY <1>2, CycleTyped
  <2> QED BY <1>0, <1>3, <2>1 DEF LogInv, AppliedDistinct
<1>5. pending = {}
  BY <1>1 DEF PipelineInv, PendingShape
<1>6. /\ storeIds \in Seq(EventIds \cup {Torn}) /\ dedupFile \in Seq(EventIds \cup {Torn})
      /\ e \in EventIds \cup {Torn}
  BY <1>3, CycleTyped
<1>7. StoreSeen' = StoreSeen \cup {e}
  <2>1. {Append(storeIds, e)[k] : k \in 1..Len(Append(storeIds, e))}
           = {storeIds[k] : k \in 1..Len(storeIds)} \cup {e}
    BY <1>6, LinesAppend
  <2> QED BY <1>1, <2>1, Zenon DEF StoreSeen
<1>8. e \notin {dedupFile[k] : k \in 1..Len(dedupFile)}
  BY <1>1, <1>2, <1>3 DEF PipelineInv, StoreKnown, DurableIds
<1>9. /\ Window' = Window /\ \A S : IdsOf(S)' = IdsOf(S)
  BY <1>1 DEF Window, EventsIn, IsEvent, IdsOf
<1>10. RecordShape'
  BY <1>1, <1>2, <1>5 DEF LogInv, RecordShape
<1>11. AppliedDistinct'
  BY <1>1, <1>9 DEF LogInv, AppliedDistinct
<1>12. LinesAgree'
  <2>1. NoIdTwice(storeIds')
    <3>1. e \notin {storeIds[k] : k \in 1..Len(storeIds)}
      BY <1>3 DEF StoreSeen
    <3> QED BY <1>1, <1>6, <3>1, AppendedOnce DEF LogInv, LinesAgree
  <2>2. NoIdTwice(dedupFile')
    <3>1. NoIdTwice(Append(dedupFile, e)) /\ NoIdTwice(dedupFile)
      BY <1>6, <1>8, AppendedOnce DEF LogInv, LinesAgree
    <3> QED BY <1>1, <3>1
  <2>3. CleanLog' => dedupFile' = storeIds'
    <3>1. CleanLog' => CleanLog
      BY <1>7 DEF CleanLog
    <3>2. CleanLog => dedupFile = storeIds /\ ~torn
      BY <1>1, <1>2 DEF LogInv, LinesAgree
    <3> QED BY <1>1, <3>1, <3>2
  <2> QED BY <1>1, <2>1, <2>2, <2>3 DEF LinesAgree, NoIdTwice
<1>13. WindowStored'
  <2>1. IdsOf(Window)' = IdsOf(Window) /\ IdsOf(toRecord)' = IdsOf(toRecord')
    BY <1>1, <1>9 DEF IdsOf
  <2>2. \A k \in 1..(Len(storeIds) + 1) : storeIds'[k] = IF k <= Len(storeIds) THEN storeIds[k] ELSE e
    BY <1>1, <1>6
  <2>3. Len(storeIds') = Len(storeIds) + 1 /\ Len(storeIds) \in Nat
    BY <1>1, <1>6
  <2>4. Recent(e)'
    <3>1. Len(storeIds) + 1 \in 1..Len(storeIds') /\ storeIds'[Len(storeIds) + 1] = e
      BY <2>2, <2>3
    <3>2. \A l \in (Len(storeIds) + 1)..Len(storeIds') : storeIds'[l] \in IdsOf(Window)
      BY <1>3, <2>2, <2>3
    <3> QED BY <2>1, <3>1, <3>2 DEF Recent
  <2>5. ASSUME NEW x, Recent(x) PROVE Recent(x)'
    <3>1. PICK k \in 1..Len(storeIds) :
              storeIds[k] = x /\ \A l \in k..Len(storeIds) : storeIds[l] \in IdsOf(Window)
      BY <2>5 DEF Recent
    <3>2. k \in 1..Len(storeIds') /\ storeIds'[k] = x
      BY <2>2, <2>3, <3>1
    <3>3. \A l \in k..Len(storeIds') : storeIds'[l] \in IdsOf(Window)
      BY <1>3, <2>2, <2>3, <3>1
    <3> QED BY <2>1, <3>2, <3>3 DEF Recent
  <2>6. ASSUME NEW x, Waits(x) PROVE Waits(x)' \/ x = e
    <3>1. PICK j \in toRecord : x = log[j].id /\ x # NoId
      BY <1>5, <2>6 DEF Waits, IdsOf
    <3>2. j # i => x \in IdsOf(toRecord')
      BY <1>1, <3>1 DEF IdsOf
    <3> QED BY <1>0, <2>1, <3>1, <3>2 DEF Waits
  <2>7. \A x \in IdsOf(Window) :
            Cardinality(IdsOf(Window)) <= MaxIds => Waits(x) \/ Recent(x)
    BY <1>1, <1>2 DEF LogInv, WindowStored
  <2>8. toRecord' \subseteq Window' /\ \A j \in toRecord' : log'[j].id \notin StoreSeen' \cup {NoId}
    BY <1>1, <1>2, <1>4, <1>7, <1>9
  <2>9. \A r \in pending' : FALSE
    BY <1>1, <1>5
  <2> QED BY <2>1, <2>4, <2>5, <2>6, <2>7, <2>8, <2>9 DEF WindowStored
<1> QED BY <1>10, <1>11, <1>12, <1>13 DEF LogInv

\* The newest lines of an id log, by position.
LEMMA NewestLines ==
    ASSUME NEW s \in Seq(EventIds \cup {Torn})
    PROVE  \E d \in Nat : /\ Len(Newest(s)) = Len(s) - d /\ d <= Len(s) /\ Len(s) \in Nat
                         /\ d = (IF Len(s) > MaxIds THEN Len(s) - MaxIds ELSE 0)
                         /\ \A k \in 1..(Len(s) - d) : Newest(s)[k] = s[d + k]
<1>1. CASE Len(s) > MaxIds
  <2> DEFINE m == Len(s) - MaxIds + 1
  <2>1. m \in 1..Len(s) /\ Newest(s) = SubSeq(s, m, Len(s)) /\ MaxIds \in Nat /\ Len(s) \in Nat
    BY <1>1, ConstantsAssumption DEF Newest
  <2>2. /\ Len(Newest(s)) = Len(s) - m + 1
        /\ \A k \in 1..(Len(s) - m + 1) : Newest(s)[k] = s[m + k - 1]
    <3>1. Len(Newest(s)) = Len(s) - m + 1
      BY <2>1
    <3>2. ASSUME NEW k \in 1..(Len(s) - m + 1) PROVE Newest(s)[k] = s[m + k - 1]
      BY <2>1
    <3> QED BY <3>1, <3>2
  <2>3. m - 1 \in Nat /\ m - 1 = Len(s) - MaxIds
    BY <2>1
  <2>4. \A k \in 1..(Len(s) - (m - 1)) : k \in 1..(Len(s) - m + 1) /\ (m - 1) + k = m + k - 1
    BY <2>1
  <2> HIDE DEF m
  <2>5. /\ Len(Newest(s)) = Len(s) - (m - 1) /\ m - 1 <= Len(s)
        /\ \A k \in 1..(Len(s) - (m - 1)) : Newest(s)[k] = s[(m - 1) + k]
    BY <2>1, <2>2, <2>3, <2>4
  <2> QED BY <1>1, <2>1, <2>3, <2>5
<1>2. CASE ~(Len(s) > MaxIds)
  <2>1. Newest(s) = s /\ Len(s) \in Nat /\ \A k \in 1..Len(s) : 0 + k = k
    BY <1>2 DEF Newest
  <2> QED BY <1>2, <2>1
<1> QED BY <1>1, <1>2

\* Compaction drops no id of a cycle that is not too long.
LEMMA CompactLog ==
    ASSUME PipelineInv, LogInv, Compact
    PROVE  LogInv'
<1>1. /\ UNCHANGED <<log, offset, torn, cursor, seen, working, pending, nBuilt, toRecord, mode>>
      /\ pc = "compact" /\ storeIds' = Newest(storeIds) /\ Active /\ Active'
      /\ dedupFile' = IF Len(storeIds) > MaxIds THEN Newest(storeIds) ELSE dedupFile
      /\ pc' \in {"apply", "commit"} /\ (mode = "rolling" => pc' = "commit")
  BY DEF Compact, session, output, Active
<1>2. pending = {} /\ toRecord = {} /\ ~torn
  BY <1>1 DEF PipelineInv, PendingShape, LogInv, RecordShape, LinesAgree
<1>3. storeIds \in Seq(EventIds \cup {Torn})
  BY CycleTyped
<1>4. PICK d \in Nat : /\ Len(storeIds') = Len(storeIds) - d /\ d <= Len(storeIds) /\ Len(storeIds) \in Nat
                       /\ d = (IF Len(storeIds) > MaxIds THEN Len(storeIds) - MaxIds ELSE 0)
                       /\ \A k \in 1..(Len(storeIds) - d) : storeIds'[k] = storeIds[d + k]
  BY <1>1, <1>3, NewestLines
<1>5. /\ Window' = Window /\ \A S : IdsOf(S)' = IdsOf(S)
  BY <1>1 DEF Window, EventsIn, IsEvent, IdsOf
<1>6. RecordShape'
  BY <1>1, <1>2 DEF LogInv, RecordShape
<1>7. AppliedDistinct'
  BY <1>1, <1>5 DEF LogInv, AppliedDistinct
<1>8. NoIdTwice(storeIds')
  <2> SUFFICES ASSUME NEW j \in 1..Len(storeIds'), NEW k \in 1..Len(storeIds'), j # k, storeIds'[j] = storeIds'[k]
               PROVE  storeIds'[j] = Torn
    BY DEF NoIdTwice
  <2>0. j \in 1..(Len(storeIds) - d) /\ k \in 1..(Len(storeIds) - d)
    BY <1>4
  <2>1. /\ storeIds'[j] = storeIds[d + j] /\ storeIds'[k] = storeIds[d + k]
        /\ d + j \in 1..Len(storeIds) /\ d + k \in 1..Len(storeIds) /\ d + j # d + k
    <3>1. d + j \in 1..Len(storeIds) /\ d + k \in 1..Len(storeIds) /\ d + j # d + k
      <4>1. Len(storeIds) \in Nat /\ d \in Nat /\ j # k
        BY <1>4
      <4> QED BY <2>0, <4>1
    <3> QED BY <1>4, <2>0, <3>1
  <2>2. NoIdTwice(storeIds)
    BY DEF LogInv, LinesAgree
  <2> QED BY <2>1, <2>2 DEF NoIdTwice
<1>9. LinesAgree'
  <2>1. CASE Len(storeIds) > MaxIds
    <3>1. dedupFile' = storeIds'
      BY <1>1, <2>1
    <3> QED BY <1>1, <1>2, <1>8, <3>1 DEF LinesAgree, NoIdTwice
  <2>2. CASE ~(Len(storeIds) > MaxIds)
    <3>1. dedupFile' = dedupFile /\ storeIds' = storeIds /\ StoreSeen' = StoreSeen
      BY <1>1, <2>2 DEF Newest, StoreSeen
    <3> QED BY <1>1, <1>2, <3>1 DEF LogInv, LinesAgree, NoIdTwice, CleanLog
  <2> QED BY <2>1, <2>2
<1>10. WindowStored'
  <2> SUFFICES ASSUME UseStore PROVE WindowStored'
    BY DEF WindowStored
  <2>1. IdsOf(Window)' = IdsOf(Window)
    BY <1>1, <1>5 DEF IdsOf
  <2>2. ASSUME Cardinality(IdsOf(Window)) <= MaxIds, NEW e \in IdsOf(Window)
        PROVE  Recent(e)'
    <3>1. ~Waits(e)
      BY <1>2 DEF Waits, IdsOf
    <3>2. Recent(e)
      BY <1>1, <2>2, <3>1 DEF LogInv, WindowStored
    <3>3. PICK k \in 1..Len(storeIds) :
              storeIds[k] = e /\ \A l \in k..Len(storeIds) : storeIds[l] \in IdsOf(Window)
      BY <3>2 DEF Recent
    <3>4. k > d
      <4>1. CASE d = 0
        BY <3>3, <4>1
      <4>2. CASE d # 0 /\ k <= d
        <5> DEFINE f == [l \in k..Len(storeIds) |-> storeIds[l]]
        <5>1. f \in [k..Len(storeIds) -> IdsOf(Window)]
          BY <3>3
        <5>2. ASSUME NEW l \in k..Len(storeIds), NEW m \in k..Len(storeIds), f[l] = f[m] PROVE l = m
          <6>1. NoIdTwice(storeIds) /\ storeIds[l] # Torn
            <7>1. IdsOf(Window) \subseteq EventIds
              BY CycleTyped
            <7> QED BY <3>3, <7>1, ConstantsAssumption DEF LogInv, LinesAgree
          <6>2. l \in 1..Len(storeIds) /\ m \in 1..Len(storeIds)
            BY <1>4, <3>3
          <6> QED BY <5>2, <6>1, <6>2 DEF NoIdTwice
        <5> HIDE DEF f
        <5>3. f \in Injection(k..Len(storeIds), IdsOf(Window))
          <6>1. IsInjective(f)
            BY <5>1, <5>2 DEF IsInjective
          <6> QED BY <5>1, <6>1 DEF Injection
        <5>4. IsFiniteSet(IdsOf(Window))
          BY CycleTyped
        <5>5. Cardinality(k..Len(storeIds)) <= Cardinality(IdsOf(Window))
          BY <5>3, <5>4, FS_Injection
        <5>6. Cardinality(k..Len(storeIds)) = Len(storeIds) - k + 1
          <6>1. k \in Int /\ Len(storeIds) \in Int /\ ~(k > Len(storeIds))
            BY <1>4, <3>3
          <6> QED BY <6>1, FS_Interval
        <5>7. Cardinality(IdsOf(Window)) \in Nat /\ MaxIds \in Nat
          BY <5>4, FS_CardinalityType, ConstantsAssumption
        <5>8. d = Len(storeIds) - MaxIds
          BY <1>4, <4>2
        <5> QED BY <1>4, <2>2, <3>3, <4>2, <5>5, <5>6, <5>7, <5>8
      <4> QED BY <1>4, <3>3, <4>1, <4>2
    <3>5. k - d \in 1..Len(storeIds') /\ storeIds'[k - d] = e
      <4>1. k - d \in 1..(Len(storeIds) - d) /\ d + (k - d) = k
        BY <1>4, <3>3, <3>4
      <4> QED BY <1>4, <3>3, <4>1
    <3>6. ASSUME NEW l \in (k - d)..Len(storeIds') PROVE storeIds'[l] \in IdsOf(Window)
      <4>1. l \in 1..(Len(storeIds) - d) /\ d + l \in k..Len(storeIds)
        BY <1>4, <3>3, <3>4
      <4> QED BY <1>4, <3>3, <4>1
    <3> QED BY <2>1, <3>5, <3>6 DEF Recent
  <2> QED BY <1>1, <1>2, <2>1, <2>2 DEF WindowStored
<1> QED BY <1>6, <1>7, <1>9, <1>10 DEF LogInv

\* Committing the offsets closes the cycle, and draining again starts one.
LEMMA CycleLog ==
    ASSUME PipelineInv, LogInv, CommitWatch \/ DrainWatch
    PROVE  LogInv'
<1>1. /\ UNCHANGED <<log, dedupFile, torn, storeIds, seen, working, pending, nBuilt, toRecord, mode>>
      /\ pc \in {"commit", "poll"} /\ Active /\ Active' /\ pc' \in {"summary", "poll", "apply"}
  BY DEF CommitWatch, DrainWatch, session, output, durable, Active
<1>2. pending = {} /\ toRecord = {}
  BY <1>1 DEF PipelineInv, PendingShape, LogInv, RecordShape
<1>3. CASE UseStore
  <2>1. /\ offset' \in Nat /\ cursor' \in Nat /\ cursor' <= offset'
        /\ \A i \in working : i <= offset' /\ i <= cursor'
        /\ pc' = "apply" => offset' = cursor'
        /\ mode' = "watch"
    <3>1. offset \in Nat /\ cursor \in Nat /\ position \in Nat /\ working \subseteq Nat
      BY CycleTyped
    <3>2. CASE CommitWatch
      <4>1. offset' = position /\ cursor' = cursor /\ cursor <= position /\ pc' # "apply" /\ mode' = "watch"
        BY <1>1, <1>3, <3>2 DEF CommitWatch, CommitTo, UseStore, session, PipelineInv, Positions
      <4>2. \A i \in working : i <= cursor
        BY <1>1, <1>3 DEF LogInv, RecordShape
      <4> QED BY <3>1, <4>1, <4>2
    <3>3. CASE DrainWatch
      <4>1. offset' = offset /\ cursor' = offset /\ pc = "poll"
        BY <3>3 DEF DrainWatch, durable
      <4>2. mode = "watch"
        BY <4>1 DEF LogInv, RecordShape
      <4>3. \A i \in working : i <= offset
        BY <1>3, <4>1, <4>2 DEF LogInv, RecordShape
      <4> QED BY <1>1, <3>1, <4>1, <4>2, <4>3
    <3> QED BY <3>2, <3>3
  <2>2. Window' = {}
    BY <2>1 DEF Window, EventsIn
  <2>3. RecordShape'
    BY <1>1, <1>2, <2>1 DEF LogInv, RecordShape
  <2>4. AppliedDistinct' /\ LinesAgree'
    BY <1>1 DEF LogInv, AppliedDistinct, LinesAgree, NoIdTwice, CleanLog, IdsOf, StoreSeen
  <2> QED BY <1>1, <1>2, <2>2, <2>3, <2>4, FreshCycle
<1>4. CASE ~UseStore
  <2>1. RecordShape'
    <3>1. pc' = "apply" => offset' <= cursor'
      <4>1. offset \in Nat
        BY CycleTyped
      <4> QED BY <4>1 DEF CommitWatch, DrainWatch, durable
    <3>2. mode = "watch" /\ mode' = mode
      BY DEF CommitWatch, DrainWatch, LogInv, RecordShape
    <3> QED BY <1>1, <1>2, <1>4, <3>1, <3>2 DEF LogInv, RecordShape
  <2>2. AppliedDistinct' /\ LinesAgree'
    BY <1>1 DEF LogInv, AppliedDistinct, LinesAgree, NoIdTwice, CleanLog, IdsOf, StoreSeen
  <2>3. WindowStored'
    BY <1>4 DEF WindowStored, UseStore
  <2> QED BY <2>1, <2>2, <2>3 DEF LogInv
<1> QED BY <1>3, <1>4

-----------------------------------------------------------------------------
(* The id log: the invariant *)

LEMMA LogKept == PipelineInv /\ HistoryInv /\ LogInv /\ [Next]_vars => LogInv'
<1> SUFFICES ASSUME PipelineInv, HistoryInv, LogInv, [Next]_vars PROVE LogInv'
  OBVIOUS
<1>1. CASE \E m \in Messages : Produce(m)
  BY <1>1, ProduceLog
<1>2. CASE StartWatch \/ DrainRolling
  BY <1>2, BeginLog DEF StartWatch, DrainRolling, Active
<1>3. CASE \E b \in 1..Len(log) : ApplyBatch(b)
  BY <1>3, ApplyLog
<1>4. CASE \E r \in pending : WriteRevision(r)
  BY <1>4, WriteLog
<1>5. CASE \E i \in toRecord : RecordId(i)
  BY <1>5, RecordLog
<1>6. CASE Compact
  BY <1>6, CompactLog
<1>7. CASE CommitWatch \/ DrainWatch
  BY <1>7, CycleLog
<1>8. CASE DrainFails \/ StopWatch \/ CommitRolling \/ Crash
  <2>1. ProcessGone /\ UNCHANGED <<log, dedupFile, torn>>
    BY <1>8 DEF DrainFails, StopWatch, CommitRolling, Crash, durable
  <2> QED BY <2>1, GoneLog DEF LogInv, LinesAgree
<1>9. CASE CrashTorn
  <2>1. /\ ProcessGone /\ log' = log
        /\ dedupFile' = IF torn THEN dedupFile ELSE Append(dedupFile, Torn)
    BY <1>9 DEF CrashTorn
  <2>2. dedupFile \in Seq(EventIds \cup {Torn}) /\ NoIdTwice(dedupFile)
    BY CycleTyped DEF LogInv, LinesAgree
  <2>3. CASE torn
    BY <2>1, <2>2, <2>3, GoneLog DEF LogInv, LinesAgree
  <2>4. CASE ~torn
    <3>1. dedupFile' = Append(dedupFile, Torn)
      BY <2>1, <2>4
    <3>2. NoIdTwice(dedupFile')
      BY <2>2, <3>1, AppendedOnce
    <3>3. {Append(dedupFile, Torn)[k] : k \in 1..Len(Append(dedupFile, Torn))}
            = {dedupFile[k] : k \in 1..Len(dedupFile)} \cup {Torn}
      BY <2>2, LinesAppend
    <3>4. Torn \in {dedupFile'[k] : k \in 1..Len(dedupFile')}
      BY <3>1, <3>3, Zenon
    <3> QED BY <2>1, <3>2, <3>4, GoneLog
  <2> QED BY <2>3, <2>4
<1>10. CASE StartRolling \/ FinishDrain \/ WriteSummary \/ UNCHANGED vars
  <2>1. /\ UNCHANGED <<log, offset, cursor, working, seen, dedupFile, torn, storeIds, toRecord, pending, nBuilt>>
        /\ Active' => Active
    BY <1>10 DEF StartRolling, FinishDrain, WriteSummary, Active, vars, durable, session, output
  <2>2. pc' = "compact" => pc = "compact"
    BY <1>10 DEF StartRolling, FinishDrain, WriteSummary, vars
  <2>3. RecordShape'
    <3>1. CASE StartRolling
      <4>1. pc = "off" /\ pc' = "drain" /\ toRecord = {} /\ pending = {}
        BY <3>1 DEF StartRolling, LogInv, RecordShape, PipelineInv, PendingShape
      <4> QED BY <2>1, <4>1 DEF RecordShape, Active
    <3>2. CASE FinishDrain
      <4>1. pc = "apply" /\ pc' = (IF mode = "watch" THEN "commit" ELSE "write") /\ mode' = mode
        BY <3>2 DEF FinishDrain
      <4> QED BY <2>1, <4>1 DEF LogInv, RecordShape, Active
    <3>3. CASE WriteSummary
      <4>1. /\ pc = "summary" /\ mode' = mode
            /\ pc' = IF mode = "watch" THEN "poll" ELSE IF toRecord # {} THEN "record" ELSE "commit"
        BY <3>3 DEF WriteSummary
      <4>2. mode \in {"watch", "rolling"}
        BY DEF PipelineInv, TypeOK
      <4> QED BY <2>1, <4>1, <4>2 DEF LogInv, RecordShape, Active
    <3>4. CASE UNCHANGED vars
      BY <3>4 DEF vars, durable, session, output, LogInv, RecordShape, Active
    <3> QED BY <1>10, <3>1, <3>2, <3>3, <3>4
  <2> QED BY <2>1, <2>2, <2>3, QuietLog
<1> QED BY <1>1, <1>2, <1>3, <1>4, <1>5, <1>6, <1>7, <1>8, <1>9, <1>10 DEF Next, Start, Step

-----------------------------------------------------------------------------
(* The id log: the ids of the backlog *)

\* Ids of a part are ids of the whole, and the ids of entries are events'.
LEMMA PartIds ==
    ASSUME PipelineInv
    PROVE  /\ \A S, T : S \subseteq T => IdsOf(S) \subseteq IdsOf(T)
           /\ Reach \in 0..Len(log) /\ OpenIds \subseteq EventIds /\ IsFiniteSet(OpenIds)
           /\ OldIds \subseteq EventIds /\ Torn \notin OpenIds
<1>1. \A S, T : S \subseteq T => IdsOf(S) \subseteq IdsOf(T)
  BY DEF IdsOf
<1>2. Reach \in 0..Len(log) /\ offset \in 0..Len(log) /\ Len(log) \in Nat
  BY CycleTyped DEF Reach
<1>3. (offset + 1)..Reach \subseteq 1..Len(log) /\ 1..offset \subseteq 1..Len(log)
  BY <1>2
<1> QED BY <1>1, <1>2, <1>3, CycleTyped, ConstantsAssumption DEF OpenIds, OldIds

\* Entries come to the backlog and leave it for the committed ones, and the
\* lines stay as old as they are.
LEMMA AgedOn ==
    ASSUME NEW s, NEW old, NEW open, NEW old2, NEW open2, Aged(s, old, open), old \subseteq old2,
           open \subseteq open2 \/ open \subseteq old2
    PROVE  Aged(s, old2, open2)
<1> SUFFICES ASSUME NEW k \in 1..Len(s), s[k] \notin old2 \cup {Torn}, NEW l \in k..Len(s)
             PROVE  s[l] \in open2 \cup {Torn}
  BY DEF Aged
<1>1. \A m \in k..Len(s) : s[m] \in open \cup {Torn}
  BY DEF Aged
<1>2. k \in k..Len(s)
  BY <1>1
<1> QED BY <1>1, <1>2

\* A torn line, or a new one of the backlog, behind an aged log.
LEMMA AgedAppend ==
    ASSUME NEW s \in Seq(EventIds \cup {Torn}), NEW x \in EventIds \cup {Torn}, NEW old, NEW open,
           Aged(s, old, open), x \in open \cup {Torn}
    PROVE  Aged(Append(s, x), old, open)
<1>1. /\ Len(Append(s, x)) = Len(s) + 1 /\ Len(s) \in Nat
      /\ \A k \in 1..(Len(s) + 1) : Append(s, x)[k] = IF k <= Len(s) THEN s[k] ELSE x
  OBVIOUS
<1> SUFFICES ASSUME NEW k \in 1..(Len(s) + 1), Append(s, x)[k] \notin old \cup {Torn},
                    NEW l \in k..(Len(s) + 1)
             PROVE  Append(s, x)[l] \in open \cup {Torn}
  BY <1>1 DEF Aged
<1>2. CASE l = Len(s) + 1
  BY <1>1, <1>2
<1>3. CASE l # Len(s) + 1
  <2>1. k \in 1..Len(s) /\ l \in k..Len(s) /\ l \in 1..(Len(s) + 1)
    BY <1>1, <1>3
  <2> QED BY <1>1, <2>1 DEF Aged
<1> QED BY <1>2, <1>3

\* Compaction keeps the end of the log.
LEMMA AgedNewest ==
    ASSUME NEW s \in Seq(EventIds \cup {Torn}), NEW old, NEW open, Aged(s, old, open)
    PROVE  Aged(Newest(s), old, open)
<1>1. PICK d \in Nat : /\ Len(Newest(s)) = Len(s) - d /\ d <= Len(s) /\ Len(s) \in Nat
                       /\ \A k \in 1..(Len(s) - d) : Newest(s)[k] = s[d + k]
  BY NewestLines
<1> SUFFICES ASSUME NEW k \in 1..(Len(s) - d), Newest(s)[k] \notin old \cup {Torn}, NEW l \in k..(Len(s) - d)
             PROVE  Newest(s)[l] \in open \cup {Torn}
  BY <1>1 DEF Aged
<1>2. /\ d + k \in 1..Len(s) /\ d + l \in (d + k)..Len(s) /\ l \in 1..(Len(s) - d)
  BY <1>1
<1> QED BY <1>1, <1>2 DEF Aged

\* What a step that commits nothing leaves of the committed and the open ids.
LEMMA IdsStay ==
    ASSUME PipelineInv, \A i \in 1..Len(log) : log'[i] = log[i], offset' = offset,
           Reach' \in Nat, Reach <= Reach'
    PROVE  OldIds' = OldIds /\ OpenIds \subseteq OpenIds' /\ (Reach' = Reach => OpenIds' = OpenIds)
<1>1. Reach \in 0..Len(log) /\ offset \in 0..Len(log) /\ Len(log) \in Nat
  BY PartIds, CycleTyped
<1>2. 1..offset \subseteq 1..Len(log) /\ (offset + 1)..Reach \subseteq 1..Len(log)
  BY <1>1
<1>3. \A i \in 1..offset : log'[i].id = log[i].id
  BY <1>2
<1>4. \A i \in (offset + 1)..Reach : log'[i].id = log[i].id
  BY <1>2
<1>5. OldIds' = {log'[i].id : i \in 1..offset} \ {NoId}
  BY DEF OldIds, IdsOf
<1>6. OpenIds' = {log'[i].id : i \in (offset + 1)..Reach'} \ {NoId}
  BY DEF OpenIds, IdsOf
<1>7. (offset + 1)..Reach \subseteq (offset + 1)..Reach'
  BY <1>1
<1>8. OldIds' = OldIds
  BY <1>3, <1>5 DEF OldIds, IdsOf
<1>9. OpenIds \subseteq OpenIds'
  BY <1>4, <1>6, <1>7 DEF OpenIds, IdsOf
<1>10. Reach' = Reach => OpenIds' = OpenIds
  BY <1>4, <1>6 DEF OpenIds, IdsOf
<1> QED BY <1>8, <1>9, <1>10

\* Steps of a running process that leave its cycle and its store as they are.
LEMMA QuietBacklog ==
    ASSUME PipelineInv, BacklogInv, Active' => Active, \A i \in 1..Len(log) : log'[i] = log[i],
           Len(log') \in Nat, Len(log) <= Len(log'),
           UNCHANGED <<offset, position, cursor, storeIds, dedupFile>>,
           \A e : Waits(e) => Waits(e)'
    PROVE  BacklogInv'
<1>1. /\ offset \in Nat /\ position \in Nat /\ cursor \in 0..Len(log) /\ Len(log) \in Nat /\ Reach \in Nat
  BY CycleTyped, PartIds
<1>2. Reach' \in Nat /\ Reach <= Reach' /\ (position > offset => Reach' = Reach)
  BY <1>1 DEF Reach
<1>3. OldIds' = OldIds /\ OpenIds \subseteq OpenIds' /\ (position > offset => OpenIds' = OpenIds)
  BY <1>2, IdsStay
<1>4. UseStore => Aged(dedupFile, OldIds, OpenIds)' /\ (Active' => Aged(storeIds, OldIds, OpenIds)')
  <2>1. UseStore => Aged(dedupFile, OldIds', OpenIds') /\ (Active' => Aged(storeIds, OldIds', OpenIds'))
    BY <1>3, AgedOn DEF BacklogInv
  <2> QED BY <2>1 DEF Aged
<1>5. ASSUME position > offset, NEW e, Held(e) PROVE Held(e)'
  BY <1>3, <1>5 DEF Held, BehindTorn, StoreSeen
<1>6. IdsOf((offset + 1)..cursor)' = IdsOf((offset + 1)..cursor)
  <2>1. \A i \in (offset + 1)..cursor : log'[i].id = log[i].id
    BY <1>1
  <2> QED BY <2>1 DEF IdsOf
<1> QED BY <1>3, <1>4, <1>5, <1>6 DEF BacklogInv

\* A process starts, or a cycle: it has handed nothing to the applicator.
LEMMA OpenBacklog ==
    ASSUME PipelineInv, BacklogInv, log' = log, UNCHANGED <<offset, dedupFile>>,
           position' \in {offset, Len(log)}, cursor' = offset,
           storeIds' = LoadedStore \/ (Active /\ storeIds' = storeIds)
    PROVE  BacklogInv'
<1>1. /\ offset \in 0..Len(log) /\ position \in 0..Len(log) /\ Len(log) \in Nat /\ Reach \in 0..Len(log)
  BY CycleTyped, PartIds
<1>2. Reach' \in Nat /\ Reach <= Reach'
  <2>1. Reach' = Len(log)
    BY <1>1 DEF Reach
  <2> QED BY <1>1, <2>1
<1>3. OldIds' = OldIds /\ OpenIds \subseteq OpenIds'
  BY <1>2, IdsStay
<1>4. UseStore => Aged(dedupFile, OldIds', OpenIds') /\ Aged(storeIds', OldIds', OpenIds')
  <2>1. UseStore => Aged(dedupFile, OldIds', OpenIds')
    BY <1>3, AgedOn DEF BacklogInv
  <2>2. (UseStore /\ Active) => Aged(storeIds, OldIds', OpenIds')
    BY <1>3, AgedOn DEF BacklogInv
  <2> QED BY <2>1, <2>2 DEF LoadedStore
<1>5. IdsOf((offset + 1)..cursor)' = {}
  <2>1. (offset + 1)..offset = {}
    BY <1>1
  <2> QED BY <2>1 DEF IdsOf
<1>6. UseStore => Aged(dedupFile, OldIds, OpenIds)' /\ Aged(storeIds, OldIds, OpenIds)'
  BY <1>4 DEF Aged
<1>7. UseStore' <=> UseStore
  BY DEF UseStore
<1>8. \A e \in IdsOf((offset + 1)..cursor)' \ OldIds' : Held(e)'
  BY <1>5
<1> QED BY <1>6, <1>7, <1>8 DEF BacklogInv

\* The process is gone, its entries are open again.
LEMMA GoneBacklog ==
    ASSUME PipelineInv, BacklogInv, ProcessGone, log' = log, offset' = offset,
           dedupFile' = dedupFile \/ dedupFile' = Append(dedupFile, Torn)
    PROVE  BacklogInv'
<1>1. /\ offset \in 0..Len(log) /\ position \in 0..Len(log) /\ Len(log) \in Nat /\ Reach \in 0..Len(log)
      /\ position' = 0 /\ ~Active' /\ dedupFile \in Seq(EventIds \cup {Torn})
  BY CycleTyped, PartIds DEF ProcessGone, Active
<1>2. Reach' \in Nat /\ Reach <= Reach'
  <2>1. Reach' = Len(log)
    BY <1>1 DEF Reach
  <2> QED BY <1>1, <2>1
<1>3. OldIds' = OldIds /\ OpenIds \subseteq OpenIds'
  BY <1>2, IdsStay
<1>4. UseStore => Aged(dedupFile', OldIds', OpenIds')
  <2>1. UseStore => Aged(dedupFile, OldIds', OpenIds')
    BY <1>3, AgedOn DEF BacklogInv
  <2>2. UseStore => Aged(Append(dedupFile, Torn), OldIds', OpenIds')
    BY <1>1, <2>1, AgedAppend
  <2> QED BY <2>1, <2>2
<1>5. UseStore => Aged(dedupFile, OldIds, OpenIds)'
  BY <1>4 DEF Aged
<1> QED BY <1>1, <1>5 DEF BacklogInv, UseStore

\* A commit makes every open id of the cycle an old one.
LEMMA CommitBacklog ==
    ASSUME PipelineInv, BacklogInv, CommitWatch \/ CommitRolling
    PROVE  BacklogInv'
<1>1. /\ log' = log /\ dedupFile' = dedupFile /\ pc = "commit" /\ Active /\ offset' = CommitTo
      /\ \/ position' = position /\ cursor' = cursor /\ storeIds' = storeIds
         \/ position' = 0 /\ ~Active'
  BY DEF CommitWatch, CommitRolling, ProcessGone, session, Active
<1>2. /\ offset \in 0..Len(log) /\ position \in 0..Len(log) /\ cursor \in Nat /\ Len(log) \in Nat
      /\ Reach \in 0..Len(log) /\ offset <= position
  BY <1>1, CycleTyped, PartIds DEF PipelineInv, Positions
<1>3. ASSUME UseStore PROVE offset' = position /\ OldIds \subseteq OldIds' /\ (OpenIds \subseteq OpenIds' \/ OpenIds \subseteq OldIds')
  <2>1. offset' = position
    BY <1>1, <1>3 DEF CommitTo, UseStore
  <2>2. OldIds' = IdsOf(1..position) /\ \A S : IdsOf(S)' = IdsOf(S)
    BY <1>1, <2>1 DEF OldIds, IdsOf
  <2>3. 1..offset \subseteq 1..position /\ (position > offset => (offset + 1)..Reach \subseteq 1..position)
    BY <1>2 DEF Reach
  <2>4. OldIds \subseteq OldIds' /\ (position > offset => OpenIds \subseteq OldIds')
    BY <2>2, <2>3, PartIds DEF OldIds, OpenIds
  <2>5. CASE position = offset
    <3>1. Reach' \in Nat /\ Reach <= Reach'
      <4>1. Reach' = Len(log)
        BY <1>1, <1>2, <2>1, <2>5 DEF Reach
      <4> QED BY <1>2, <4>1
    <3>2. OpenIds \subseteq OpenIds'
      BY <1>1, <2>1, <2>5, <3>1, IdsStay
    <3> QED BY <2>1, <2>4, <3>2
  <2>6. position = offset \/ position > offset
    BY <1>2
  <2> QED BY <2>1, <2>4, <2>5, <2>6
<1>4. UseStore => Aged(dedupFile, OldIds, OpenIds)'
  <2>1. UseStore => Aged(dedupFile, OldIds', OpenIds')
    BY <1>3, AgedOn DEF BacklogInv
  <2> QED BY <1>1, <2>1 DEF Aged
<1>5. (UseStore /\ Active') => Aged(storeIds, OldIds, OpenIds)'
  <2>1. UseStore => Aged(storeIds, OldIds', OpenIds')
    BY <1>1, <1>3, AgedOn DEF BacklogInv
  <2> QED BY <1>1, <2>1 DEF Aged
<1>6. (UseStore /\ Active') => ~(position' > offset')
  BY <1>1, <1>2, <1>3
<1> QED BY <1>4, <1>5, <1>6 DEF BacklogInv, UseStore

\* Steps that leave the cycle, with what they make of the lines.
LEMMA HeldOn ==
    ASSUME PipelineInv, UNCHANGED <<log, offset, position>>
    PROVE  /\ OldIds' = OldIds /\ OpenIds' = OpenIds /\ \A S : IdsOf(S)' = IdsOf(S)
           /\ \A s : Aged(s, OldIds, OpenIds) => Aged(s, OldIds', OpenIds')
<1>1. OldIds' = OldIds /\ OpenIds' = OpenIds /\ \A S : IdsOf(S)' = IdsOf(S)
  BY DEF OldIds, OpenIds, Reach, IdsOf
<1> QED BY <1>1

\* What a batch skips is held already, what it applies waits.
LEMMA ApplyBacklog ==
    ASSUME PipelineInv, LogInv, BacklogInv, NEW b \in 1..Len(log), ApplyBatch(b)
    PROVE  BacklogInv'
<1> DEFINE batch == EventsIn(cursor, b)
           new == [run |-> run, n |-> nBuilt, src |-> Applied(batch), reflects |-> WorkingAfter(Applied(batch))]
<1>1. /\ pc = "apply" /\ Active /\ cursor' = b /\ b \in EventsIn(cursor, position)
      /\ UNCHANGED <<log, offset, position, dedupFile, storeIds, toRecord>>
      /\ \/ pending' = pending /\ Applied(batch) = {}
         \/ pending' = pending \cup {new}
  BY DEF ApplyBatch, Active, durable, output
<1>2. new.src = Applied(batch)
  OBVIOUS
<1> HIDE DEF new
<1>3. /\ offset \in Nat /\ cursor \in Nat /\ b \in Nat /\ cursor < b /\ offset <= cursor
      /\ position \in 0..Len(log) /\ b <= position /\ working \subseteq 1..Len(log) /\ Len(log) \in Nat
  <2>1. offset <= cursor
    BY <1>1 DEF LogInv, RecordShape
  <2> QED BY <1>1, <2>1, CycleTyped DEF EventsIn
<1>4. /\ OldIds' = OldIds /\ OpenIds' = OpenIds /\ \A S : IdsOf(S)' = IdsOf(S)
  BY <1>1, HeldOn
<1>5. ASSUME NEW e, Held(e) PROVE Held(e)'
  <2>1. Waits(e) => Waits(e)'
    BY <1>1, <1>4 DEF Waits
  <2> QED BY <1>1, <1>4, <1>5, <2>1 DEF Held, StoreSeen, BehindTorn
<1>6. ASSUME UseStore, position > offset, Cardinality(OpenIds) <= MaxIds,
             NEW e \in IdsOf((offset + 1)..b), e \notin OldIds
      PROVE  Held(e)'
  <2>1. \A x \in IdsOf((offset + 1)..cursor) \ OldIds : Held(x)
    BY <1>1, <1>6 DEF BacklogInv
  <2>2. PICK i \in (offset + 1)..b : e = log[i].id /\ e # NoId
    BY <1>6 DEF IdsOf
  <2>3. CASE i <= cursor
    <3>1. i \in (offset + 1)..cursor
      BY <1>3, <2>3
    <3>2. e \in IdsOf((offset + 1)..cursor)
      BY <2>2, <3>1 DEF IdsOf
    <3> QED BY <1>5, <1>6, <2>1, <3>2
  <2>4. CASE i > cursor
    <3>1. i \in batch /\ batch \in SUBSET Nat
      <4>1. i \in (cursor + 1)..b /\ i \in 1..Len(log)
        BY <1>3, <2>4
      <4>2. log \in Seq(Messages)
        BY DEF PipelineInv, TypeOK
      <4>3. log[i] \in Messages
        BY <4>1, <4>2
      <4>4. IsEvent(i)
        BY <2>2, <4>3 DEF Messages, IsEvent
      <4>5. (cursor + 1)..b \subseteq Nat
        BY <1>3
      <4> QED BY <4>1, <4>4, <4>5 DEF EventsIn
    <3>2. CASE i \in Applied(batch)
      <4>1. e \in IdsOf(Applied(batch))
        BY <2>2, <3>2 DEF IdsOf
      <4>2. \E r \in pending' : r.src = Applied(batch)
        BY <1>1, <1>2, <3>2
      <4>3. \E r \in pending' : e \in IdsOf(r.src)'
        BY <1>4, <4>1, <4>2
      <4> QED BY <4>3 DEF Held, Waits
    <3>3. CASE e \in seen
      <4>1. PICK j \in working : e = log[j].id
        BY <3>3 DEF LogInv, AppliedDistinct, IdsOf
      <4>2. j \in 1..Len(log) /\ j <= cursor
        BY <1>1, <1>3, <1>6, <4>1 DEF LogInv, RecordShape
      <4>3. ~(j <= offset)
        <5>1. j <= offset => j \in 1..offset
          BY <1>3, <4>2
        <5> QED BY <1>6, <2>2, <4>1, <5>1 DEF OldIds, IdsOf
      <4>4. j \in (offset + 1)..cursor
        BY <1>3, <4>2, <4>3
      <4>5. e \in IdsOf((offset + 1)..cursor)
        BY <2>2, <4>1, <4>4 DEF IdsOf
      <4> QED BY <1>5, <1>6, <2>1, <4>5
    <3>4. CASE e \in StoreSeen
      BY <1>5, <3>4 DEF Held
    <3>5. CASE \E j \in Applied(batch) : log[j].id = log[i].id
      <4>1. e \in IdsOf(Applied(batch))
        BY <2>2, <3>5 DEF IdsOf
      <4>2. \E r \in pending' : r.src = Applied(batch)
        BY <1>1, <1>2, <3>5
      <4>3. \E r \in pending' : e \in IdsOf(r.src)'
        BY <1>4, <4>1, <4>2
      <4> QED BY <4>3 DEF Held, Waits
    <3> QED BY <2>2, <3>1, <3>2, <3>3, <3>4, <3>5, BatchAccounted
  <2>5. i \in Int
    BY <1>3, <2>2
  <2> QED BY <1>3, <2>3, <2>4, <2>5
<1>7. IdsOf((offset + 1)..cursor)' = IdsOf((offset + 1)..b)
  BY <1>1 DEF IdsOf
<1>8. UseStore => Aged(dedupFile, OldIds, OpenIds)' /\ Aged(storeIds, OldIds, OpenIds)'
  BY <1>1, <1>4 DEF BacklogInv, Aged
<1> QED BY <1>1, <1>4, <1>6, <1>7, <1>8 DEF BacklogInv, UseStore

\* An id recorded is one of the backlog, and has its line now.
LEMMA RecordBacklog ==
    ASSUME PipelineInv, LogInv, BacklogInv, NEW i \in toRecord, RecordId(i)
    PROVE  BacklogInv'
<1>0. PICK x : x = log[i].id
  OBVIOUS
<1>1. /\ UNCHANGED <<log, offset, position, cursor, pending>>
      /\ pc = "record" /\ storeIds' = Append(storeIds, x) /\ Active
      /\ dedupFile' \in {dedupFile, Append(dedupFile, x)}
      /\ toRecord' = toRecord \ {i}
  BY <1>0 DEF RecordId, session, output, Active
<1>2. UseStore /\ i \in Window /\ x \notin StoreSeen \cup {NoId} /\ i \in 1..Len(log)
  <2>1. UseStore
    BY DEF LogInv, RecordShape
  <2> QED BY <1>0, <1>1, <2>1, CycleTyped DEF LogInv, WindowStored
<1>3. /\ offset \in Nat /\ cursor \in Nat /\ position \in Nat /\ cursor <= position
      /\ storeIds \in Seq(EventIds \cup {Torn}) /\ dedupFile \in Seq(EventIds \cup {Torn})
  BY <1>1, CycleTyped DEF PipelineInv, Positions
<1>4. x \in OpenIds /\ x \in EventIds
  <2>1. i \in (offset + 1)..cursor
    BY <1>2 DEF Window, EventsIn
  <2>2. i \in (offset + 1)..Reach
    BY <1>3, <2>1 DEF Reach
  <2>3. x \in OpenIds
    BY <1>0, <1>2, <2>2 DEF OpenIds, IdsOf
  <2> QED BY <2>3, PartIds
<1>5. OldIds' = OldIds /\ OpenIds' = OpenIds /\ \A S : IdsOf(S)' = IdsOf(S)
  BY <1>1, HeldOn
<1>6. Aged(dedupFile', OldIds, OpenIds) /\ Aged(storeIds', OldIds, OpenIds)
  <2>1. Aged(dedupFile, OldIds, OpenIds) /\ Aged(storeIds, OldIds, OpenIds)
    BY <1>1, <1>2 DEF BacklogInv
  <2>2. Aged(Append(dedupFile, x), OldIds, OpenIds) /\ Aged(Append(storeIds, x), OldIds, OpenIds)
    BY <1>3, <1>4, <2>1, AgedAppend
  <2> QED BY <1>1, <2>1, <2>2
<1>7. StoreSeen' = StoreSeen \cup {x}
  <2>1. {Append(storeIds, x)[k] : k \in 1..Len(Append(storeIds, x))}
           = {storeIds[k] : k \in 1..Len(storeIds)} \cup {x}
    BY <1>3, <1>4, LinesAppend
  <2> QED BY <1>1, <2>1, Zenon DEF StoreSeen
<1>8. ASSUME NEW e, Held(e) PROVE Held(e)'
  <2>1. CASE e = x \/ e \in StoreSeen
    BY <1>7, <2>1 DEF Held
  <2>2. CASE e # x /\ Waits(e)
    <3>1. CASE \E r \in pending : e \in IdsOf(r.src)
      BY <1>1, <1>5, <3>1 DEF Held, Waits
    <3>2. CASE e \in IdsOf(toRecord)
      <4>1. PICK j \in toRecord : e = log[j].id /\ e # NoId
        BY <3>2 DEF IdsOf
      <4>2. j # i
        BY <1>0, <2>2, <4>1
      <4>3. e \in IdsOf(toRecord)'
        BY <1>1, <4>1, <4>2 DEF IdsOf
      <4> QED BY <4>3 DEF Held, Waits
    <3> QED BY <2>2, <3>1, <3>2 DEF Waits
  <2>3. CASE e # x /\ BehindTorn(storeIds, e, OpenIds)
    <3>1. PICK k \in 1..Len(storeIds) :
              storeIds[k] = Torn /\ \A l \in k..Len(storeIds) : storeIds[l] \in (OpenIds \ {e}) \cup {Torn}
      BY <2>3 DEF BehindTorn
    <3>2. /\ Len(storeIds') = Len(storeIds) + 1 /\ Len(storeIds) \in Nat
          /\ \A l \in 1..(Len(storeIds) + 1) : storeIds'[l] = IF l <= Len(storeIds) THEN storeIds[l] ELSE x
      BY <1>1, <1>3
    <3>3. k \in 1..Len(storeIds') /\ storeIds'[k] = Torn
      BY <3>1, <3>2
    <3>4. \A l \in k..Len(storeIds') : storeIds'[l] \in (OpenIds \ {e}) \cup {Torn}
      BY <1>4, <2>3, <3>1, <3>2
    <3>5. BehindTorn(storeIds', e, OpenIds)
      BY <3>3, <3>4 DEF BehindTorn
    <3> QED BY <1>5, <3>5 DEF Held, BehindTorn
  <2> QED BY <1>8, <2>1, <2>2, <2>3 DEF Held
<1>9. Aged(dedupFile, OldIds, OpenIds)' /\ Aged(storeIds, OldIds, OpenIds)'
  BY <1>5, <1>6 DEF Aged
<1>10. IdsOf((offset + 1)..cursor)' = IdsOf((offset + 1)..cursor)
  BY <1>1 DEF IdsOf
<1> QED BY <1>1, <1>2, <1>5, <1>8, <1>9, <1>10 DEF BacklogInv

\* Compaction drops an uncommitted id only when a torn line takes its place.
LEMMA CompactBacklog ==
    ASSUME PipelineInv, LogInv, BacklogInv, Compact
    PROVE  BacklogInv'
<1>1. /\ UNCHANGED <<log, offset, position, cursor, pending, toRecord>>
      /\ pc = "compact" /\ storeIds' = Newest(storeIds) /\ Active
      /\ dedupFile' \in {dedupFile, Newest(storeIds)}
  BY DEF Compact, session, output, Active
<1>2. pending = {} /\ toRecord = {}
  BY <1>1 DEF PipelineInv, PendingShape, LogInv, RecordShape
<1>3. storeIds \in Seq(EventIds \cup {Torn}) /\ NoIdTwice(storeIds)
  BY CycleTyped DEF LogInv, LinesAgree
<1>4. PICK d \in Nat : /\ Len(storeIds') = Len(storeIds) - d /\ d <= Len(storeIds) /\ Len(storeIds) \in Nat
                       /\ d = (IF Len(storeIds) > MaxIds THEN Len(storeIds) - MaxIds ELSE 0)
                       /\ \A k \in 1..(Len(storeIds) - d) : storeIds'[k] = storeIds[d + k]
  BY <1>1, <1>3, NewestLines
<1>5. OldIds' = OldIds /\ OpenIds' = OpenIds /\ \A S : IdsOf(S)' = IdsOf(S)
  BY <1>1, HeldOn
<1> SUFFICES ASSUME UseStore PROVE BacklogInv'
  BY DEF BacklogInv, UseStore
<1>6. Aged(dedupFile', OldIds, OpenIds) /\ Aged(storeIds', OldIds, OpenIds) /\ Aged(storeIds, OldIds, OpenIds)
  BY <1>1, <1>3, AgedNewest DEF BacklogInv
<1>7. ASSUME Cardinality(OpenIds) <= MaxIds, position > offset,
             NEW e \in IdsOf((offset + 1)..cursor), e \notin OldIds
      PROVE  Held(e)'
  <2>1. e \in OpenIds /\ e # Torn
    <3>1. (offset + 1)..cursor \subseteq (offset + 1)..Reach
      <4>1. offset \in Nat /\ cursor \in Nat /\ position \in Nat /\ cursor <= position
        BY <1>1, CycleTyped DEF PipelineInv, Positions
      <4> QED BY <1>7, <4>1 DEF Reach
    <3>2. e \in OpenIds
      BY <3>1, PartIds DEF OpenIds
    <3> QED BY <3>2, PartIds
  <2>2. e \in StoreSeen \/ BehindTorn(storeIds, e, OpenIds)
    <3>1. Held(e)
      BY <1>1, <1>7 DEF BacklogInv
    <3>2. ~Waits(e)
      BY <1>2 DEF Waits, IdsOf
    <3> QED BY <3>1, <3>2 DEF Held
  <2>3. ASSUME d # 0, \A l \in (d + 1)..Len(storeIds) : storeIds[l] \in (OpenIds \ {e}) \cup {Torn}
        PROVE  Held(e)'
    <3>1. CASE \E m \in (d + 1)..Len(storeIds) : storeIds[m] = Torn
      <4>1. PICK m \in (d + 1)..Len(storeIds) : storeIds[m] = Torn
        BY <3>1
      <4>2. m - d \in 1..Len(storeIds') /\ storeIds'[m - d] = Torn
        <5>1. m - d \in 1..(Len(storeIds) - d) /\ d + (m - d) = m
          BY <1>4, <4>1
        <5> QED BY <1>4, <4>1, <5>1
      <4>3. ASSUME NEW l \in (m - d)..Len(storeIds') PROVE storeIds'[l] \in (OpenIds \ {e}) \cup {Torn}
        <5>1. l \in 1..(Len(storeIds) - d) /\ d + l \in (d + 1)..Len(storeIds)
          BY <1>4, <4>1
        <5> QED BY <1>4, <2>3, <5>1
      <4>4. BehindTorn(storeIds', e, OpenIds)
        BY <4>2, <4>3 DEF BehindTorn
      <4> QED BY <1>5, <4>4 DEF Held, BehindTorn
    <3>2. CASE \A m \in (d + 1)..Len(storeIds) : storeIds[m] # Torn
      <4> DEFINE f == [l \in (d + 1)..Len(storeIds) |-> storeIds[l]]
      <4>1. f \in [(d + 1)..Len(storeIds) -> OpenIds \ {e}]
        BY <2>3, <3>2
      <4>2. ASSUME NEW l \in (d + 1)..Len(storeIds), NEW m \in (d + 1)..Len(storeIds), f[l] = f[m] PROVE l = m
        <5>1. l \in 1..Len(storeIds) /\ m \in 1..Len(storeIds)
          BY <1>4
        <5> QED BY <1>3, <3>2, <4>2, <5>1 DEF NoIdTwice
      <4> HIDE DEF f
      <4>3. f \in Injection((d + 1)..Len(storeIds), OpenIds \ {e})
        <5>1. IsInjective(f)
          BY <4>1, <4>2 DEF IsInjective
        <5> QED BY <4>1, <5>1 DEF Injection
      <4>4. /\ IsFiniteSet(OpenIds) /\ IsFiniteSet(OpenIds \ {e}) /\ Cardinality(OpenIds) \in Nat
            /\ Cardinality(OpenIds \ {e}) = Cardinality(OpenIds) - 1
        BY <2>1, PartIds, FS_RemoveElement, FS_CardinalityType
      <4>5. Cardinality((d + 1)..Len(storeIds)) <= Cardinality(OpenIds \ {e})
        BY <4>3, <4>4, FS_Injection
      <4>6. Cardinality((d + 1)..Len(storeIds)) = Len(storeIds) - d
        <5>1. d + 1 \in Int /\ Len(storeIds) \in Int /\ MaxIds \in Nat \ {0}
          BY <1>4, ConstantsAssumption
        <5>2. ~(d + 1 > Len(storeIds))
          BY <1>4, <2>3, <5>1
        <5>3. Cardinality((d + 1)..Len(storeIds)) = Len(storeIds) - (d + 1) + 1
          BY <5>1, <5>2, FS_Interval
        <5> QED BY <5>1, <5>3
      <4>7. d = Len(storeIds) - MaxIds /\ MaxIds \in Nat
        BY <1>4, <2>3, ConstantsAssumption
      <4> QED BY <1>4, <1>7, <4>4, <4>5, <4>6, <4>7
    <3> QED BY <3>1, <3>2
  <2>4. CASE e \in StoreSeen
    <3>1. PICK k \in 1..Len(storeIds) : storeIds[k] = e
      BY <2>4 DEF StoreSeen
    <3>2. CASE k > d
      <4>1. k - d \in 1..(Len(storeIds) - d) /\ d + (k - d) = k
        BY <1>4, <3>1, <3>2
      <4>2. k - d \in 1..Len(storeIds') /\ storeIds'[k - d] = e
        BY <1>4, <3>1, <4>1
      <4> QED BY <4>2 DEF Held, StoreSeen
    <3>3. CASE ~(k > d)
      <4>1. \A l \in k..Len(storeIds) : storeIds[l] \in OpenIds \cup {Torn}
        BY <1>6, <1>7, <2>1, <3>1 DEF Aged
      <4>2. ASSUME NEW l \in (d + 1)..Len(storeIds) PROVE storeIds[l] \in (OpenIds \ {e}) \cup {Torn}
        <5>1. l \in k..Len(storeIds) /\ l \in 1..Len(storeIds) /\ l # k
          BY <1>4, <3>1, <3>3
        <5>2. storeIds[l] # e
          BY <1>3, <2>1, <3>1, <5>1 DEF NoIdTwice
        <5> QED BY <4>1, <5>1, <5>2
      <4>3. d # 0
        BY <1>4, <3>1, <3>3
      <4> QED BY <2>3, <4>2, <4>3
    <3> QED BY <3>2, <3>3
  <2>5. CASE BehindTorn(storeIds, e, OpenIds)
    <3>1. PICK k \in 1..Len(storeIds) :
              storeIds[k] = Torn /\ \A l \in k..Len(storeIds) : storeIds[l] \in (OpenIds \ {e}) \cup {Torn}
      BY <2>5 DEF BehindTorn
    <3>2. CASE d = 0
      <4>1. Len(storeIds') = Len(storeIds) /\ \A l \in 1..Len(storeIds) : storeIds'[l] = storeIds[l]
        BY <1>4, <3>2
      <4>2. BehindTorn(storeIds', e, OpenIds)
        BY <3>1, <4>1 DEF BehindTorn
      <4> QED BY <1>5, <4>2 DEF Held, BehindTorn
    <3>3. CASE d # 0 /\ k > d
      <4>1. k - d \in 1..(Len(storeIds) - d) /\ d + (k - d) = k
        BY <1>4, <3>1, <3>3
      <4>2. k - d \in 1..Len(storeIds') /\ storeIds'[k - d] = Torn
        BY <1>4, <3>1, <4>1
      <4>3. ASSUME NEW l \in (k - d)..Len(storeIds') PROVE storeIds'[l] \in (OpenIds \ {e}) \cup {Torn}
        <5>1. l \in 1..(Len(storeIds) - d) /\ d + l \in k..Len(storeIds)
          BY <1>4, <3>1, <3>3
        <5> QED BY <1>4, <3>1, <5>1
      <4>4. BehindTorn(storeIds', e, OpenIds)
        BY <4>2, <4>3 DEF BehindTorn
      <4> QED BY <1>5, <4>4 DEF Held, BehindTorn
    <3>4. CASE d # 0 /\ ~(k > d)
      <4>1. (d + 1)..Len(storeIds) \subseteq k..Len(storeIds)
        BY <1>4, <3>1, <3>4
      <4> QED BY <2>3, <3>1, <3>4, <4>1
    <3> QED BY <3>2, <3>3, <3>4
  <2> QED BY <2>2, <2>4, <2>5
<1>8. Aged(dedupFile, OldIds, OpenIds)' /\ Aged(storeIds, OldIds, OpenIds)'
  BY <1>5, <1>6 DEF Aged
<1>9. IdsOf((offset + 1)..cursor)' = IdsOf((offset + 1)..cursor)
  BY <1>1 DEF IdsOf
<1> QED BY <1>1, <1>5, <1>7, <1>8, <1>9 DEF BacklogInv

\* Ids that wait for their revision wait for their line when it is written.
LEMMA WriteBacklog ==
    ASSUME PipelineInv, LogInv, BacklogInv, NEW r \in pending, WriteRevision(r)
    PROVE  BacklogInv'
<1>1. /\ pc = "write" /\ Active
      /\ UNCHANGED <<log, offset, position, cursor, dedupFile, storeIds>>
      /\ pending' = pending \ {r}
      /\ toRecord' = (IF UseStore THEN NewIds(toRecord \cup r.src) ELSE {})
  BY DEF WriteRevision, Active, session
<1> SUFFICES ASSUME UseStore PROVE BacklogInv'
  BY DEF BacklogInv, UseStore
<1>2. OldIds' = OldIds /\ OpenIds' = OpenIds /\ \A S : IdsOf(S)' = IdsOf(S)
  BY <1>1, HeldOn
<1>3. ASSUME NEW e, Held(e) PROVE Held(e)'
  <2>1. CASE e \in StoreSeen \/ BehindTorn(storeIds, e, OpenIds)
    BY <1>1, <1>2, <2>1 DEF Held, StoreSeen, BehindTorn
  <2>2. CASE Waits(e) /\ e \notin StoreSeen
    <3>1. CASE e \in IdsOf(toRecord) \cup IdsOf(r.src)
      <4>1. PICK i \in toRecord \cup r.src : e = log[i].id /\ e # NoId
        BY <3>1 DEF IdsOf
      <4>2. i \in toRecord'
        BY <1>1, <2>2, <4>1 DEF NewIds
      <4>3. e \in IdsOf(toRecord)'
        BY <1>1, <4>1, <4>2 DEF IdsOf
      <4> QED BY <4>3 DEF Held, Waits
    <3>2. CASE \E q \in pending : q # r /\ e \in IdsOf(q.src)
      <4>1. \E q \in pending' : e \in IdsOf(q.src)'
        BY <1>1, <1>2, <3>2
      <4> QED BY <4>1 DEF Held, Waits
    <3> QED BY <2>2, <3>1, <3>2 DEF Waits
  <2> QED BY <1>3, <2>1, <2>2 DEF Held
<1>4. Aged(dedupFile, OldIds, OpenIds)' /\ Aged(storeIds, OldIds, OpenIds)'
  BY <1>1, <1>2 DEF BacklogInv, Aged
<1>5. IdsOf((offset + 1)..cursor)' = IdsOf((offset + 1)..cursor)
  BY <1>1 DEF IdsOf
<1> QED BY <1>1, <1>2, <1>3, <1>4, <1>5 DEF BacklogInv

LEMMA BacklogKept == PipelineInv /\ LogInv /\ BacklogInv /\ [Next]_vars => BacklogInv'
<1> SUFFICES ASSUME PipelineInv, LogInv, BacklogInv, [Next]_vars PROVE BacklogInv'
  OBVIOUS
<1>0. Len(log) \in Nat
  BY CycleTyped
<1>1. CASE \E m \in Messages : Produce(m)
  <2>1. PICK m \in Messages : Produce(m)
    BY <1>1
  <2>2. /\ \A i \in 1..Len(log) : log'[i] = log[i]
        /\ Len(log') = Len(log) + 1
        /\ UNCHANGED <<offset, position, cursor, dedupFile, storeIds, toRecord, pending, pc>>
    BY <2>1 DEF PipelineInv, TypeOK, Produce, session, output
  <2>3. \A S \in SUBSET (1..Len(log)) : IdsOf(S)' = IdsOf(S)
    BY <2>2 DEF IdsOf
  <2>4. IdsOf(toRecord)' = IdsOf(toRecord)
    BY <2>2, <2>3, CycleTyped DEF IdsOf
  <2>5. \A r \in pending : IdsOf(r.src)' = IdsOf(r.src)
    BY <2>3 DEF PipelineInv, SourcesInLog
  <2>6. \A e : Waits(e) => Waits(e)'
    BY <2>2, <2>4, <2>5 DEF Waits
  <2> QED BY <1>0, <2>2, <2>6, QuietBacklog DEF Active
<1>2. CASE StartWatch \/ DrainRolling \/ DrainWatch
  <2>1. /\ log' = log /\ UNCHANGED <<offset, dedupFile>> /\ cursor' = offset
        /\ position' \in {offset, Len(log)}
    BY <1>2 DEF StartWatch, DrainRolling, DrainWatch, durable
  <2>2. storeIds' = LoadedStore \/ (Active /\ storeIds' = storeIds)
    BY <1>2 DEF StartWatch, DrainRolling, DrainWatch, Active
  <2> QED BY <2>1, <2>2, OpenBacklog
<1>3. CASE \E b \in 1..Len(log) : ApplyBatch(b)
  BY <1>3, ApplyBacklog
<1>4. CASE \E r \in pending : WriteRevision(r)
  BY <1>4, WriteBacklog
<1>5. CASE \E i \in toRecord : RecordId(i)
  BY <1>5, RecordBacklog
<1>6. CASE Compact
  BY <1>6, CompactBacklog
<1>7. CASE CommitWatch \/ CommitRolling
  BY <1>7, CommitBacklog
<1>8. CASE DrainFails \/ StopWatch \/ Crash \/ CrashTorn
  <2>1. ProcessGone /\ log' = log /\ offset' = offset
        /\ (dedupFile' = dedupFile \/ dedupFile' = Append(dedupFile, Torn))
    BY <1>8 DEF DrainFails, StopWatch, Crash, CrashTorn, durable
  <2> QED BY <2>1, GoneBacklog
<1>9. CASE StartRolling \/ FinishDrain \/ WriteSummary \/ UNCHANGED vars
  <2>1. /\ UNCHANGED <<log, offset, position, cursor, dedupFile, storeIds, toRecord, pending>>
        /\ Active' => Active
    BY <1>9 DEF StartRolling, FinishDrain, WriteSummary, Active, vars, durable, session, output
  <2>2. \A e : Waits(e) => Waits(e)'
    BY <2>1 DEF Waits, IdsOf
  <2> QED BY <1>0, <2>1, <2>2, QuietBacklog
<1> QED BY <1>1, <1>2, <1>3, <1>4, <1>5, <1>6, <1>7, <1>8, <1>9 DEF Next, Start, Step

\* At every commit, by the invariant.
LEMMA BacklogAtCommit ==
    ASSUME PipelineInv, LogInv, BacklogInv
    PROVE  BacklogDurable
<1> SUFFICES ASSUME pc = "commit", UseStore, CleanLog, Cardinality(IdsOf((offset + 1)..position)) <= MaxIds,
                    NEW e \in IdsOf((offset + 1)..position), e \notin IdsOf(1..offset)
             PROVE  e \in DurableIds
  BY DEF BacklogDurable
<1>1. /\ offset \in Nat /\ cursor \in Nat /\ position \in 0..Len(log) /\ Len(log) \in Nat /\ Active
      /\ EventsIn(cursor, position) = {} /\ pending = {} /\ toRecord = {} /\ dedupFile = storeIds
  <2>1. Active /\ EventsIn(cursor, position) = {} /\ pending = {}
    BY DEF Active, PipelineInv, DrainedShape, PendingShape
  <2>2. toRecord = {} /\ dedupFile = storeIds
    BY <2>1 DEF LogInv, RecordShape, LinesAgree
  <2> QED BY <2>1, <2>2, CycleTyped
<1>2. PICK i \in (offset + 1)..position : e = log[i].id /\ e # NoId
  BY DEF IdsOf
<1>3. i <= cursor
  <2>1. i \in 1..Len(log)
    BY <1>1, <1>2
  <2>2. log[i] \in Messages
    BY <2>1 DEF PipelineInv, TypeOK
  <2>3. IsEvent(i)
    BY <1>2, <2>2 DEF Messages, IsEvent
  <2>4. i > cursor => i \in (cursor + 1)..position
    BY <1>1, <1>2
  <2> QED BY <1>1, <1>2, <2>1, <2>3, <2>4 DEF EventsIn
<1>4. i \in (offset + 1)..cursor /\ position > offset
  BY <1>1, <1>2, <1>3
<1>5. e \in IdsOf((offset + 1)..cursor) /\ e \notin OldIds /\ OpenIds = IdsOf((offset + 1)..position)
  BY <1>2, <1>4 DEF IdsOf, OldIds, OpenIds, Reach
<1>6. Held(e)
  BY <1>1, <1>4, <1>5 DEF BacklogInv
<1>7. ~Waits(e) /\ ~BehindTorn(storeIds, e, OpenIds)
  <2>1. ~Waits(e)
    BY <1>1 DEF Waits, IdsOf
  <2> QED BY <2>1 DEF CleanLog, StoreSeen, BehindTorn
<1>8. e # Torn
  BY <1>5, PartIds
<1> QED BY <1>1, <1>6, <1>7, <1>8 DEF Held, StoreSeen, DurableIds

\* At every commit of a process that has read no torn line, the id log holds
\* the ids this run has published in the cycle, if they are at most MaxIds, and
\* all ids of the backlog that no committed entry has, if the ids of the backlog
\* are at most MaxIds; and it says what the memory says: for every source,
\* driver, schedule of crashes and torn writes, and for every MaxIds.
THEOREM DurableIdsAreSound == Spec => []DurableIdsSound
<1>1. Init => LogInv
  BY DEF Init, LogInv, RecordShape, AppliedDistinct, LinesAgree, NoIdTwice, WindowStored, Active, IdsOf
<1>2. PipelineInv /\ HistoryInv /\ LogInv /\ [Next]_vars => LogInv'
  BY LogKept
<1>3. PipelineInv /\ LogInv /\ BacklogInv => DurableIdsSound
  <2> SUFFICES ASSUME PipelineInv, LogInv, BacklogInv PROVE DurableIdsSound
    OBVIOUS
  <2>1. StoreMatchesFile
    BY DEF LogInv, LinesAgree, NoIdTwice, StoreMatchesFile, Active
  <2>2. ASSUME pc = "commit", UseStore, CleanLog,
               Cardinality(IdsOf(EventsIn(offset, position) \cap working)) <= MaxIds
        PROVE  IdsOf(EventsIn(offset, position) \cap working) \subseteq DurableIds
    <3>1. EventsIn(offset, position) \cap working = Window
      <4>1. offset \in Nat /\ cursor \in Nat /\ position \in Nat /\ working \subseteq Nat
        BY CycleTyped
      <4>2. Active /\ cursor <= position
        BY <2>2 DEF Active, PipelineInv, Positions
      <4>3. UseStore => \A i \in working : i <= cursor
        BY <4>2 DEF LogInv, RecordShape
      <4> QED BY <2>2, <4>1, <4>2, <4>3 DEF Window, EventsIn
    <3>2. pending = {} /\ toRecord = {}
      BY <2>2 DEF PipelineInv, PendingShape, LogInv, RecordShape
    <3>3. dedupFile = storeIds
      BY <2>2 DEF LogInv, LinesAgree, Active
    <3>4. ASSUME NEW e \in IdsOf(Window) PROVE e \in DurableIds
      <4>1. Waits(e) \/ Recent(e)
        BY <2>2, <3>1, <3>4 DEF LogInv, WindowStored, Active
      <4>2. ~Waits(e)
        BY <3>2 DEF Waits, IdsOf
      <4>3. e # Torn
        BY <3>4, CycleTyped, ConstantsAssumption
      <4> QED BY <3>3, <4>1, <4>2, <4>3 DEF Recent, DurableIds
    <3> QED BY <3>1, <3>4
  <2>3. CommitWindowDurable
    BY <2>2 DEF CommitWindowDurable
  <2>4. BacklogDurable
    BY BacklogAtCommit
  <2> QED BY <2>1, <2>3, <2>4 DEF DurableIdsSound
<1>4. Init => BacklogInv
  BY DEF Init, BacklogInv, Aged, Active
<1>5. PipelineInv /\ LogInv /\ BacklogInv /\ [Next]_vars => BacklogInv'
  BY BacklogKept
<1> QED BY <1>1, <1>2, <1>3, <1>4, <1>5, PipelineInvariant, HistoryInvariant, PTL DEF Spec

-----------------------------------------------------------------------------
(***************************************************************************)
(* Event application: what the handlers make of the working copy, for      *)
(* every set of tasks, cells and rows, every completion threshold and      *)
(* every order of events: the inductive invariant ApplyInv and the         *)
(* properties it implies.                                                  *)
(***************************************************************************)

\* Quantities stay natural numbers when they are scaled and rounded.
LEMMA NearestNat ==
    ASSUME NEW num \in Nat, NEW den \in Nat \ {0}, NEW n \in Nearest(num, den)
    PROVE  n \in Nat
<1>1. num \div den \in Nat
  OBVIOUS
<1> QED BY <1>1 DEF Nearest

LEMMA ProductNat ==
    ASSUME NEW a \in Nat, NEW b \in Nat
    PROVE  a * b \in Nat
OBVIOUS

\* Scaling a row keeps its type and its ground.
LEMMA ShrunkType ==
    ASSUME NEW row \in RowType, NEW work \in Nat, NEW area \in Nat,
           NEW num \in Nat, NEW den \in Nat \ {0},
           NEW r \in Shrunk(row, work, area, num, den)
    PROVE  /\ r \in RowType
           /\ r.work \in Nearest(work * num, den)
<1>1. PICK w \in Nearest(work * num, den), a \in Nearest(area * num, den) :
        r = WithColumns(row, w, a)
  BY DEF Shrunk
<1>2. w \in Nat /\ a \in Nat
  <2>1. work * num \in Nat /\ area * num \in Nat
    BY ProductNat
  <2> QED BY <2>1, NearestNat
<1> QED BY <1>1, <1>2 DEF RowType, WithColumns

LEMMA CoveredAreaType ==
    ASSUME NEW cells \in SUBSET Cells, NEW ref \in Nat
    PROVE  CoveredArea(cells, ref) \in Nat /\ CoveredArea(cells, ref) <= ref
<1>1. Cardinality(cells) \in Nat
  BY FS_Subset, FS_CardinalityType, ApplyAssumption
<1> QED BY <1>1 DEF CoveredArea

\* An entry after one more pass.
LEMMA GrownEntry ==
    ASSUME NEW x \in EntryType, NEW pass \in SUBSET Cells
    PROVE  LET e == [x EXCEPT !.cells = @ \cup pass, !.passes = @ + 1]
           IN  /\ e \in EntryType /\ e.cells = x.cells \cup pass
               /\ e.work = x.work /\ e.area = x.area /\ e.ref = x.ref
<1>1. x.cells \cup pass \in SUBSET Cells /\ x.passes + 1 \in Nat
  BY DEF EntryType
<1> DEFINE e == [x EXCEPT !.cells = x.cells \cup pass, !.passes = x.passes + 1]
<1>2. e \in EntryType
  BY <1>1 DEF EntryType
<1>3. e.cells = x.cells \cup pass /\ e.work = x.work /\ e.area = x.area /\ e.ref = x.ref
  BY <1>1 DEF EntryType
<1> QED BY <1>2, <1>3

\* What a number reports of a row keeps its type.
LEMMA AfterReportType ==
    ASSUME NEW row \in RowType, NEW report \in Reports, NEW r \in AfterReport(row, report)
    PROVE  r \in RowType
<1>1. CASE report.kind = "left"
  <2>1. report.n \in Nat
    BY ApplyAssumption DEF Reports, Left, Share
  <2> QED BY <1>1, <2>1 DEF AfterReport, RowType
<1>2. CASE report.kind # "left"
  <2>1. Parts - report.n \in Nat
    BY <1>2, ApplyAssumption DEF Reports, Left, Share
  <2>2. row.work \in Nat /\ row.area \in Nat
    BY DEF RowType
  <2>3. r \in Shrunk(row, row.work, row.area, Parts - report.n, Parts)
    BY <1>2 DEF AfterReport
  <2> QED BY <2>1, <2>2, <2>3, ShrunkType, ApplyAssumption
<1> QED BY <1>1, <1>2

\* The reference of a row does not depend on whether it has started.
LEMMA ReferenceType ==
    ASSUME NEW row \in RowType
    PROVE  /\ Reference(row) \in Nat
           /\ Reference([row EXCEPT !.started = TRUE]) = Reference(row)
BY DEF Reference, RowType

-----------------------------------------------------------------------------
(* The conjuncts over watermarks *)

LEMMA ObserveMarks ==
    ASSUME ApplyTypeOK, MarksAreNewest, NEW c \in Contracts, NEW at \in EventTimes, Observe(c, at)
    PROVE  MarksAreNewest' /\ marks' \in [Contracts -> Nat] /\ planMarks' \in [Contracts -> Nat]
           /\ since' \in [Contracts -> SUBSET Times]
<1>1. at \in Nat /\ (at = 0 \/ at \in Times)
  BY ApplyAssumption DEF EventTimes
<1>2. marks' \in [Contracts -> Nat] /\ since' \in [Contracts -> SUBSET Times]
  BY <1>1 DEF Observe, Bumped, ApplyTypeOK
<1>3. ASSUME NEW d \in Contracts
      PROVE /\ marks'[d] >= planMarks'[d]
            /\ \A x \in since'[d] : x <= marks'[d]
            /\ marks'[d] = planMarks'[d] \/ marks'[d] \in since'[d]
  <2>1. marks'[d] = IF d = c /\ at > marks[c] THEN at ELSE marks[d]
    BY DEF Observe, Bumped, ApplyTypeOK
  <2>2. since'[d] = IF d = c THEN since[c] \cup ({at} \cap Times) ELSE since[d]
    BY DEF Observe, ApplyTypeOK
  <2>3. planMarks' = planMarks
    BY DEF Observe
  <2>4. marks[d] \in Nat /\ planMarks[d] \in Nat /\ since[d] \subseteq Nat
    BY ApplyAssumption DEF ApplyTypeOK
  <2> QED BY <1>1, <2>1, <2>2, <2>3, <2>4 DEF MarksAreNewest
<1> QED BY <1>2, <1>3 DEF MarksAreNewest, Observe, ApplyTypeOK

-----------------------------------------------------------------------------
(* The conjuncts over rows *)

RowsOK ==
    /\ rows \in [Tasks -> RowType \cup {NoRow}]
    /\ coverage \in [Tasks -> EntryType \cup {NoEntry}]
    /\ completions \subseteq [task : Tasks, deadline : BOOLEAN]
    /\ life \in [Tasks -> LifeType]
    /\ EntryIsOriginal
    /\ CoverageFromOriginal

\* A task without a row, or one that something else than passes changed, is
\* under no obligation.
LEMMA CompleteRows ==
    ASSUME RowsOK, NEW t \in Tasks, Complete(t),
           coverage' \in [Tasks -> EntryType \cup {NoEntry}],
           \A u \in Tasks \ {t} : coverage'[u] = coverage[u]
    PROVE  RowsOK'
<1>0. completions' \subseteq [task : Tasks, deadline : BOOLEAN]
  <2>1. (rows[t] # NoRow) \in BOOLEAN
    BY Zenon
  <2>2. [task |-> t, deadline |-> rows[t] # NoRow] \in [task : Tasks, deadline : BOOLEAN]
    BY <2>1, Zenon
  <2> QED BY <2>2, Zenon DEF RowsOK, Complete
<1>1. /\ rows' \in [Tasks -> RowType \cup {NoRow}]
      /\ life' \in [Tasks -> LifeType]
  BY DEF RowsOK, Complete, SetRow
<1>2. rows'[t] = NoRow /\ \A u \in Tasks \ {t} : rows'[u] = rows[u] /\ life'[u] = life[u]
  BY DEF RowsOK, Complete, SetRow
<1>3. EntryIsOriginal'
  BY <1>2 DEF EntryIsOriginal, RowsOK
<1>4. CoverageFromOriginal'
  BY <1>2 DEF CoverageFromOriginal, RowsOK
<1> QED BY <1>0, <1>1, <1>3, <1>4 DEF RowsOK

LEMMA SetRowFrame ==
    ASSUME RowsOK, NEW t \in Tasks, NEW r \in RowType, NEW l \in LifeType, SetRow(t, r, l),
           coverage' \in [Tasks -> EntryType \cup {NoEntry}],
           \A u \in Tasks \ {t} : coverage'[u] = coverage[u],
           completions' = completions,
           l.pure =>
            /\ l.row # NoRow
            /\ coverage'[t] = NoEntry =>
                  /\ l.swept = {}
                  /\ r \in {l.row, [l.row EXCEPT !.started = TRUE]}
            /\ coverage'[t] # NoEntry =>
                  /\ l.swept = coverage'[t].cells /\ coverage'[t].cells # {}
                  /\ coverage'[t].work = l.row.work
                  /\ coverage'[t].ref = Reference(l.row)
                  /\ r.work \in Nearest(l.row.work * (Reference(l.row)
                        - CoveredArea(l.swept, Reference(l.row))), Reference(l.row))
    PROVE  RowsOK'
<1>1. /\ rows' \in [Tasks -> RowType \cup {NoRow}]
      /\ life' \in [Tasks -> LifeType]
  BY DEF RowsOK, SetRow
<1>2. /\ rows'[t] = r /\ life'[t] = l
      /\ \A u \in Tasks \ {t} : rows'[u] = rows[u] /\ life'[u] = life[u]
  BY DEF RowsOK, SetRow
<1>3. EntryIsOriginal'
  BY <1>2 DEF EntryIsOriginal, RowsOK
<1>4. CoverageFromOriginal'
  <2> SUFFICES ASSUME NEW u \in Tasks, rows'[u] # NoRow, life'[u].pure
               PROVE rows'[u].work \in
                       IF life'[u].swept = {} THEN {life'[u].row.work}
                       ELSE Nearest(life'[u].row.work * (Reference(life'[u].row)
                              - CoveredArea(life'[u].swept, Reference(life'[u].row))),
                              Reference(life'[u].row))
    BY DEF CoverageFromOriginal
  <2>1. CASE u # t
    BY <1>2, <2>1 DEF CoverageFromOriginal, RowsOK
  <2>2. CASE u = t /\ coverage'[t] = NoEntry
    <3>1. l.row \in RowType /\ l.swept = {}
      BY <1>2, <2>2 DEF LifeType
    <3>2. r.work = l.row.work
      BY <1>2, <2>2, <3>1 DEF RowType
    <3> QED BY <1>2, <2>2, <3>1, <3>2
  <2>3. CASE u = t /\ coverage'[t] # NoEntry
    BY <1>2, <2>3
  <2> QED BY <2>1, <2>2, <2>3
<1> QED BY <1>1, <1>3, <1>4 DEF RowsOK

LEMMA ScalarRows ==
    ASSUME RowsOK, NEW t \in Tasks, NEW report \in Reports, ApplyScalar(t, report)
    PROVE  RowsOK'
<1>0. /\ coverage' = coverage
      /\ coverage' \in [Tasks -> EntryType \cup {NoEntry}]
  BY DEF ApplyScalar, RowsOK
<1>1. CASE Complete(t)
  BY <1>0, <1>1, CompleteRows
<1>2. CASE /\ rows[t] # NoRow
           /\ \E r \in AfterReport(rows[t], report) :
                SetRow(t, r, [life[t] EXCEPT !.pure = FALSE])
           /\ UNCHANGED completions
  <2>1. PICK r \in AfterReport(rows[t], report) :
          SetRow(t, r, [life[t] EXCEPT !.pure = FALSE])
    BY <1>2
  <2>2. r \in RowType
    BY <1>2, AfterReportType DEF RowsOK
  <2>3. [life[t] EXCEPT !.pure = FALSE] \in LifeType /\ ~[life[t] EXCEPT !.pure = FALSE].pure
    BY DEF RowsOK, LifeType
  <2> QED BY <1>0, <1>2, <2>1, <2>2, <2>3, SetRowFrame
<1>3. CASE UNCHANGED <<rows, completions, life>>
  BY <1>0, <1>3 DEF RowsOK, EntryIsOriginal, CoverageFromOriginal
<1> QED BY <1>1, <1>2, <1>3 DEF ApplyScalar

LEMMA PassRows ==
    ASSUME RowsOK, NEW t \in Tasks, NEW pass \in SUBSET Cells, Usable(t, pass), ApplyPass(t, pass)
    PROVE  RowsOK'
<1> DEFINE e == [Entry(t) EXCEPT !.cells = @ \cup pass, !.passes = @ + 1]
           done == CoveredArea(e.cells, e.ref)
<1>1. Entry(t) \in EntryType
  <2>1. CASE coverage[t] = NoEntry
    <3>1. rows[t] \in RowType /\ Reference(rows[t]) > 0
      BY <2>1 DEF Usable, RowsOK
    <3>2. Reference(rows[t]) \in Nat
      BY <3>1, ReferenceType
    <3>3. Captured(t) \in EntryType
      BY <3>1, <3>2 DEF Captured, EntryType, RowType
    <3> QED BY <2>1, <3>3 DEF Entry
  <2>2. CASE coverage[t] # NoEntry
    BY <2>2 DEF Entry, RowsOK
  <2> QED BY <2>1, <2>2
<1>2. /\ e \in EntryType /\ e.cells = Entry(t).cells \cup pass
      /\ e.work = Entry(t).work /\ e.area = Entry(t).area /\ e.ref = Entry(t).ref
  BY <1>1, GrownEntry
<1>3. e # NoEntry
  BY <1>2, ApplyAssumption
<1>4. done \in Nat /\ e.ref - done \in Nat /\ e.ref \in Nat \ {0}
  <2>1. e.cells \in SUBSET Cells /\ e.ref \in Nat \ {0}
    BY <1>2 DEF EntryType
  <2>2. done \in Nat /\ done <= e.ref
    BY <2>1, CoveredAreaType
  <2> QED BY <2>1, <2>2
<1> HIDE DEF e, done
<1>5. CASE Complete(t) /\ coverage' = [coverage EXCEPT ![t] = NoEntry]
  <2>1. /\ coverage' \in [Tasks -> EntryType \cup {NoEntry}]
        /\ \A u \in Tasks \ {t} : coverage'[u] = coverage[u]
    BY <1>5 DEF RowsOK
  <2> QED BY <1>5, <2>1, CompleteRows
<1>6. CASE /\ coverage' = [coverage EXCEPT ![t] = e]
           /\ rows[t] = NoRow /\ UNCHANGED <<rows, life, completions>>
  <2>1. /\ coverage' \in [Tasks -> EntryType \cup {NoEntry}]
        /\ \A u \in Tasks \ {t} : coverage'[u] = coverage[u]
    BY <1>2, <1>6 DEF RowsOK
  <2>2. EntryIsOriginal'
    BY <1>6, <2>1 DEF RowsOK, EntryIsOriginal
  <2> QED BY <1>6, <2>1, <2>2 DEF RowsOK, CoverageFromOriginal
<1>7. CASE /\ coverage' = [coverage EXCEPT ![t] = e]
           /\ rows[t] # NoRow
           /\ \E r \in Shrunk(rows[t], e.work, e.area, e.ref - done, e.ref) :
                 SetRow(t, r, [life[t] EXCEPT !.swept = @ \cup pass])
           /\ UNCHANGED completions
  <2> DEFINE l == [life[t] EXCEPT !.swept = @ \cup pass]
  <2>1. PICK r \in Shrunk(rows[t], e.work, e.area, e.ref - done, e.ref) : SetRow(t, r, l)
    BY <1>7
  <2>2. rows[t] \in RowType /\ e.work \in Nat /\ e.area \in Nat
    BY <1>2, <1>7 DEF RowsOK, EntryType
  <2>3. r \in RowType /\ r.work \in Nearest(e.work * (e.ref - done), e.ref)
    BY <1>4, <2>1, <2>2, ShrunkType
  <2>4. /\ l \in LifeType /\ l.row = life[t].row /\ l.pure = life[t].pure
        /\ l.swept = life[t].swept \cup pass
    BY DEF RowsOK, LifeType
  <2>5. /\ coverage' \in [Tasks -> EntryType \cup {NoEntry}]
        /\ coverage'[t] = e
        /\ \A u \in Tasks \ {t} : coverage'[u] = coverage[u]
    BY <1>2, <1>7 DEF RowsOK
  <2>6. ASSUME l.pure
        PROVE  /\ l.row # NoRow
               /\ l.swept = e.cells /\ e.cells # {}
               /\ e.work = l.row.work
               /\ e.ref = Reference(l.row)
    <3>1. life[t].row \in RowType
      BY <1>7, <2>4, <2>6 DEF RowsOK, EntryIsOriginal, LifeType
    <3>2. CASE coverage[t] = NoEntry
      <4>1. /\ Entry(t) = Captured(t) /\ life[t].swept = {}
            /\ rows[t] \in {life[t].row, [life[t].row EXCEPT !.started = TRUE]}
        BY <1>7, <2>4, <2>6, <3>2 DEF Entry, RowsOK, EntryIsOriginal
      <4>2. Reference(rows[t]) = Reference(life[t].row) /\ rows[t].work = life[t].row.work
        BY <3>1, <4>1, ReferenceType DEF RowType
      <4>3. e.cells = pass /\ e.work = rows[t].work /\ e.ref = Reference(rows[t])
        BY <1>2, <4>1 DEF Captured
      <4>4. pass # {}
        BY DEF Usable
      <4>5. l.row # NoRow
        BY <2>4, <3>1, ApplyAssumption
      <4> QED BY <2>4, <4>1, <4>2, <4>3, <4>4, <4>5
    <3>3. CASE coverage[t] # NoEntry
      <4>1. /\ Entry(t) = coverage[t] /\ life[t].swept = coverage[t].cells
            /\ coverage[t].work = life[t].row.work
            /\ coverage[t].ref = Reference(life[t].row)
        BY <1>7, <2>4, <2>6, <3>3 DEF Entry, RowsOK, EntryIsOriginal
      <4>2. pass # {} /\ l.row # NoRow
        BY <2>4, <3>1, ApplyAssumption DEF Usable
      <4> QED BY <1>2, <2>4, <4>1, <4>2
    <3> QED BY <3>2, <3>3
  <2>7. l.pure => r.work \in Nearest(l.row.work * (Reference(l.row)
                    - CoveredArea(l.swept, Reference(l.row))), Reference(l.row))
    BY <2>3, <2>6 DEF done
  <2>8. completions' = completions
    BY <1>7
  <2> HIDE DEF l
  <2> QED BY <1>3, <2>1, <2>3, <2>4, <2>5, <2>6, <2>7, <2>8, SetRowFrame
<1> QED BY <1>5, <1>6, <1>7 DEF ApplyPass, e, done

LEMMA ReportRows ==
    ASSUME RowsOK, NEW t \in Tasks, NEW pass \in SUBSET Cells, NEW report \in Reports,
           Report(t, pass, report)
    PROVE  RowsOK'
BY ScalarRows, PassRows DEF Report

-----------------------------------------------------------------------------
(* The invariant *)

\* An event step: rows change as shown above, watermarks by Observe.
LEMMA EventStep ==
    ASSUME ApplyInv, RowsOK', NEW c \in Contracts, NEW at \in EventTimes, Observe(c, at)
    PROVE  ApplyInv'
<1>1. ApplyTypeOK /\ MarksAreNewest
  BY DEF ApplyInv
<1>2. /\ MarksAreNewest' /\ marks' \in [Contracts -> Nat] /\ planMarks' \in [Contracts -> Nat]
      /\ since' \in [Contracts -> SUBSET Times]
  BY <1>1, ObserveMarks
<1> QED BY <1>2 DEF ApplyInv, RowsOK, ApplyTypeOK

LEMMA UpsertRows ==
    ASSUME RowsOK, NEW t \in Tasks, NEW row \in Rows, NEW at \in EventTimes,
           UpsertTask(t, row, at)
    PROVE  RowsOK'
<1> DEFINE l == [row |-> row, swept |-> {}, pure |-> coverage[t] = NoEntry]
<1>1. row \in RowType /\ row # NoRow
  BY ApplyAssumption
<1>2. l \in LifeType
  BY <1>1 DEF LifeType
<1>3. SetRow(t, row, l) /\ coverage' = coverage /\ completions' = completions
  BY DEF UpsertTask
<1>4. coverage' \in [Tasks -> EntryType \cup {NoEntry}]
  BY <1>3 DEF RowsOK
<1>5. l.row = row /\ l.swept = {} /\ (l.pure <=> coverage[t] = NoEntry)
  OBVIOUS
<1> HIDE DEF l
<1> QED BY <1>1, <1>2, <1>3, <1>4, <1>5, SetRowFrame

LEMMA CancelRows ==
    ASSUME RowsOK, NEW t \in Tasks, SetRow(t, NoRow, life[t]), UNCHANGED <<coverage, completions>>
    PROVE  RowsOK'
<1>1. /\ rows' \in [Tasks -> RowType \cup {NoRow}]
      /\ life' = life
      /\ rows'[t] = NoRow /\ \A u \in Tasks \ {t} : rows'[u] = rows[u]
  BY DEF RowsOK, SetRow
<1> QED BY <1>1 DEF RowsOK, EntryIsOriginal, CoverageFromOriginal

LEMMA StartRows ==
    ASSUME RowsOK, NEW t \in Tasks, NEW at \in EventTimes, TaskStarted(t, at)
    PROVE  RowsOK'
<1>1. CASE rows[t] = NoRow
  <2>1. UNCHANGED <<rows, coverage, completions, life>>
    BY <1>1 DEF TaskStarted
  <2> QED BY <2>1 DEF RowsOK, EntryIsOriginal, CoverageFromOriginal
<1>2. CASE rows[t] # NoRow
  <2> DEFINE r == [rows[t] EXCEPT !.started = TRUE]
  <2>1. rows[t] \in RowType
    BY <1>2 DEF RowsOK
  <2>2. r \in RowType /\ r.work = rows[t].work
    BY <2>1 DEF RowType
  <2>3. SetRow(t, r, life[t])
    BY <1>2 DEF TaskStarted, SetRow, RowsOK
  <2>4. life[t] \in LifeType /\ coverage' = coverage /\ completions' = completions
        /\ coverage' \in [Tasks -> EntryType \cup {NoEntry}]
    BY DEF RowsOK, TaskStarted
  <2>5. ASSUME life[t].pure
        PROVE  /\ life[t].row # NoRow
               /\ coverage[t] = NoEntry =>
                     /\ life[t].swept = {}
                     /\ rows[t] \in {life[t].row, [life[t].row EXCEPT !.started = TRUE]}
               /\ coverage[t] # NoEntry =>
                     /\ life[t].swept = coverage[t].cells /\ coverage[t].cells # {}
                     /\ coverage[t].work = life[t].row.work
                     /\ coverage[t].ref = Reference(life[t].row)
    BY <1>2, <2>5 DEF RowsOK, EntryIsOriginal
  <2>6. ASSUME life[t].pure, coverage[t] = NoEntry
        PROVE  r \in {life[t].row, [life[t].row EXCEPT !.started = TRUE]}
    <3>1. life[t].row \in RowType
      BY <2>4, <2>5, <2>6 DEF LifeType
    <3> QED BY <2>5, <2>6, <3>1 DEF RowType
  <2>7. ASSUME life[t].pure, coverage[t] # NoEntry
        PROVE  r.work \in Nearest(life[t].row.work * (Reference(life[t].row)
                    - CoveredArea(life[t].swept, Reference(life[t].row))), Reference(life[t].row))
    <3>1. life[t].swept # {}
      BY <2>5, <2>7
    <3> QED BY <1>2, <2>2, <2>7, <3>1 DEF RowsOK, CoverageFromOriginal
  <2> HIDE DEF r
  <2> QED BY <2>2, <2>3, <2>4, <2>5, <2>6, <2>7, SetRowFrame
<1> QED BY <1>1, <1>2

LEMMA ApplyInitInv == ApplyInit => ApplyInv
<1> SUFFICES ASSUME ApplyInit PROVE ApplyInv
  OBVIOUS
<1>1. \A t \in Tasks : rows[t] \in RowType \cup {NoRow}
  BY ApplyAssumption DEF ApplyInit
<1>2. \A t \in Tasks : life[t] = [row |-> rows[t], swept |-> {}, pure |-> TRUE]
  BY DEF ApplyInit
<1>3. life \in [Tasks -> LifeType]
  BY <1>1 DEF ApplyInit, LifeType
<1>4. ApplyTypeOK
  BY <1>3, ApplyAssumption DEF ApplyInit, ApplyTypeOK
<1>5. MarksAreNewest
  BY DEF ApplyInit, MarksAreNewest
<1>6. EntryIsOriginal /\ CoverageFromOriginal
  BY <1>1, <1>2 DEF ApplyInit, EntryIsOriginal, CoverageFromOriginal
<1> QED BY <1>4, <1>5, <1>6 DEF ApplyInv

LEMMA ApplyNextInv == ApplyInv /\ [ApplyNext]_applyVars => ApplyInv'
<1> SUFFICES ASSUME ApplyInv, [ApplyNext]_applyVars PROVE ApplyInv'
  OBVIOUS
<1>0. RowsOK /\ ApplyTypeOK
  BY DEF ApplyInv, RowsOK, ApplyTypeOK
<1>1. ASSUME NEW t \in Tasks, NEW at \in EventTimes, NEW row \in Rows, UpsertTask(t, row, at)
      PROVE ApplyInv'
  BY <1>0, <1>1, UpsertRows, EventStep DEF UpsertTask, Contracts
<1>2. ASSUME NEW t \in Tasks, NEW at \in EventTimes, OrderCancelled(t, at) PROVE ApplyInv'
  BY <1>0, <1>2, CancelRows, EventStep DEF OrderCancelled, Contracts
<1>3. ASSUME NEW t \in Tasks, NEW at \in EventTimes, TaskStarted(t, at) PROVE ApplyInv'
  BY <1>0, <1>3, StartRows, EventStep DEF TaskStarted, Contracts
<1>4. ASSUME NEW t \in Tasks, NEW at \in EventTimes, TaskCompleted(t, at) PROVE ApplyInv'
  <2>1. RowsOK'
    BY <1>0, <1>4, CompleteRows DEF TaskCompleted, RowsOK
  <2> QED BY <1>4, <2>1, EventStep DEF TaskCompleted, Contracts
<1>5. ASSUME NEW t \in Tasks, NEW at \in EventTimes, NEW pass \in SUBSET Cells,
             NEW report \in Reports, TaskProgress(t, pass, report, at)
      PROVE ApplyInv'
  BY <1>0, <1>5, ReportRows, EventStep DEF TaskProgress, Contracts
<1>6. ASSUME NEW t \in Tasks, NEW at \in EventTimes, NEW pass \in SUBSET Cells,
             NEW n \in 0..Parts, ObservationRecorded(t, pass, n, at)
      PROVE ApplyInv'
  <2>1. Share(n) \in Reports
    BY DEF Reports
  <2> QED BY <1>0, <1>6, <2>1, ReportRows, EventStep DEF ObservationRecorded, Contracts
<1>7. ASSUME EndBatch PROVE ApplyInv'
  <2>1. MarksAreNewest'
    BY <1>0, <1>7 DEF EndBatch, MarksAreNewest, ApplyTypeOK
  <2>2. RowsOK'
    BY <1>0, <1>7 DEF EndBatch, RowsOK, EntryIsOriginal, CoverageFromOriginal
  <2> QED BY <1>0, <1>7, <2>1, <2>2 DEF EndBatch, ApplyInv, ApplyTypeOK, RowsOK
<1>8. ASSUME UNCHANGED applyVars PROVE ApplyInv'
  BY <1>8 DEF applyVars, ApplyInv, ApplyTypeOK, MarksAreNewest, EntryIsOriginal, CoverageFromOriginal
<1> QED BY <1>1, <1>2, <1>3, <1>4, <1>5, <1>6, <1>7, <1>8 DEF ApplyNext

\* The inductive invariant holds throughout.
THEOREM ApplyInvariant == ApplySpec => []ApplyInv
BY ApplyInitInv, ApplyNextInv, PTL DEF ApplySpec

\* The state keeps its type: scaled quantities never turn negative.
THEOREM ApplyTypeCorrect == ApplySpec => []ApplyTypeOK
<1>1. ApplyInv => ApplyTypeOK
  BY DEF ApplyInv
<1> QED BY <1>1, ApplyInvariant, PTL

\* A task that only coverage passes changed has the share of its original
\* work left that the union of the passes leaves, for every sequence of
\* passes and every completion threshold.
THEOREM CoverageReducesOriginal == ApplySpec => []CoverageFromOriginal
<1>1. ApplyInv => CoverageFromOriginal
  BY DEF ApplyInv
<1> QED BY <1>1, ApplyInvariant, PTL

\* A plan is found stale exactly when an event newer than all it saw came in.
THEOREM StalenessExact == ApplySpec => []StaleWhenNewer
<1>1. ApplyInv => StaleWhenNewer
  <2> SUFFICES ASSUME ApplyInv, NEW c \in Contracts
               PROVE c \in NewlyVisible <=> \E at \in since[c] : at > planMarks[c]
    BY DEF StaleWhenNewer
  <2>1. marks[c] \in Nat /\ planMarks[c] \in Nat /\ since[c] \subseteq Nat
    BY ApplyAssumption DEF ApplyInv, ApplyTypeOK
  <2> QED BY <2>1 DEF ApplyInv, MarksAreNewest, NewlyVisible
<1> QED BY <1>1, ApplyInvariant, PTL
=============================================================================
