---------------------------- MODULE SnapshotRuns ----------------------------
(***************************************************************************)
(* Snapshot builds from the data directory (planning/snapshots.py,         *)
(* snapshot/builder.py): a build assesses the readings there, appends the  *)
(* source's error rate to a trend file shared by all builds, compacts the  *)
(* file when it has grown (snapshot/quality_trend.py), asks whether the    *)
(* source degrades, writes its snapshot, and last a manifest with a digest *)
(* of what it wrote (provenance/manifest.py), which the registry lists     *)
(* (provenance/registry.py).  Builders run at the same time and die.       *)
(*                                                                         *)
(* One source contract reports all readings.  The content of a snapshot is *)
(* the number of its build, which is also its hash; each build has a run   *)
(* directory of its own.                                                   *)
(***************************************************************************)
EXTENDS Monitoring

CONSTANTS
    Builders,
    TrendMax,       \* QUALITY_TREND_MAX_RECORDS
    TrendRuns       \* ERROR_RATE_TREND_MIN_RUNS

ASSUME TrendAssumption == TrendMax \in Nat /\ TrendRuns \in Nat

VARIABLES
    trend,          \* lines of the trend file: a rate in percent, or Malformed
    open,           \* the last line lacks its newline
    pc, loaded,     \* of each builder: its next step, the records it read
    build,          \* of each builder: the number of its build
    runs,           \* run directories by number: [snapshot, manifest]
    verdict         \* the last answer about the source

runsVars == <<trend, open, pc, loaded, build, runs, verdict>>

Malformed == -1
NoManifest == [cites |-> 0, digest |-> 0]

-----------------------------------------------------------------------------
(* Error rates: assess_observations *)

\* Bad readings and all numeric readings of a series.
Tally(a, metric) ==
    LET series == History(dataset, a, metric)
        ahead == Len(series) - Len(Trusted(series, now))
        kept == Retained(Trusted(series, now), now)
        flagged == Len(kept) - Len(Unflagged(kept))
        assessed == Assessed(dataset, a, metric, now)
    IN  [bad |-> ahead + flagged + assessed.bad, total |-> ahead + Len(kept)]
Tallies == {<<a, metric, Tally(a, metric)>> : a \in Assets, metric \in {"battery", "moisture"}}
Bad == FoldSet(LAMBDA t, acc : acc + t[3].bad, 0, Tallies)
Numeric == FoldSet(LAMBDA t, acc : acc + t[3].total, 0, Tallies)
ErrorRate == (100 * Bad) \div Numeric

-----------------------------------------------------------------------------
(* The trend file *)

\* _load_records skips lines it cannot parse.
Records(lines) == Those(lines, {k \in DOMAIN lines : lines[k] # Malformed})
LastOf(s, n) == SubSeq(s, Max({1, Len(s) - n + 1}), Len(s))

\* degrading_sources: strictly increasing over the last runs, and not zero.
Degrading(lines) ==
    LET window == LastOf(Records(lines), TrendRuns)
    IN  /\ Len(window) = TrendRuns /\ Last(window) > 0
        /\ \A k \in 1 .. TrendRuns - 1 : window[k] < window[k + 1]

\* Mutant of Compacted: the oldest records are kept.
CompactedOldest(records) == SubSeq(records, 1, TrendMax)
\* _compact
Compacted(records) == LastOf(records, TrendMax)

Goto(b, step) == pc' = [pc EXCEPT ![b] = step]

\* build: without numeric readings nothing is recorded.
StartBuild(b) ==
    /\ pc[b] = "idle" /\ Len(runs) < menu.builds
    /\ runs' = Append(runs, [snapshot |-> 0, manifest |-> NoManifest])
    /\ build' = [build EXCEPT ![b] = Len(runs) + 1]
    /\ Goto(b, IF Numeric = 0 THEN "judge" ELSE "append")
    /\ UNCHANGED <<trend, open, loaded, verdict>>

\* record_error_rates: a record is appended; behind a line without a newline
\* it spoils both.
AppendRate(b) ==
    /\ pc[b] = "append"
    /\ trend' = IF open THEN [trend EXCEPT ![Len(trend)] = Malformed] ELSE Append(trend, ErrorRate)
    /\ open' = FALSE
    /\ Goto(b, "load")
    /\ UNCHANGED <<loaded, build, runs, verdict>>

LoadTrend(b) ==
    /\ pc[b] = "load"
    /\ loaded' = [loaded EXCEPT ![b] = IF Len(Records(trend)) > TrendMax THEN Records(trend) ELSE <<>>]
    /\ Goto(b, IF Len(Records(trend)) > TrendMax THEN "replace" ELSE "judge")
    /\ UNCHANGED <<trend, open, build, runs, verdict>>

\* The compacted records replace the file in one step.
ReplaceTrend(b) ==
    /\ pc[b] = "replace"
    /\ trend' = Compacted(loaded[b]) /\ open' = FALSE
    /\ loaded' = [loaded EXCEPT ![b] = <<>>]
    /\ Goto(b, "judge")
    /\ UNCHANGED <<build, runs, verdict>>

Judge(b) ==
    /\ pc[b] = "judge" /\ verdict' = Degrading(trend)
    /\ Goto(b, "snapshot")
    /\ UNCHANGED <<trend, open, loaded, build, runs>>

-----------------------------------------------------------------------------
(* The run directory *)

\* Mutant of Order: the manifest is written first.
OrderManifestFirst(file) == IF file = "snapshot" THEN "manifest" ELSE "snapshot"
\* What run_snapshot_build writes when.
Order(file) == file

\* build_manifest: the digest of the files there, the hash of the snapshot.
WriteFile(b, step, next) ==
    /\ pc[b] = step
    /\ LET n == build[b]
       IN  runs' = IF Order(step) = "snapshot" THEN [runs EXCEPT ![n].snapshot = n]
                   ELSE [runs EXCEPT ![n].manifest = [cites |-> n, digest |-> runs[n].snapshot]]
    /\ Goto(b, next)
    /\ UNCHANGED <<trend, open, loaded, build, verdict>>
WriteSnapshot(b) == WriteFile(b, "snapshot", "manifest")
WriteManifest(b) == WriteFile(b, "manifest", "idle")

\* scan_manifests, verify_manifest
Listed(r) == r.manifest # NoManifest
Verified(r) == Listed(r) /\ r.manifest.digest = r.snapshot

\* A builder dies: an append may leave half a line, a file may stay cut, and
\* a cut manifest is no manifest.
Die(b) ==
    /\ pc[b] # "idle"
    /\ \/ UNCHANGED <<trend, open, runs>>
       \/ pc[b] = "append" /\ ~open /\ trend' = Append(trend, Malformed) /\ open' = TRUE /\ UNCHANGED runs
       \/ pc[b] = "snapshot" /\ runs' = [runs EXCEPT ![build[b]].snapshot = -1] /\ UNCHANGED <<trend, open>>
    /\ loaded' = [loaded EXCEPT ![b] = <<>>]
    /\ Goto(b, "idle")
    /\ UNCHANGED <<build, verdict>>

RunsInit ==
    /\ trend = <<>> /\ open = FALSE
    /\ pc = [b \in Builders |-> "idle"] /\ loaded = [b \in Builders |-> <<>>] /\ build = [b \in Builders |-> 0]
    /\ runs = <<>> /\ verdict = FALSE

RunsNext == \E b \in Builders :
    StartBuild(b) \/ AppendRate(b) \/ LoadTrend(b) \/ ReplaceTrend(b) \/ Judge(b)
    \/ WriteSnapshot(b) \/ WriteManifest(b) \/ Die(b)

-----------------------------------------------------------------------------
(* Monitoring and snapshot builds over one data directory. *)

vars == <<monitoringVars, runsVars>>
Init == MonitoringInit /\ RunsInit
Next == \/ MonitoringNext /\ UNCHANGED runsVars
        \/ RunsNext /\ UNCHANGED monitoringVars
Spec == Init /\ [][Next]_vars

(* Compaction never changes a degradation verdict (_compact), as long as   *)
(* no other build wrote the file since it was read: enough of the newest   *)
(* records stay, whatever lines were malformed.                            *)
CompactionKeepsVerdict ==
    [][\A b \in Builders :
        pc[b] = "replace" /\ pc'[b] = "judge" /\ loaded[b] = Records(trend)
        => Degrading(trend') = Degrading(trend)]_vars

(* A run the registry lists has the snapshot its manifest cites, whole and *)
(* with the digest recorded, wherever builders died and beside whatever    *)
(* other builds (run_snapshot_build writes the manifest last).             *)
ListedRunsWhole ==
    \A n \in DOMAIN runs : Listed(runs[n]) => Verified(runs[n]) /\ runs[n].snapshot = runs[n].manifest.cites
=============================================================================
