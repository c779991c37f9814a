----------------------------- MODULE EventApply -----------------------------
(***************************************************************************)
(* The event applicator of fl-op (stream/apply.py): execution events       *)
(* change the task rows a rolling session plans from.  Progress arrives as *)
(* a completed share, as remaining work, or as the geometry covered in one *)
(* pass, which accumulates per task (stream/coverage.py).  Each event      *)
(* advances the watermark of the sources it touches, and a plan is stale   *)
(* once a watermark passes the one it was solved against                   *)
(* (stream/freshness.py).                                                  *)
(*                                                                         *)
(* Geometry is a set of cells of unit area, so that the area of a union is *)
(* its cardinality.  Quantities are counted in the unit they are rounded   *)
(* to.  Replays by event id are the subject of StreamPipeline; the log of  *)
(* coverage passes (coverage_reports) is left out.                         *)
(***************************************************************************)
EXTENDS Integers, FiniteSets

CONSTANTS
    Tasks,
    Cells,          \* cells a pass may cover
    Rows,           \* task rows producers send
    NoRow,
    NoEntry,
    Parts,          \* completed shares are reported in multiples of 1/Parts
    CompleteNum,    \* COVERAGE_COMPLETE_FRACTION is CompleteNum/CompleteDen
    CompleteDen,
    Times,          \* observed times of events
    MaxPasses       \* bound: passes of one coverage entry

\* work: the work-quantity column; area: the area column, 0 when the domain
\* binds none; ground: the area of the work-area polygon, 0 without one.
RowType == [work : Nat, area : Nat, ground : Nat, started : BOOLEAN]

\* _coverage: the rings of a task, its columns before the first pass, the
\* area they are measured against and the number of passes.
EntryType == [cells : SUBSET Cells, work : Nat, area : Nat, ref : Nat \ {0}, passes : Nat]

ASSUME ApplyAssumption ==
    /\ IsFiniteSet(Cells)
    /\ Rows \subseteq RowType /\ NoRow \notin RowType /\ NoEntry \notin EntryType
    /\ Parts \in Nat \ {0} /\ MaxPasses \in Nat
    /\ CompleteNum \in Nat \ {0} /\ CompleteDen \in Nat \ {0} /\ CompleteNum <= CompleteDen
    /\ Times \subseteq Nat \ {0}

Contracts == {"task", "observation"}

VARIABLES
    rows,           \* task rows
    coverage,       \* coverage entry of each task
    completions,    \* completion records of the batch, with or without deadline
    marks,          \* watermark of each contract, 0 where there is none
    planMarks,      \* source_watermarks of the plan in force
    since,          \* history: observed times of the batch per contract
    life            \* history of each task's row

applyVars == <<rows, coverage, completions, marks, planMarks, since, life>>

\* The row as it was sent, the cells swept since, and whether only passes
\* changed it, none of them left over from an earlier row of that id.
LifeType == [row : RowType \cup {NoRow}, swept : SUBSET Cells, pure : BOOLEAN]

-----------------------------------------------------------------------------
(* Watermarks *)

\* Mutant of Bumped: the last event wins.
BumpedAlways(c, at) == IF at = 0 THEN marks ELSE [marks EXCEPT ![c] = at]

\* _bump_watermark with the observed time of an event, 0 when it has none.
Bumped(c, at) == IF at > marks[c] THEN [marks EXCEPT ![c] = at] ELSE marks

\* An event of contract c is applied.
Observe(c, at) ==
    /\ marks' = Bumped(c, at)
    /\ since' = [since EXCEPT ![c] = @ \cup ({at} \cap Times)]
    /\ UNCHANGED planMarks

\* newly_visible_sources for the plan in force and a snapshot of the session
\* taken now, which carries the watermarks of the applicator.
NewlyVisible == {c \in Contracts : marks[c] > planMarks[c]}

-----------------------------------------------------------------------------
(* Task rows *)

\* The integers closest to num/den; a tie may be rounded either way.
Nearest(num, den) ==
    {n \in (num \div den)..(num \div den + 1) :
        2 * (n * den - num) <= den /\ 2 * (num - n * den) <= den}

\* Progress implies that the task started.
WithColumns(row, work, area) == [row EXCEPT !.work = work, !.area = area, !.started = TRUE]

\* The row with its columns at num/den of the given quantities.
Shrunk(row, work, area, num, den) ==
    {WithColumns(row, w, a) :
        w \in Nearest(work * num, den), a \in Nearest(area * num, den)}

SetRow(t, row, l) ==
    /\ rows' = [rows EXCEPT ![t] = row]
    /\ life' = [life EXCEPT ![t] = l]

\* order.created and entity.corrected replace a task's row or add it.
UpsertTask(t, row, at) ==
    /\ SetRow(t, row, [row |-> row, swept |-> {}, pure |-> coverage[t] = NoEntry])
    /\ Observe("task", at)
    /\ UNCHANGED <<coverage, completions>>

OrderCancelled(t, at) ==
    /\ SetRow(t, NoRow, life[t])
    /\ Observe("task", at)
    /\ UNCHANGED <<coverage, completions>>

TaskStarted(t, at) ==
    /\ rows' = IF rows[t] = NoRow THEN rows ELSE [rows EXCEPT ![t].started = TRUE]
    /\ Observe("task", at)
    /\ UNCHANGED <<coverage, completions, life>>

\* _complete_task: the row's deadline is captured, the row removed.
Complete(t) ==
    /\ completions' = completions \cup {[task |-> t, deadline |-> rows[t] # NoRow]}
    /\ SetRow(t, NoRow, life[t])

TaskCompleted(t, at) ==
    /\ Complete(t)
    /\ Observe("task", at)
    /\ UNCHANGED coverage

-----------------------------------------------------------------------------
(* Progress in numbers *)

Left(n) == [kind |-> "left", n |-> n]
Share(n) == [kind |-> "share", n |-> n]

Finishes(report) == report = Left(0) \/ report = Share(Parts)

\* What a report leaves of a row: exact remaining work goes to the work
\* column only, a share scales every column.
AfterReport(row, report) ==
    IF report.kind = "left"
      THEN {[row EXCEPT !.work = report.n, !.started = TRUE]}
      ELSE Shrunk(row, row.work, row.area, Parts - report.n, Parts)

ApplyScalar(t, report) ==
    /\ \/ Finishes(report) /\ Complete(t)
       \/ /\ ~Finishes(report) /\ rows[t] # NoRow
          /\ \E r \in AfterReport(rows[t], report) :
                SetRow(t, r, [life[t] EXCEPT !.pure = FALSE])
          /\ UNCHANGED completions
       \/ /\ ~Finishes(report) /\ rows[t] = NoRow
          /\ UNCHANGED <<rows, completions, life>>
    /\ UNCHANGED coverage

-----------------------------------------------------------------------------
(* Progress as geometry *)

\* The area coverage is measured against: the work-area polygon, else the
\* area column, else the work quantity.
Reference(row) ==
    CASE row.ground > 0 -> row.ground
      [] row.ground = 0 /\ row.area > 0 -> row.area
      [] OTHER -> row.work

\* _capture_work_state, at the first pass.
Captured(t) ==
    [cells |-> {}, work |-> rows[t].work, area |-> rows[t].area,
     ref |-> Reference(rows[t]), passes |-> 0]

\* Mutant of Entry: the columns are captured anew at each pass.
EntryRecaptured(t) ==
    IF coverage[t] = NoEntry THEN Captured(t)
    ELSE IF rows[t] = NoRow THEN coverage[t]
    ELSE [coverage[t] EXCEPT !.work = rows[t].work, !.area = rows[t].area]

Entry(t) == IF coverage[t] = NoEntry THEN Captured(t) ELSE coverage[t]

\* A pass has geometry, and something to measure it against.
Usable(t, pass) ==
    pass # {} /\ (coverage[t] # NoEntry \/ (rows[t] # NoRow /\ Reference(rows[t]) > 0))

\* coverage_state: the overlap-corrected covered area, at most the reference.
CoveredArea(cells, ref) == IF Cardinality(cells) < ref THEN Cardinality(cells) ELSE ref

\* _apply_coverage_pass
ApplyPass(t, pass) ==
    LET e == [Entry(t) EXCEPT !.cells = @ \cup pass, !.passes = @ + 1]
        done == CoveredArea(e.cells, e.ref)
    IN  /\ Entry(t).passes < MaxPasses
        /\ IF done * CompleteDen >= CompleteNum * e.ref
             THEN /\ Complete(t)
                  /\ coverage' = [coverage EXCEPT ![t] = NoEntry]
             ELSE /\ coverage' = [coverage EXCEPT ![t] = e]
                  /\ IF rows[t] = NoRow THEN UNCHANGED <<rows, life>>
                     ELSE \E r \in Shrunk(rows[t], e.work, e.area, e.ref - done, e.ref) :
                             SetRow(t, r, [life[t] EXCEPT !.swept = @ \cup pass])
                  /\ UNCHANGED completions

\* Geometry wins over numbers where it can be used.
Report(t, pass, report) ==
    IF Usable(t, pass) THEN ApplyPass(t, pass) ELSE ApplyScalar(t, report)

TaskProgress(t, pass, report, at) == Report(t, pass, report) /\ Observe("task", at)

\* A work-progress reading changes the task's row and advances the watermark
\* of the observations.
ObservationRecorded(t, pass, n, at) ==
    Report(t, pass, Share(n)) /\ Observe("observation", at)

-----------------------------------------------------------------------------
(* Revisions and specification *)

\* The session plans again after a batch, against the watermarks reached.
EndBatch ==
    /\ completions' = {}
    /\ planMarks' = marks
    /\ since' = [c \in Contracts |-> {}]
    /\ UNCHANGED <<rows, coverage, marks, life>>

ApplyInit ==
    /\ rows \in [Tasks -> Rows \cup {NoRow}]
    /\ coverage = [t \in Tasks |-> NoEntry]
    /\ completions = {}
    /\ marks = [c \in Contracts |-> 0]
    /\ planMarks = marks
    /\ since = [c \in Contracts |-> {}]
    /\ life = [t \in Tasks |-> [row |-> rows[t], swept |-> {}, pure |-> TRUE]]

EventTimes == Times \cup {0}

Reports == {Left(n) : n \in 0..Parts} \cup {Share(n) : n \in 0..Parts}

ApplyNext ==
    \/ \E t \in Tasks, at \in EventTimes :
        \/ \E row \in Rows : UpsertTask(t, row, at)
        \/ OrderCancelled(t, at)
        \/ TaskStarted(t, at)
        \/ TaskCompleted(t, at)
        \/ \E pass \in SUBSET Cells :
            \/ \E report \in Reports : TaskProgress(t, pass, report, at)
            \/ \E n \in 0..Parts : ObservationRecorded(t, pass, n, at)
    \/ EndBatch

ApplySpec == ApplyInit /\ [][ApplyNext]_applyVars

-----------------------------------------------------------------------------
(* Properties *)

\* The type of the state.
ApplyTypeOK ==
    /\ rows \in [Tasks -> RowType \cup {NoRow}]
    /\ coverage \in [Tasks -> EntryType \cup {NoEntry}]
    /\ completions \subseteq [task : Tasks, deadline : BOOLEAN]
    /\ marks \in [Contracts -> Nat] /\ planMarks \in [Contracts -> Nat]
    /\ since \in [Contracts -> SUBSET Times]
    /\ life \in [Tasks -> LifeType]

\* A task whose progress is reported by geometry has the work left that the
\* area swept so far leaves of the work it was sent with: in whatever order
\* and however often passes arrive and overlap, each strip counts once.
CoverageFromOriginal ==
    \A t \in Tasks :
        (rows[t] # NoRow /\ life[t].pure) =>
            LET row == life[t].row
                ref == Reference(row)
            IN  rows[t].work \in IF life[t].swept = {} THEN {row.work}
                                 ELSE Nearest(row.work * (ref - CoveredArea(life[t].swept, ref)), ref)

\* The check for a stale plan is exact about time: a source is newly visible
\* exactly when an event since the plan was observed after all the plan saw,
\* in whatever order events arrive.
StaleWhenNewer ==
    \A c \in Contracts : c \in NewlyVisible <=> \E at \in since[c] : at > planMarks[c]

-----------------------------------------------------------------------------
(* The inductive invariant *)

\* A watermark is the newest of what the plan and the events since have seen.
MarksAreNewest ==
    \A c \in Contracts :
        /\ marks[c] >= planMarks[c]
        /\ \A at \in since[c] : at <= marks[c]
        /\ marks[c] = planMarks[c] \/ marks[c] \in since[c]

\* A row that only passes changed is as it was sent before the first, and
\* then its entry holds the row's original quantities and all it was swept.
EntryIsOriginal ==
    \A t \in Tasks :
        (rows[t] # NoRow /\ life[t].pure) =>
            /\ life[t].row # NoRow
            /\ coverage[t] = NoEntry =>
                  /\ life[t].swept = {}
                  /\ rows[t] \in {life[t].row, [life[t].row EXCEPT !.started = TRUE]}
            /\ coverage[t] # NoEntry =>
                  /\ life[t].swept = coverage[t].cells /\ coverage[t].cells # {}
                  /\ coverage[t].work = life[t].row.work
                  /\ coverage[t].ref = Reference(life[t].row)

ApplyInv == ApplyTypeOK /\ MarksAreNewest /\ EntryIsOriginal /\ CoverageFromOriginal

=============================================================================
