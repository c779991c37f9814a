---------------------------- MODULE RevisionDiff ----------------------------
(***************************************************************************)
(* The two reports of what a new plan changes: the explained diff of       *)
(* consecutive revisions of a rolling run (planning/revision_diff.py), and *)
(* the plan diff of the batch reschedule command (solver/reschedule.py,    *)
(* solver/reschedule_pipeline.py), which reads the order rows of a data    *)
(* directory and the schedule of an earlier run.                           *)
(***************************************************************************)
EXTENDS AerialPlan

VARIABLES
    diffs,      \* the revision diffs written last
    rows,       \* order id -> status, in the data directory
    schedule,   \* the schedule of the newest run: order id -> [asset, start]
    planDiff    \* what the newest reschedule wrote
diffVars == <<diffs, rows, schedule, planDiff>>

-----------------------------------------------------------------------------
(* Consecutive revisions *)

Same(prev, new, t) == new.plan[t].asset = prev.plan[t].asset /\ new.plan[t].start = prev.plan[t].start
Universe(rev) == DOMAIN rev.plan \cup rev.unassigned

\* Mutant of Compared: tasks of the new revision.
ComparedNew(prev, new) == Universe(new)
\* The tasks diff_revision_pair looks at.
Compared(prev, new) == DOMAIN prev.plan \cup Universe(new)

Because(prev, new, t) ==
    IF t \in DOMAIN prev.plan /\ t \in new.repaired /\ t \notin new.unassigned THEN "corrective"
    ELSE IF t \in DOMAIN prev.plan /\ t \in DOMAIN new.plan
         THEN IF new.plan[t].frozen THEN "frozen" ELSE "solver"
    ELSE IF t \in DOMAIN prev.plan /\ t \in new.unassigned THEN "unassignable"
    ELSE IF t \in DOMAIN prev.plan THEN "left"
    ELSE IF t \in prev.unassigned THEN "feasible"
    ELSE IF t \notin Universe(prev) THEN "new" ELSE "solver"
Kind(prev, new, t) ==
    IF t \in DOMAIN new.plan
    THEN IF t \in DOMAIN prev.plan THEN "reassigned" ELSE "assigned"
    ELSE IF t \in new.unassigned THEN "unassigned" ELSE "removed"
Bundle(rev, t) == IF t \in DOMAIN rev.plan THEN rev.plan[t].asset ELSE 0
Changed(prev, new) ==
    {t \in Compared(prev, new) :
        /\ t \in DOMAIN prev.plan \/ t \in DOMAIN new.plan
        /\ ~(t \in DOMAIN prev.plan /\ t \in DOMAIN new.plan /\ Same(prev, new, t))}
DiffRevisionPair(prev, new) ==
    [unchanged |-> Cardinality({t \in DOMAIN prev.plan \cap DOMAIN new.plan : Same(prev, new, t)}),
     changes |-> [t \in Changed(prev, new) |->
                    [change |-> Kind(prev, new, t), because |-> Because(prev, new, t),
                     from |-> Bundle(prev, t), to |-> Bundle(new, t)]]]

\* run_revision_diff
RunRevisionDiff ==
    /\ Len(revisions) > 1 /\ Len(diffs) < Len(revisions) - 1
    /\ diffs' = [n \in 1 .. Len(revisions) - 1 |-> DiffRevisionPair(revisions[n], revisions[n + 1])]
    /\ UNCHANGED <<rows, schedule, planDiff>> /\ UNCHANGED vars

-----------------------------------------------------------------------------
(* Reschedule *)

\* _apply_events, on a copy of the rows: an unknown order is only logged.
Marked(table, started) == [o \in DOMAIN table |-> IF o \in started THEN "started" ELSE table[o]]
InStatus(table, status) == {o \in DOMAIN table : table[o] = status}

\* Mutant of Removed: started work counts as removed.
RemovedAll(old, new, frozen) == DOMAIN old \ DOMAIN new
\* _build_plan_diff
Removed(old, new, frozen) == DOMAIN old \ (DOMAIN new \cup frozen)
BuildPlanDiff(old, new, frozen, infeasible) ==
    [reason |-> "solved", frozen |-> frozen, infeasible |-> infeasible,
     added |-> [o \in DOMAIN new \ DOMAIN old |-> new[o]],
     removed |-> Removed(old, new, frozen),
     rescheduled |-> [o \in {u \in DOMAIN old \cap DOMAIN new : old[u] # new[u]} |-> [from |-> old[o], to |-> new[o]]]]
NothingLeft(frozen) ==
    [reason |-> "no_unstarted_orders", frozen |-> frozen, infeasible |-> {}, added |-> Empty, removed |-> {}, rescheduled |-> Empty]

\* run_reschedule: the started orders stay, the pending ones are solved.
Reschedule(started) ==
    /\ planDiff.n < menu.reschedules
    /\ LET table == Marked(rows, started)
           frozen == InStatus(table, "started")
           pending == InStatus(table, "pending")
       IN  /\ \A o \in DOMAIN table : table[o] # "unknown"
           /\ \E new \in UNION {[d -> menu.slots] : d \in SUBSET pending} :
                /\ schedule' = new
                /\ planDiff' = [n |-> planDiff.n + 1, old |-> schedule, new |-> new,
                                diff |-> IF pending = {} THEN NothingLeft(frozen)
                                         ELSE BuildPlanDiff(schedule, new, frozen, pending \ DOMAIN new)]
    /\ UNCHANGED <<diffs, rows>> /\ UNCHANGED vars
\* A row with a status the code does not know ends the run before anything
\* is written.
RescheduleFails ==
    /\ planDiff.n < menu.reschedules /\ \E o \in DOMAIN rows : rows[o] = "unknown"
    /\ planDiff' = [planDiff EXCEPT !.n = @ + 1]
    /\ UNCHANGED <<diffs, rows, schedule>> /\ UNCHANGED vars
\* The data directory is updated between runs.
UpdateRow(o, status) ==
    /\ o \in menu.orders
    /\ rows' = [u \in DOMAIN rows \cup {o} |-> IF u = o THEN status ELSE rows[u]]
    /\ UNCHANGED <<diffs, schedule, planDiff>> /\ UNCHANGED vars

Init ==
    /\ AerialInit
    /\ diffs = <<>> /\ rows = Empty /\ schedule = Empty
    /\ planDiff = [n |-> 0, old |-> Empty, new |-> Empty, diff |-> NothingLeft({})]
Next ==
    \/ AerialNext /\ UNCHANGED diffVars
    \/ RunRevisionDiff
    \/ \E started \in SUBSET menu.orders : Reschedule(started)
    \/ RescheduleFails
    \/ \E o \in menu.orders, status \in {"pending", "started", "completed", "unknown"} : UpdateRow(o, status)
Spec == Init /\ [][Next]_<<vars, diffVars>>

-----------------------------------------------------------------------------
(* Properties *)

(***************************************************************************)
(* The diff of a rolling run tells everything: patching the bundles of a   *)
(* revision with the changes recorded for the next gives the bundles of    *)
(* the next, a task without a record flies at the time it had, every       *)
(* earlier assignment is counted as unchanged or recorded, work said to    *)
(* have left planning is neither assigned nor unassigned, and no frozen    *)
(* assignment is ever recorded as moved, whatever holds were applied.      *)
(* (diff_revision_pair, over what freeze, solve and holds published)       *)
(***************************************************************************)
DiffTellsAll ==
    \A n \in DOMAIN diffs :
        LET prev == revisions[n]
            new == revisions[n + 1]
            changes == diffs[n].changes
        IN  /\ \A t \in DOMAIN prev.plan \cup DOMAIN new.plan :
                IF t \in DOMAIN changes THEN Bundle(new, t) = changes[t].to /\ Bundle(prev, t) = changes[t].from
                ELSE /\ Bundle(new, t) = Bundle(prev, t)
                     /\ new.plan[t].start = prev.plan[t].start /\ new.plan[t].finish = prev.plan[t].finish
            /\ diffs[n].unchanged + Cardinality({t \in DOMAIN changes : changes[t].from # 0}) = Cardinality(DOMAIN prev.plan)
            /\ \A t \in DOMAIN changes :
                /\ changes[t].because = "left" => t \notin Universe(new)
                /\ changes[t].because # "frozen"

(***************************************************************************)
(* The plan diff of a reschedule accounts for the difference between two   *)
(* schedules: what was scheduled and neither removed nor started is        *)
(* scheduled, as recorded if it moved; nothing else is but what was added; *)
(* no started order is dispatched again by the run that froze it.          *)
(* (_build_plan_diff, run_reschedule)                                      *)
(***************************************************************************)
PlanDiffReplays ==
    LET d == planDiff.diff
        stays == DOMAIN planDiff.old \ (d.removed \cup d.frozen)
    IN  /\ d.reason = "solved" =>
            /\ DOMAIN planDiff.new = stays \cup DOMAIN d.added
            /\ \A o \in stays : planDiff.new[o] = IF o \in DOMAIN d.rescheduled THEN d.rescheduled[o].to ELSE planDiff.old[o]
            /\ d.removed \cap d.frozen = {}
        /\ d.frozen \cap DOMAIN planDiff.new = {}

(* A reader of either diff, of a rolling revision or of a reschedule, can  *)
(* reconstruct the new plan from the old one.                              *)
DiffsTellAll == DiffTellsAll /\ PlanDiffReplays
=============================================================================
