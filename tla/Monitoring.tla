----------------------------- MODULE Monitoring -----------------------------
(***************************************************************************)
(* The monitoring loop of fl-op.  Readings of stations are assessed        *)
(* (Assessment), a policy derives service tasks from them                  *)
(* (snapshot/monitoring.py), every revision records what became of the     *)
(* tasks of the one before (adapters/rolling/corrective.py,                *)
(* stream/prognosis.py), and at the end of a cycle the record tunes the    *)
(* policy (snapshot/policy_tuning.py): a tuned overlay is written, then an *)
(* audit record.  Rolling sessions (stream/driver.py) and periodic plans   *)
(* (planning/plans.py) share the record and the overlay.                   *)
(*                                                                         *)
(* A policy is a record of its fields and an override a record of some of  *)
(* them.  Percentages of policies are counted in hundredths, so a tuning   *)
(* step is rounded to a hundredth.  Task attributes other than urgency     *)
(* (operation, area, penalty) are left out.                                *)
(***************************************************************************)
EXTENDS Assessment

CONSTANTS
    Assets, Types, TypeOf,
    Anchored,       \* assets with a home location
    Mobile,         \* assets that are not stationary
    Profile,        \* reviewed policy: [base, types, assets]
    Clamps,         \* _TUNABLE_BOUNDS: <<low, high>> of each tunable field
    StepPct,        \* MONITORING_AUTO_TUNE_MAX_STEP_PCT
    FalsePositive, FalseNegative, LateShare,    \* alerts, in percent
    LeadSamples,    \* MONITORING_LEAD_TIME_MIN_SAMPLES
    Menus           \* what may happen in a behaviour: the readings stations
                    \* send, how late they arrive (negative: a clock ahead),
                    \* what else happens, and bounds on days, events, tunings

\* The fleet's scope is no asset type, the tunable fields are those of
\* _TUNABLE_BOUNDS, the profile sets every field, and days and the levels of a
\* battery are numbers.
ASSUME MonitoringAssumption ==
    /\ "all" \notin Types /\ TypeOf \in [Assets -> Types]
    /\ Profile = [base |-> Profile.base, types |-> Profile.types, assets |-> Profile.assets]
    /\ DOMAIN Clamps = {"low", "horizon", "composite"}
    /\ DOMAIN Clamps \cup {"critical", "confidence", "mobile"} \subseteq DOMAIN Profile.base
    /\ \A m \in Menus :
        /\ m.today \in Int /\ m.delays \subseteq Int /\ m.dues \subseteq [Assets -> Int]
        /\ \A r \in m.reports \cup m.landing : r.metric = "battery" => r.value \in Int

VARIABLES
    menu,           \* member of Menus, fixed for a behaviour
    now,            \* the clock, in days
    effective,      \* effective_at of the session
    obs,            \* the session's readings in arrival order
    dataset,        \* readings in the data directory
    due,            \* next planned service day of each asset, 0 for none
    policy,         \* monitoring_policy of the session's builder
    tasks,          \* urgency of each asset's service task in the previous plan
    published,      \* newest periodic plan: [tasks, reasons], or none
    log,            \* prognosis log: totals per asset type and for "all"
    leads,          \* lead-time log: completions by kind and lead
    overlay,        \* the tuned-policy file
    pending,        \* adjustments written to the overlay and not yet audited
    trail,          \* value of each tuned field by the audit trail
    cut,            \* history: a tuning was cut off between its two writes
    events, tunes   \* bounds: events and tunings so far

world == <<menu, due>>
session == <<effective, obs, policy, tasks>>
files == <<dataset, published, log, leads, overlay, trail, cut>>
monitoringVars == <<world, now, session, files, pending, events, tunes>>

NoOverride == [f \in {} |-> 0]
NoOverlay == [base |-> NoOverride, types |-> [t \in Types |-> NoOverride]]
Absent == [state |-> "absent", values |-> NoOverlay]
Torn == [state |-> "torn", values |-> NoOverlay]
NoPlan == [tasks |-> [a \in Assets |-> "none"], reasons |-> [a \in Assets |-> "none"], exists |-> FALSE]
Tunables == DOMAIN Clamps
Scopes == Types \cup {"all"}

-----------------------------------------------------------------------------
(* Policies: contracts/profile.py *)

\* _merged: the fields an override sets replace those of the policy.
Merged(p, override) ==
    [f \in DOMAIN p \cup DOMAIN override |-> IF f \in DOMAIN override THEN override[f] ELSE p[f]]

\* for_asset_type, for_asset
ForType(pol, t) == Merged(pol.base, pol.types[t])
ForAsset(pol, a) == Merged(ForType(pol, TypeOf[a]), pol.assets[a])

\* load_tuned_overrides: an absent or unreadable overlay overrides nothing.
Loaded(file) == IF file.state = "tuned" THEN file.values ELSE NoOverlay

\* Mutant of Layered: a tuned type loses what the profile says of that type.
LayeredReplacing(file) ==
    [Profile EXCEPT !.base = Merged(@, Loaded(file).base),
                    !.types = [t \in Types |-> IF Loaded(file).types[t] = NoOverride THEN @[t] ELSE Loaded(file).types[t]]]
\* apply_tuned_overrides: the overlay on the profile, field by field.
Layered(file) ==
    [Profile EXCEPT !.base = Merged(@, Loaded(file).base),
                    !.types = [t \in Types |-> Merged(@[t], Loaded(file).types[t])]]

-----------------------------------------------------------------------------
(* Rules: snapshot/monitoring.py.  s is a series after assessment.          *)

Confident(r, p) == r.confidence >= p.confidence
Speaks(s, p) == s # <<>> /\ Confident(Last(s), p)
Level(s) == 100 * Last(s).value

\* _battery_reason
BatteryReason(s, p) ==
    IF ~Speaks(s, p) THEN {}
    ELSE IF Level(s) <= p.critical THEN {"critical"}
    ELSE IF Level(s) <= p.low THEN {"low"} ELSE {}

\* _battery_forecast_reason: the drain between the oldest and the newest
\* trusted reading, projected over the horizon.
ForecastReason(series, p) ==
    LET s == Those(series, {k \in DOMAIN series : Confident(series[k], p)})
        span == Last(s).at - s[1].at
        drain == s[1].value - Last(s).value
    IN  IF /\ Len(s) >= 2 /\ span > 0 /\ drain > 0
           /\ Level(s) * span - drain * p.horizon <= p.low * span
        THEN {"forecast"} ELSE {}

\* _health_reason
HealthReason(s, p) ==
    IF ~Speaks(s, p) THEN {}
    ELSE CASE Last(s).value = "failed" -> {"failed"}
           [] Last(s).value = "degraded" -> {"degraded"}
           [] OTHER -> {}

\* _service_overdue_reason
OverdueReason(d, asOf) == IF d # 0 /\ d <= asOf THEN {"overdue"} ELSE {}

Clamp01(x) == Max({0, Min({10000, x})})
HealthScore == [healthy |-> 10000, unknown |-> 7000, degraded |-> 3000, failed |-> 0]
ScoreOf(state) == HealthScore[IF state \in DOMAIN HealthScore THEN state ELSE "unknown"]

\* _composite_reason: the weighted score of the signals there are.
CompositeReason(view, d, p, asOf) ==
    LET battery == Speaks(view.battery.readings, p)
        health == Speaks(view.health, p)
        If(signal, x) == IF signal THEN x ELSE 0
        Sum(b, h, s, w) == If(battery, b) + If(health, h) + If(d # 0, s) + If(view.drifts, w)
        headroom == Clamp01(((Level(view.battery.readings) - p.low) * 10) \div 3)
        score == Sum(35 * headroom, 35 * ScoreOf(Last(view.health).value),
                     20 * Clamp01(((d - asOf) * 10000) \div 30), 0)
    IN  IF Sum(1, 1, 1, 1) >= 2 /\ score < p.composite * Sum(35, 35, 20, 10) THEN {"composite"} ELSE {}

\* What one asset's readings are after assessment.
View(readings, a, asOf) ==
    LET battery == Assessed(readings, a, "battery", asOf)
        moisture == Assessed(readings, a, "moisture", asOf)
    IN  [battery |-> battery, drifts |-> battery.drifts \/ moisture.drifts,
         health |-> Passed(readings, a, "health", asOf)]

Reasons(view, d, p, asOf) ==
    LET battery == BatteryReason(view.battery.readings, p)
        single == battery \cup (IF battery = {} THEN ForecastReason(view.battery.readings, p) ELSE {})
                  \cup HealthReason(view.health, p) \cup OverdueReason(d, asOf)
                  \cup (IF view.drifts THEN {"calibration"} ELSE {})
    IN  IF single # {} THEN single ELSE CompositeReason(view, d, p, asOf)

\* derive_service_tasks: the urgency of each asset's task.
Urgency(a, reasons) ==
    IF reasons = {} \/ a \notin Anchored THEN "none"
    ELSE IF reasons \cap {"critical", "failed"} # {} THEN "escalated" ELSE "plain"
Derived(readings, dues, pol, asOf) ==
    [a \in Assets |->
        LET p == ForAsset(pol, a)
        IN  IF a \in Mobile /\ ~p.mobile THEN "none"
            ELSE Urgency(a, Reasons(View(readings, a, asOf), dues[a], p, asOf))]

-----------------------------------------------------------------------------
(* Outcomes of service tasks *)

\* withdrawn_service_actions, escalated_service_tasks: previous is the plan
\* before, reasons what was recorded of why its tasks were derived.
Withdrawn(previous, current) == {a \in Assets : previous[a] # "none" /\ current[a] = "none"}
Escalated(reasons, current) == {a \in Assets : current[a] = "escalated" /\ reasons[a] = "plain"}
ActiveTasks(current) == {a \in Assets : current[a] # "none"}

\* record_prognosis_outcomes and the sums prognosis_accuracy makes of them;
\* without a map of asset types only the totals are counted.
Counted(counts, current, previous, reasons, of) ==
    LET Of(S) == Cardinality({a \in S : of = "all" \/ TypeOf[a] = of})
    IN  [active |-> counts.active + Of(ActiveTasks(current)),
         withdrawn |-> counts.withdrawn + Of(Withdrawn(previous, current)),
         escalated |-> counts.escalated + Of(Escalated(reasons, current))]
Recorded(current, previous, reasons, split) ==
    [of \in Scopes |-> IF of = "all" \/ split THEN Counted(log[of], current, previous, reasons, of) ELSE log[of]]

Live == pending = {} /\ events < menu.events
Reading(r, delay) ==
    [asset |-> r.asset, metric |-> r.metric, value |-> r.value, flag |-> r.flag, at |-> now - delay]

\* One revision of the rolling session: the builder reloads the policy, the
\* tasks are derived from the readings as of the start of the session.
Revise ==
    /\ Live
    /\ policy' = Layered(overlay)
    /\ tasks' = Derived(obs', due, policy', effective)
    /\ log' = Recorded(tasks', tasks, tasks, TRUE)
    /\ events' = events + 1
    /\ UNCHANGED <<world, now, effective, dataset, published, overlay, pending, trail, cut, tunes>>

\* A station's reading arrives, late or early.
Report(r, delay) ==
    /\ now - delay >= 0
    /\ obs' = Append(obs, Reading(r, delay))
    /\ UNCHANGED leads
    /\ Revise

\* task.completed: the lead is the deadline's of a task row, and a derived
\* service task has no row (record_completions).
Lead(kind, late) == IF kind = "service" THEN "unknown" ELSE IF late THEN "late" ELSE "early"
CompleteTask(kind, late) ==
    /\ leads' = [leads EXCEPT ![<<kind, Lead(kind, late)>>] = @ + 1]
    /\ UNCHANGED obs
    /\ Revise

\* The baseline of a session, from the data directory: its service tasks are
\* remembered and not recorded.
Baseline(file) ==
    /\ effective' = now
    /\ obs' = dataset
    /\ policy' = Layered(file)
    /\ tasks' = Derived(dataset, due, policy', now)
StartSession ==
    /\ Live /\ menu.restarts /\ Baseline(overlay)
    /\ events' = events + 1
    /\ UNCHANGED <<world, now, files, pending, tunes>>

\* A reading reaches the data directory.
Land(r, delay) ==
    /\ Live /\ now - delay >= 0
    /\ dataset' = Append(dataset, Reading(r, delay))
    /\ events' = events + 1
    /\ UNCHANGED <<world, now, session, published, log, leads, overlay, pending, trail, cut, tunes>>

\* run_plan_periodic: reconciled against the newest published plan, whose
\* reasons are missing when its run died before writing them.
PlanPeriodic(dies) ==
    LET current == Derived(dataset, due, Layered(overlay), now)
    IN  /\ Live
        /\ published' = [tasks |-> current, exists |-> TRUE, reasons |-> IF dies THEN NoPlan.reasons ELSE current]
        /\ log' = IF published.exists /\ ~dies
                  THEN Recorded(current, published.tasks, published.reasons, FALSE) ELSE log
        /\ events' = events + 1
        /\ UNCHANGED <<world, now, session, dataset, leads, overlay, pending, trail, cut, tunes>>

Tick ==
    /\ Live /\ now < menu.days /\ now' = now + 1
    /\ UNCHANGED <<world, session, files, pending, events, tunes>>

-----------------------------------------------------------------------------
(* Tuning: snapshot/policy_tuning.py *)

Observed(counts) == counts.active + counts.withdrawn
Above(n, of, alert) == of > 0 /\ 100 * n > alert * of

\* _service_lateness over lead_time_stats: completions of service tasks with
\* a measurable lead.
LateHigh ==
    LET n == leads["service", "early"] + leads["service", "late"]
    IN  n >= LeadSamples /\ Above(leads["service", "late"], n, LateShare)

\* _tuning_direction; the late share speaks for the whole fleet only.
Direction(of) ==
    LET counts == log[of]
        tighten == Above(counts.withdrawn, Observed(counts), FalsePositive)
        loosen == Above(counts.escalated, Observed(counts), FalseNegative) \/ (of = "all" /\ LateHigh)
    IN  CASE tighten /\ ~loosen -> -1 [] loosen /\ ~tighten -> 1 [] OTHER -> 0
Conflicting(of) ==
    /\ Above(log[of].withdrawn, Observed(log[of]), FalsePositive)
    /\ Above(log[of].escalated, Observed(log[of]), FalseNegative) \/ (of = "all" /\ LateHigh)

\* _bounded_step
BoundedStep(f, current, direction) ==
    Max({Clamps[f][1], Min({Clamps[f][2], current + direction * ((current * StepPct) \div 100)})})

\* _apply_steps: a field is stepped from its tuned value or else from base.
Current(scope, base, f) == IF f \in DOMAIN scope THEN scope[f] ELSE base[f]
Moved(scope, base, direction) ==
    {f \in Tunables : direction # 0 /\ BoundedStep(f, Current(scope, base, f), direction) # Current(scope, base, f)}
Stepped(scope, base, direction) ==
    [f \in DOMAIN scope \cup Moved(scope, base, direction) |->
        IF f \in Moved(scope, base, direction) THEN BoundedStep(f, Current(scope, base, f), direction) ELSE scope[f]]

\* Mutant of TypeBase: a type is stepped from the fleet's new values.
TypeBaseCompounded(t, stepped) == Merged(Merged(policy.base, stepped), policy.types[t])
\* What a type's fields are stepped from: the policy the builder holds.
TypeBase(t, stepped) == ForType(policy, t)

NextOverlay ==
    LET old == Loaded(overlay)
        base == Stepped(old.base, policy.base, Direction("all"))
    IN  [base |-> base,
         types |-> [t \in Types |-> Stepped(old.types[t], TypeBase(t, base), Direction(t))]]

\* The adjustments of the next tuning: scope, field and new value.
Adjustments ==
    LET old == Loaded(overlay)
    IN  {<<"all", f, NextOverlay.base[f]>> : f \in Moved(old.base, policy.base, Direction("all"))}
        \cup UNION {{<<t, f, NextOverlay.types[t][f]>> :
                        f \in Moved(old.types[t], TypeBase(t, NextOverlay.base), Direction(t))} : t \in Types}

\* finalize of a rolling session: the overlay is written, the audit record
\* follows.
WriteOverlay ==
    /\ pending = {} /\ tunes < menu.tunes /\ Adjustments # {}
    /\ overlay' = [state |-> "tuned", values |-> NextOverlay]
    /\ pending' = Adjustments
    /\ tunes' = tunes + 1
    /\ UNCHANGED <<world, now, session, dataset, published, log, leads, trail, cut, events>>

\* Signals that conflict, or fields at their clamps, are audited and change
\* no value.
AuditOnly ==
    /\ pending = {} /\ tunes < menu.tunes /\ Adjustments = {}
    /\ \E of \in Scopes : Conflicting(of) \/ Direction(of) # 0
    /\ tunes' = tunes + 1
    /\ UNCHANGED <<world, now, session, files, pending, events>>

\* Mutant of Audited: a fresh trail per record.
AuditedAfresh(records) ==
    [x \in {<<r[1], r[2]>> : r \in records} |-> (CHOOSE r \in records : <<r[1], r[2]>> = x)[3]]
\* The trail after the records, one line per scope.
Audited(records) ==
    LET noted == {<<r[1], r[2]>> : r \in records}
    IN  [x \in noted \cup DOMAIN trail |->
            IF x \in noted THEN (CHOOSE r \in records : <<r[1], r[2]>> = x)[3] ELSE trail[x]]
AppendAudit ==
    /\ pending # {}
    /\ trail' = Audited(pending)
    /\ pending' = {}
    /\ UNCHANGED <<world, now, session, dataset, published, log, leads, overlay, cut, events, tunes>>

\* The process dies while it writes the overlay or before it audits it, and
\* a new session starts.
DieTuning ==
    /\ pending # {}
    /\ overlay' \in {overlay, Torn}
    /\ Baseline(overlay')
    /\ cut' = TRUE /\ pending' = {}
    /\ UNCHANGED <<world, now, dataset, published, log, leads, trail, events, tunes>>

\* The operator reverts to the profile as reviewed.
DeleteOverlay ==
    /\ pending = {} /\ overlay # Absent /\ overlay' = Absent
    /\ UNCHANGED <<world, now, session, dataset, published, log, leads, pending, trail, cut, events, tunes>>

-----------------------------------------------------------------------------
MonitoringInit ==
    /\ menu \in Menus /\ due \in menu.dues
    /\ now = menu.today /\ effective = now /\ obs = <<>> /\ dataset = <<>>
    /\ policy = Profile
    /\ tasks = Derived(<<>>, due, Profile, now)
    /\ published = NoPlan
    /\ log = [of \in Scopes |-> [active |-> 0, withdrawn |-> 0, escalated |-> 0]]
    /\ leads = [x \in {"order", "service"} \X {"early", "late", "unknown"} |-> 0]
    /\ overlay = Absent /\ pending = {} /\ trail = NoOverride /\ cut = FALSE
    /\ events = 0 /\ tunes = 0

MonitoringNext ==
    \/ \E r \in menu.reports, delay \in menu.delays : Report(r, delay)
    \/ \E r \in menu.landing, delay \in menu.delays : Land(r, delay)
    \/ \E kind \in menu.completions, late \in BOOLEAN : CompleteTask(kind, late)
    \/ StartSession
    \/ \E dies \in menu.dies : PlanPeriodic(dies)
    \/ Tick
    \/ WriteOverlay \/ AuditOnly \/ AppendAudit \/ DieTuning \/ DeleteOverlay

-----------------------------------------------------------------------------
(* Properties *)

Swapped(s, k) == [s EXCEPT ![k] = s[k + 1], ![k + 1] = s[k]]

(* Readings that reach the engine in another order lead to the same        *)
(* service tasks: observation_history sorts them by the time they were     *)
(* observed, through downsampling, outliers, faults and drift.  Two        *)
(* readings of one series at one time are told apart by arrival only.      *)
ArrivalOrderIrrelevant ==
    \A k \in 1 .. Len(obs) - 1 :
        (obs[k].at # obs[k + 1].at \/ obs[k].asset # obs[k + 1].asset \/ obs[k].metric # obs[k + 1].metric)
        => Derived(Swapped(obs, k), due, policy, effective) = Derived(obs, due, policy, effective)

(* A burst of readings neither bloats a snapshot nor changes the span of a *)
(* series (_retained): at most one reading more than the limit is kept,    *)
(* and the oldest and the newest time of the window stay, so that the      *)
(* drain of a battery is still measured over the whole window.             *)
BurstKeepsSpan ==
    \A a \in Assets, metric \in {"battery", "moisture", "health"} :
        LET window == InWindow(Trusted(History(obs, a, metric), effective), effective)
            kept == Retained(Trusted(History(obs, a, metric), effective), effective)
        IN  window # <<>> => /\ Len(kept) <= MaxSeries + 1
                             /\ kept[1].at = window[1].at /\ Last(kept) = Last(window)

(* What the loop concludes depends on the readings alone: not on the order *)
(* they arrive in, nor on how many of them a burst brings.                 *)
EvidenceRobust == ArrivalOrderIrrelevant /\ BurstKeepsSpan

(* Every tuned value in the overlay is the one the audit trail recorded    *)
(* last for its scope and field (auto_tune_monitoring_policy), unless a    *)
(* tuning was cut off between its two writes.                              *)
AuditExplains ==
    ~cut /\ pending = {} =>
        LET file == Loaded(overlay)
            Explained(of, values) == \A f \in DOMAIN values : <<of, f>> \in DOMAIN trail /\ trail[<<of, f>>] = values[f]
        IN  Explained("all", file.base) /\ \A t \in Types : Explained(t, file.types[t])

(* An adjustment is written; the policy the session holds may be older     *)
(* than the overlay: the builder has not run since an earlier finalize, or *)
(* the overlay was deleted meanwhile.                                      *)
Tuning == pending = {} /\ pending' # {}

(* Whatever policy the session holds, a finalize moves every value it      *)
(* writes by one bounded step at most, and not out of the clamps: from the *)
(* value in the overlay, else, when the overlay says nothing of the field, *)
(* from the value the session holds.  So two finalizes with no build       *)
(* between them are two steps from the policy in force, and after a revert *)
(* the deleted values come back within a step (_apply_steps).              *)
Filed(file, of) == IF of = "all" THEN Loaded(file).base ELSE Loaded(file).types[of]
HeldFor(of) == IF of = "all" THEN policy.base ELSE ForType(policy, of)
WrittenInBounds ==
    \A of \in Scopes : \A f \in Tunables \cap DOMAIN Filed(overlay', of) :
        LET old == Merged(HeldFor(of), Filed(overlay, of))[f]
            new == Filed(overlay', of)[f]
        IN  100 * Abs(new - old) <= StepPct * old /\ new \in Clamps[f][1] .. Clamps[f][2]

(* When the session holds the policy in force, a finalize moves the policy *)
(* of an asset by one bounded step in every field and never out of the     *)
(* clamps, also when the fleet and the asset's type are tuned at once      *)
(* (_bounded_step, _apply_steps).                                          *)
OneBoundedStep ==
    \A a \in Assets, f \in Tunables :
        LET old == ForAsset(policy, a)[f]
            new == ForAsset(Layered(overlay'), a)[f]
        IN  100 * Abs(new - old) <= StepPct * old /\ new \in Clamps[f][1] .. Clamps[f][2]

(* Such a tuning against false positives never derives a service task that *)
(* the same readings did not call for before, and one against false        *)
(* negatives never drops one ("tightening lowers each so service fires     *)
(* later; loosening raises each so it fires earlier"): the single rules,   *)
(* the forecast and the composite score all lean the same way.             *)
TuningLeansOneWay ==
    \A a \in Assets :
        LET before == Derived(obs, due, policy, effective)[a]
            after == Derived(obs, due, Layered(overlay'), effective)[a]
            both == {Direction("all"), Direction(TypeOf[a])}
        IN  /\ 1 \notin both /\ before = "none" => after = "none"
            /\ -1 \notin both /\ before # "none" => after # "none"

(* Every tuning is bounded, one from the policy in force is one step of    *)
(* it, one way, and what is in the overlay can be read in the audit trail. *)
TuningAccountable ==
    [][/\ Tuning => WrittenInBounds /\ (policy = Layered(overlay) => OneBoundedStep /\ TuningLeansOneWay)
       /\ AuditExplains']_monitoringVars

(* A reading that is not ahead of the clock is never taken for a future    *)
(* one (CLOCK_SKEW_TOLERANCE_S).                                           *)
CurrentReadingsTrusted == \A k \in DOMAIN obs : obs[k].at <= now => obs[k].at <= effective + Skew
=============================================================================
