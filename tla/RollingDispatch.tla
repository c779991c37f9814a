--------------------------- MODULE RollingDispatch ---------------------------
(***************************************************************************)
(* The rolling re-planner of fl-op (adapters/rolling): how one plan        *)
(* revision is derived from the previous one after events changed the      *)
(* working data.  Started work and work inside the freeze window is kept,  *)
(* other assignments are carried forward while their task and assets       *)
(* exist, everything else goes to the solver chain, and the self-repairs   *)
(* are recorded on the revision (adapters/rolling/corrective.py).          *)
(*                                                                         *)
(* The events of stream/apply.py that change tasks and assets are actions; *)
(* a batch of them is followed by one Replan, whose time is the observed   *)
(* time of the batch's last event.  Events may be observed in any order,   *)
(* so that time may go back.                                               *)
(*                                                                         *)
(* The solver chain is modelled by what its constraints admit, with any    *)
(* admitted outcome possible: see ChainOutcome.                            *)
(***************************************************************************)
EXTENDS Integers, FiniteSets

CONSTANTS
    Orders,          \* tasks that are rows of the working data
    Services,        \* service tasks the monitoring policy derives
    Vehicles,        \* prime movers
    Implements,      \* related equipment
    Operators,
    NoOperator,      \* a cluster without operator
    None,            \* a task without assignment
    Aerial,          \* tasks flown by UAVs, subject to airspace holds
    Demanding,       \* tasks that charge one unit of depot material
    Durations,       \* possible operation times
    Freeze,          \* FREEZE_WINDOW_MINUTES
    Inventory,       \* units of material at the depot
    MaxVehicleUses,  \* MAX_VEHICLE_ASSIGNMENTS: clusters sharing a vehicle
    MaxTime,         \* bound: latest event time and latest start of a solve
    MaxHold          \* bound: an airspace hold, and how far past MaxTime holds go

Tasks == Orders \cup Services
Assets == Vehicles \cup Implements \cup Operators

\* One assignment of the plan (canonical/plan.py): asset_ids are vehicle and
\* implement, operator_ids the operator; [start, finish) is the planned window.
AllBookings ==
    [start : Nat, finish : Nat, vehicle : Vehicles, implement : Implements,
     operator : Operators \cup {NoOperator}, frozen : BOOLEAN]

ASSUME RollingAssumption ==
    /\ Orders \cap Services = {}
    /\ NoOperator \notin Operators
    /\ None \notin AllBookings
    /\ Aerial \subseteq Tasks
    /\ Demanding \subseteq Tasks
    /\ Durations \subseteq Nat \ {0}
    /\ Freeze \in Nat
    /\ Inventory \in Nat
    /\ MaxVehicleUses \in Nat
    /\ MaxTime \in Nat
    /\ MaxHold \in Nat

VARIABLES
    \* StreamSession.working, as the snapshot shows it.
    status,      \* per task: "absent", "open", "started" or "escalated"
    avail,       \* assets present in the snapshot
    dirty,       \* events were applied since the last revision
    \* The last revision (StreamSession.previous_plan).
    planned,     \* there is one
    asg,         \* per task its assignment
    unassigned,  \* tasks the revision reports as unassigned
    reserved,    \* per task its material reservation
    repairs,     \* per task its reassigned-after-asset-loss actions
    withdrawn,   \* tasks with a service-withdrawn action
    raised,      \* tasks with a service-escalated action
    reasons      \* previous_service_reasons: per service task its reason

data == <<status, avail>>
plan == <<planned, asg, unassigned, reserved, repairs, withdrawn, raised, reasons>>
vars == <<data, dirty, plan>>

OrderStatus == {"absent", "open", "started"}
ServiceStatus == {"absent", "open", "escalated"}

\* Only orders are started, only service tasks are escalated.
Statuses ==
    {s \in [Tasks -> OrderStatus \cup ServiceStatus] :
        /\ \A t \in Orders : s[t] \in OrderStatus
        /\ \A t \in Services : s[t] \in ServiceStatus}

-----------------------------------------------------------------------------
(* Events (stream/apply.py), applied to the working data *)

Current == {t \in Tasks : status[t] # "absent"}

\* order.created adds the row, or replaces it: a started order is open again.
OrderCreated(t) ==
    /\ t \in Orders
    /\ status' = [status EXCEPT ![t] = "open"]
    /\ UNCHANGED avail

\* task.started (and task.progress short of completion); a row that is not
\* there is not started.
TaskStarted(t) ==
    /\ t \in Orders
    /\ status' = [status EXCEPT ![t] = IF @ = "absent" THEN @ ELSE "started"]
    /\ UNCHANGED avail

\* order.cancelled, task.completed, or progress that completes the task.
TaskRemoved(t) ==
    /\ t \in Orders
    /\ status' = [status EXCEPT ![t] = "absent"]
    /\ UNCHANGED avail

\* asset.unavailable removes any asset by id, operators too.
AssetUnavailable(a) ==
    /\ avail' = avail \ {a}
    /\ UNCHANGED status

\* entity.corrected upserts the row of an asset.
AssetCorrected(a) ==
    /\ avail' = avail \cup {a}
    /\ UNCHANGED status

\* observation.recorded: the monitoring policy derives, escalates or no
\* longer derives the service task of the observed asset.  (Telemetry that
\* reports work progress has the effect of TaskStarted or TaskRemoved.)
ObservationRecorded(t, s) ==
    /\ t \in Services
    /\ status' = [status EXCEPT ![t] = s]
    /\ UNCHANGED avail

ApplyEvent ==
    /\ planned
    /\ \/ \E t \in Orders : OrderCreated(t) \/ TaskStarted(t) \/ TaskRemoved(t)
       \/ \E a \in Assets : AssetUnavailable(a) \/ AssetCorrected(a)
       \/ \E t \in Services, s \in ServiceStatus : ObservationRecorded(t, s)
    /\ dirty' = TRUE
    /\ UNCHANGED plan

-----------------------------------------------------------------------------
(* Partition of the tasks (adapters/rolling/compiler.py) *)

Assigned == {t \in Tasks : asg[t] # None}

\* Mutant of BundleAssets: only the vehicle's loss is noticed.
BundleVehicle(b) == {b.vehicle}

\* Assets of an assignment whose loss releases it.
BundleAssets(b) == {b.vehicle, b.implement}

Lost(t) == ~(BundleAssets(asg[t]) \subseteq avail)

\* Mutant of Frozen: the started status is not looked at.
FrozenByWindow(now) == {t \in Assigned : asg[t].start <= now + Freeze}

\* frozen_task_ids
Frozen(now) ==
    {t \in Current : status[t] = "started"}
        \cup {t \in Assigned : asg[t].start <= now + Freeze}

\* release_lost_asset_assignments: only tasks that are still current are
\* released.
Released(now) == {t \in Frozen(now) \cap Assigned \cap Current : Lost(t)}
KeptFrozen(now) == Frozen(now) \ Released(now)

\* Mutant of ForceResolve: every assigned service task is re-solved.
ForceResolveAll == Services \cap Assigned

\* escalated_service_tasks, its first result
ForceResolve == {t \in Services \cap Assigned : status[t] = "escalated"}

\* Mutant of Carried: a task that left is carried.
CarriedDeparted(now) ==
    {t \in Assigned :
        t \notin KeptFrozen(now) /\ t \notin ForceResolve /\ ~Lost(t)}

\* _carried_forward_assignments
Carried(now) ==
    {t \in Assigned \cap Current :
        t \notin KeptFrozen(now) /\ t \notin ForceResolve /\ ~Lost(t)}

Preserved(now) == KeptFrozen(now) \cup Carried(now)

\* Mutant of Resolve: released tasks are forgotten.
ResolveNew(now) == Current \ (Preserved(now) \cup Assigned)

Resolve(now) == Current \ Preserved(now)

\* carried_asset_loss_actions runs over the previous assignments that are not
\* in the frozen ids left by the release.
CarriedLosses(now) == {t \in (Assigned \cap Current) \ KeptFrozen(now) : Lost(t)}

\* Mutant of RepairActions: only released frozen work is recorded.
RepairActionsFrozen(now) == [t \in Tasks |-> IF t \in Released(now) THEN 1 ELSE 0]

\* Reassigned-after-asset-loss actions of one revision.
RepairActions(now) ==
    [t \in Tasks |-> (IF t \in Released(now) THEN 1 ELSE 0)
                        + (IF t \in CarriedLosses(now) THEN 1 ELSE 0)]

\* withdrawn_service_actions
WithdrawnServices == (Services \cap (Assigned \cup unassigned)) \ Current

\* escalated_service_tasks, its second result
NewlyEscalated ==
    {t \in Services : status[t] = "escalated" /\ reasons[t] = "open"}

-----------------------------------------------------------------------------
(* The solver chain *)

Overlaps(a, b) == a.start < b.finish /\ b.start < a.finish

SameOperator(a, b) == a.operator = b.operator /\ a.operator # NoOperator

\* A dispatch of the chain: available assets, not before the planning origin.
Bookings(now) ==
    {[start |-> s, finish |-> s + d, vehicle |-> v, implement |-> i,
      operator |-> o, frozen |-> FALSE] :
        s \in now..MaxTime, d \in Durations, v \in Vehicles \cap avail,
        i \in Implements \cap avail, o \in (Operators \cap avail) \cup {NoOperator}}

\* Mutant of ClearOf: only the start has to avoid the held window.
ClearOfStart(b, h) ==
    b.vehicle = h.vehicle \/ b.implement = h.implement \/ SameOperator(b, h)
        => b.start < h.start \/ b.start >= h.finish

\* Held windows are breaks of the vehicle and of the implement, and block the
\* operator (cluster/routing.py).
ClearOf(b, h) ==
    b.vehicle = h.vehicle \/ b.implement = h.implement \/ SameOperator(b, h)
        => ~Overlaps(b, h)

\* Two dispatches of one solve.  An implement belongs to one cluster and one
\* pair of it, an operator is exclusive to a cluster or shared over disjoint
\* windows, and routing serialises both.  A vehicle may go to MaxVehicleUses
\* clusters, with one implement each, and these are solved independently.
Serialised(b, c) ==
    b.implement = c.implement \/ SameOperator(b, c) => ~Overlaps(b, c)

VehicleUses(f, R) ==
    \A v \in Vehicles :
        Cardinality({f[t].implement : t \in {u \in R : f[u] # None /\ f[u].vehicle = v}})
            <= MaxVehicleUses

\* f dispatches tasks of R and leaves the others infeasible; adm are the
\* tasks whose material demand was charged against the depot's inventory.
ChainOutcome(f, adm, R, H, now) ==
    /\ f \in [R -> Bookings(now) \cup {None}]
    /\ adm \subseteq R \cap Demanding
    /\ Cardinality(adm) <= Inventory
    /\ \A t \in R :
        f[t] # None =>
            /\ t \in Demanding => t \in adm
            /\ \A h \in H : asg[h] # None => ClearOf(f[t], asg[h])
            /\ \A u \in R \ {t} : f[u] # None => Serialised(f[t], f[u])
    /\ VehicleUses(f, R)

-----------------------------------------------------------------------------
(* Normalisation (adapters/rolling/normalizer.py) *)

\* The assignments handed to the airspace pass: the frozen ones marked, the
\* carried ones unmarked, the dispatches of the chain.
Assembled(f, now) ==
    [t \in Tasks |->
        IF t \in KeptFrozen(now) \cap Assigned THEN [asg[t] EXCEPT !.frozen = TRUE]
        ELSE IF t \in Carried(now) THEN [asg[t] EXCEPT !.frozen = FALSE]
        ELSE IF t \in Resolve(now) THEN f[t]
        ELSE None]

\* Flights: aerial tasks of the snapshot with an assignment.
Flights(A) == {t \in Aerial \cap Current : A[t] # None}

\* What deconflict_airspace may hold back: a flight that is not frozen, until
\* a flight that entered no later and is in the air with it has left.  The
\* pair shares a corridor, as when AIRSPACE_CORRIDOR_COUNT is 1; the time
\* buffer and the inbound leg are below the model's unit of time.
HoldsOf(A) ==
    {h \in [Tasks -> 0..MaxHold] :
        \A t \in Tasks :
            h[t] > 0 =>
                /\ t \in Flights(A)
                /\ ~A[t].frozen
                /\ \E u \in Flights(A) \ {t} :
                    /\ Overlaps(A[u], A[t])
                    /\ A[u].start <= A[t].start
                    /\ h[t] <= A[u].finish + h[u] - A[t].start
                /\ A[t].start + h[t] <= MaxTime + MaxHold}

\* apply_airspace_holds
Retimed(A, h) ==
    [t \in Tasks |->
        IF A[t] = None THEN None
        ELSE [A[t] EXCEPT !.start = @ + h[t], !.finish = @ + h[t]]]

\* Mutant of Reservations: those of carried work are dropped.
ReservationsOfFrozen(f, adm, now) ==
    [t \in Tasks |->
        IF t \in KeptFrozen(now) THEN reserved[t]
        ELSE IF t \in adm
             THEN IF f[t] # None THEN "confirmed" ELSE "released"
        ELSE "none"]

\* Reservations of preserved tasks travel unchanged, the chain settles the
\* others against its dispatch (finalize_material_reservations).
Reservations(f, adm, now) ==
    [t \in Tasks |->
        IF t \in Preserved(now) THEN reserved[t]
        ELSE IF t \in adm
             THEN IF f[t] # None THEN "confirmed" ELSE "released"
        ELSE "none"]

\* One revision: compile_rolling_state, the chain and normalize.  The first
\* one is the baseline of StreamSession.start.
Replan(now) ==
    /\ dirty \/ ~planned
    /\ \E f \in [Resolve(now) -> Bookings(now) \cup {None}],
          adm \in SUBSET (Resolve(now) \cap Demanding) :
        /\ ChainOutcome(f, adm, Resolve(now), Preserved(now), now)
        /\ \E h \in HoldsOf(Assembled(f, now)) : asg' = Retimed(Assembled(f, now), h)
        /\ unassigned' = {t \in Resolve(now) : f[t] = None}
        /\ reserved' = Reservations(f, adm, now)
    /\ repairs' = RepairActions(now)
    /\ withdrawn' = WithdrawnServices
    /\ raised' = NewlyEscalated
    /\ reasons' = [t \in Services |-> status[t]]
    /\ planned' = TRUE
    /\ dirty' = FALSE
    /\ UNCHANGED data

Init ==
    /\ status \in Statuses
    /\ avail = Assets
    /\ dirty = FALSE
    /\ planned = FALSE
    /\ asg = [t \in Tasks |-> None]
    /\ unassigned = {}
    /\ reserved = [t \in Tasks |-> "none"]
    /\ repairs = [t \in Tasks |-> 0]
    /\ withdrawn = {}
    /\ raised = {}
    /\ reasons = [t \in Services |-> "absent"]

Next == ApplyEvent \/ \E now \in 0..MaxTime : Replan(now)

Spec == Init /\ [][Next]_vars

-----------------------------------------------------------------------------
(* Properties *)

\* The vehicle and the implement of t's assignment are there.
Whole(t) == asg[t].vehicle \in avail /\ asg[t].implement \in avail

\* The type of the state.
TypeOK ==
    /\ status \in Statuses
    /\ avail \subseteq Assets
    /\ dirty \in BOOLEAN
    /\ planned \in BOOLEAN
    /\ asg \in [Tasks -> AllBookings \cup {None}]
    /\ unassigned \subseteq Tasks
    /\ reserved \in [Tasks -> {"none", "confirmed", "released"}]
    /\ repairs \in [Tasks -> 0..2]
    /\ withdrawn \subseteq Services
    /\ raised \subseteq Services
    /\ reasons \in [Services -> ServiceStatus]

\* No implement and no operator is booked twice at one time, across frozen,
\* carried and re-solved work: held windows reach the re-solve
\* (_held_asset_windows) and nothing moves an assignment but an airspace hold,
\* which takes a third flight to push one of the two into the other.
NoDoubleBooking ==
    \A t, u \in Assigned :
        t # u /\ (Aerial \subseteq {t, u} \/ Aerial \cap {t, u} = {})
            => Serialised(asg[t], asg[u])

\* A revision binds no current task to a vehicle or an implement that is
\* gone (release_lost_asset_assignments, _carried_forward_assignments).
NoDeadBundle ==
    planned /\ ~dirty => \A t \in Assigned \cap Current : Whole(t)

\* What a published revision books can be driven: no implement or operator is
\* wanted twice and no vehicle or implement is gone (corrective.py and the
\* held windows of cluster/routing.py).
BookingsSound == NoDoubleBooking /\ NoDeadBundle

\* A revision gives every current task that has not started either an
\* assignment or a reason why it has none, never both, and no reason to a
\* task that left.
Accounted ==
    planned /\ ~dirty =>
        /\ unassigned \subseteq Current
        /\ unassigned \cap Assigned = {}
        /\ \A t \in Current : status[t] # "started" => t \in Assigned \cup unassigned

\* The confirmed reservations of a revision are those of its assigned tasks
\* that need material, whether frozen, carried or re-solved.
ReservationsMatch ==
    \A t \in Tasks : reserved[t] = "confirmed" <=> t \in Assigned \cap Demanding

\* A revision keeps an assignment of a task that left planning only as
\* frozen work.
DepartedOnlyFrozen ==
    planned /\ ~dirty => \A t \in Assigned \ Current : asg[t].frozen

\* A revision accounts for its tasks: each open one is planned or reported, a
\* departed one is at most frozen, and exactly the planned demands hold
\* material (compiler.py, normalizer.py, finalize_material_reservations).
TasksSettled == Accounted /\ DepartedOnlyFrozen /\ ReservationsMatch

Unmoved(t) ==
    /\ asg'[t] # None
    /\ asg'[t] = [asg[t] EXCEPT !.frozen = asg'[t].frozen]

\* Started work that keeps its vehicle and implement is never moved or
\* dropped by a revision, whatever the time of the event that caused it.
StartedKept ==
    [][\A t \in Assigned : status[t] = "started" /\ Whole(t) => Unmoved(t)]_vars

\* An open flight keeps its bundle and its length, but leaves later because of
\* another flight.
HeldBack(t) ==
    /\ t \in Aerial /\ status[t] # "started"
    /\ \E h \in 1..MaxHold :
          asg'[t] = [asg[t] EXCEPT !.start = @ + h, !.finish = @ + h, !.frozen = FALSE]
    /\ \E u \in (Aerial \cap Current) \ {t} : asg'[u] # None

\* Every move has a reason the events give (the task left, lost an asset, is
\* escalated or is a flight that gives way), and the assignments that lost an
\* asset, no others, are on record as repaired (corrective.py).
MovesExplained ==
    [][/\ \A t \in Assigned \cap Current :
            Unmoved(t) \/ HeldBack(t) \/ ~Whole(t) \/ status[t] = "escalated"
       /\ ~dirty' /\ dirty =>
            \A t \in Tasks :
                repairs'[t] > 0 <=> t \in Assigned \cap Current /\ ~Whole(t)]_vars

=============================================================================
