----------------------------- MODULE SolverChain -----------------------------
(***************************************************************************)
(* The solver chain of fl-op (solver/chain.py, run_solver_chain): tasks    *)
(* pass weather, time-window and restriction filters, are clustered so     *)
(* that precedence chains and delivery alternatives stay together, lose    *)
(* tasks without operator or material, are solved cluster by cluster in    *)
(* the pool, and what was dispatched is settled against precedence,        *)
(* alternatives and material reservations.                                 *)
(*                                                                         *)
(* Which tasks a filter or the routing search drops is a free choice; what *)
(* is modelled is what each stage does with the tasks it keeps and drops,  *)
(* and how the stages agree in the end.  Infeasibility records are counted *)
(* per label: a task id, or the id of a group of alternatives.             *)
(***************************************************************************)
EXTENDS Integers, FiniteSets, FiniteSetsExt

CONSTANTS
    Tasks,
    NoTask,
    Groups,        \* ids of groups of alternatives
    NoGroup,
    Clusters,
    NoCluster,
    Depots,
    DepotOf,       \* depot_ref of a cluster
    Inventory,     \* inventory_material of a depot
    Inputs         \* planning inputs considered

\* A planning input: predecessor and alternative group of each task, the
\* tasks whose location is known, and the material each task consumes.
InputType ==
    [pred : [Tasks -> Tasks \cup {NoTask}], alt : [Tasks -> Groups \cup {NoGroup}],
     sited : SUBSET Tasks, need : [Tasks -> Nat]]

ASSUME ChainAssumption ==
    /\ NoTask \notin Tasks /\ NoGroup \notin Groups /\ NoCluster \notin Clusters
    /\ Tasks \cap Groups = {} /\ IsFiniteSet(Tasks)
    /\ DepotOf \in [Clusters -> Depots]
    /\ Inventory \in [Depots -> Nat]
    /\ Inputs \subseteq InputType

VARIABLES
    inp,        \* the planning input
    pc,         \* the stage of the chain
    kept,       \* orders that passed the filters (orders_raw)
    records,    \* infeasibility records per label
    cluster,    \* per task the cluster it was put into
    live,       \* tasks still in a cluster's task_ids
    uncharged,  \* clustered tasks whose material has not been looked at
    remaining,  \* material left per depot
    res,        \* per task the status of its material reservation
    unsolved,   \* clusters whose result is not in
    lost,       \* clusters whose result the pool lost
    out         \* dispatched tasks

vars == <<inp, pc, kept, records, cluster, live, uncharged, remaining, res, unsolved, lost, out>>

Labels == Tasks \cup Groups

\* One more record for each label of L.
Record(L) == records' = [l \in Labels |-> IF l \in L THEN records[l] + 1 ELSE records[l]]

-----------------------------------------------------------------------------
(* Filters before clustering *)

\* A filter keeps some orders and records the others.
Filter(from, to, S) ==
    /\ pc = from
    /\ S \subseteq kept
    /\ kept' = kept \ S
    /\ Record(S)
    /\ pc' = to
    /\ UNCHANGED <<inp, cluster, live, uncharged, remaining, res, unsolved, lost, out>>

ApplyWeatherFilter(S) == Filter("weather", "window", S)
ApplyTimeWindowFilter(S) == Filter("window", "restriction", S)
ApplyLocationRestrictions(S) == Filter("restriction", "dependency", S)

\* Mutant of Orphans: only predecessors that have no predecessor cascade.
OrphansOfRoots == {t \in kept : inp.pred[t] \in Tasks \ kept /\ inp.pred[inp.pred[t]] = NoTask}

\* Orders whose predecessor was excluded.
Orphans == {t \in kept : inp.pred[t] \in Tasks \ kept}

\* apply_dependency_filter excludes one more dependent.
ExcludeDependent(t) ==
    /\ pc = "dependency"
    /\ t \in Orphans
    /\ kept' = kept \ {t}
    /\ Record({t})
    /\ UNCHANGED <<inp, pc, cluster, live, uncharged, remaining, res, unsolved, lost, out>>

EndDependency ==
    /\ pc = "dependency"
    /\ Orphans = {}
    /\ pc' = "cluster"
    /\ UNCHANGED <<inp, kept, records, cluster, live, uncharged, remaining, res, unsolved, lost, out>>

-----------------------------------------------------------------------------
(* Clustering *)

Parent(t) == IF inp.pred[t] \in kept \ {t} THEN inp.pred[t] ELSE NoTask

Ancestors(t) ==
    {u \in kept :
        \A S \in SUBSET kept :
            (t \in S /\ \A x \in S : Parent(x) # NoTask => Parent(x) \in S) => u \in S}

\* The ancestor that has no parent; there is none where the references run
\* into a cycle.
Roots(t) == {r \in Ancestors(t) : Parent(r) = NoTask}

\* The root of a task's chain; in a cycle each task is its own root.
RootOf(t) == IF Roots(t) # {} THEN CHOOSE r \in Roots(t) : TRUE ELSE t

\* Mutant of Together: alternatives may be solved apart.
SameRoot(t, u) == RootOf(t) = RootOf(u)

\* Mutant of Together: a chain may be solved apart.
SameAlternative(t, u) == inp.alt[t] # NoGroup /\ inp.alt[t] = inp.alt[u]

\* Tasks that _dependency_units and _merge_alternative_units keep together.
Together(t, u) ==
    RootOf(t) = RootOf(u) \/ (inp.alt[t] # NoGroup /\ inp.alt[t] = inp.alt[u])

UnitOf(t) ==
    {u \in kept :
        \A S \in SUBSET kept :
            (t \in S /\ \A x \in S, y \in kept : Together(x, y) => y \in S) => u \in S}

\* Ways of putting the tasks whose location is known into clusters without
\* splitting a unit.  A task without a location is skipped.
Clusterings ==
    {f \in [Tasks -> Clusters \cup {NoCluster}] :
        /\ \A t \in Tasks : f[t] = NoCluster <=> t \notin kept \cap inp.sited
        /\ \A t \in kept \cap inp.sited : \A u \in UnitOf(t) \cap inp.sited : f[t] = f[u]}

\* Mutant of BuildClusterSpecs: looking for the root of a cycle never ends.
BuildClusterSpecsAcyclic(f) ==
    /\ pc = "cluster"
    /\ f \in Clusterings
    /\ \A t \in kept : Roots(t) # {}
    /\ cluster' = f
    /\ live' = kept \cap inp.sited
    /\ pc' = "operators"
    /\ UNCHANGED <<inp, kept, records, uncharged, remaining, res, unsolved, lost, out>>

BuildClusterSpecs(f) ==
    /\ pc = "cluster"
    /\ f \in Clusterings
    /\ cluster' = f
    /\ live' = kept \cap inp.sited
    /\ pc' = "operators"
    /\ UNCHANGED <<inp, kept, records, uncharged, remaining, res, unsolved, lost, out>>

-----------------------------------------------------------------------------
(* Operators and material *)

\* Mutant of QualifyOperators: the tasks are dropped silently.
QualifySilently(S) ==
    /\ pc = "operators"
    /\ S \subseteq live
    /\ live' = live \ S
    /\ uncharged' = {t \in live \ S : inp.need[t] > 0}
    /\ pc' = "material"
    /\ UNCHANGED <<inp, kept, records, cluster, remaining, res, unsolved, lost, out>>

\* apply_operator_qualification drops the tasks S.
QualifyOperators(S) ==
    /\ pc = "operators"
    /\ S \subseteq live
    /\ live' = live \ S
    /\ uncharged' = {t \in live \ S : inp.need[t] > 0}
    /\ Record(S)
    /\ pc' = "material"
    /\ UNCHANGED <<inp, kept, cluster, remaining, res, unsolved, lost, out>>

DepotFor(t) == DepotOf[cluster[t]]

\* Mutant of ChargeMaterial: any balance that is not negative is enough.
ChargeBeyond(t) ==
    /\ pc = "material"
    /\ t \in uncharged
    /\ uncharged' = uncharged \ {t}
    /\ IF remaining[DepotFor(t)] >= 0
         THEN /\ remaining' = [remaining EXCEPT ![DepotFor(t)] = @ - inp.need[t]]
              /\ res' = [res EXCEPT ![t] = "provisional"]
              /\ UNCHANGED <<live, records>>
         ELSE /\ live' = live \ {t}
              /\ Record({t})
              /\ UNCHANGED <<remaining, res>>
    /\ UNCHANGED <<inp, pc, kept, cluster, unsolved, lost, out>>

\* apply_material_limits for one demanding task: charged and reserved, or
\* infeasible.
ChargeMaterial(t) ==
    /\ pc = "material"
    /\ t \in uncharged
    /\ uncharged' = uncharged \ {t}
    /\ IF inp.need[t] <= remaining[DepotFor(t)]
         THEN /\ remaining' = [remaining EXCEPT ![DepotFor(t)] = @ - inp.need[t]]
              /\ res' = [res EXCEPT ![t] = "provisional"]
              /\ UNCHANGED <<live, records>>
         ELSE /\ live' = live \ {t}
              /\ Record({t})
              /\ UNCHANGED <<remaining, res>>
    /\ UNCHANGED <<inp, pc, kept, cluster, unsolved, lost, out>>

\* Clusters that have a task when the pool starts.
EndMaterial ==
    /\ pc = "material"
    /\ uncharged = {}
    /\ unsolved' = {cluster[t] : t \in live}
    /\ pc' = "pool"
    /\ UNCHANGED <<inp, kept, records, cluster, live, uncharged, remaining, res, lost, out>>

-----------------------------------------------------------------------------
(* The pool *)

TasksIn(c) == {t \in live : cluster[t] = c}

\* The routing serves at most one of the alternatives of a group.
OneVariant(S) == \A t, u \in S : (t # u /\ inp.alt[t] # NoGroup) => inp.alt[t] # inp.alt[u]

\* It serves a dependent only with its predecessor, where it is given both.
WithPredecessor(given, S) == \A t \in S : inp.pred[t] \in given => inp.pred[t] \in S

\* unserved_orders: a task of its own, or a group none of whose members the
\* routing served.
Unserved(given, S) ==
    {t \in given \ S : inp.alt[t] = NoGroup}
        \cup {g \in Groups : /\ \E t \in given : inp.alt[t] = g
                             /\ \A t \in S : inp.alt[t] # g}

\* A cluster is solved: the bundle cannot serve the tasks P, the routing
\* serves S of the others.
SolveCluster(c, P, S) ==
    /\ pc = "pool"
    /\ c \in unsolved
    /\ P \subseteq TasksIn(c)
    /\ S \subseteq TasksIn(c) \ P
    /\ OneVariant(S) /\ WithPredecessor(TasksIn(c) \ P, S)
    /\ unsolved' = unsolved \ {c}
    /\ out' = out \cup S
    /\ Record(P \cup Unserved(TasksIn(c) \ P, S))
    /\ UNCHANGED <<inp, pc, kept, cluster, live, uncharged, remaining, res, lost>>

\* A cluster fails as a whole: no bundle, an exception, a dead worker or a
\* timeout.
FailCluster(c) ==
    /\ pc = "pool"
    /\ c \in unsolved
    /\ unsolved' = unsolved \ {c}
    /\ Record(TasksIn(c))
    /\ UNCHANGED <<inp, pc, kept, cluster, live, uncharged, remaining, res, lost, out>>

\* The routing finds no solution: the tasks P the bundle cannot serve are
\* recorded, and then all tasks of the cluster, P too.
NoSolution(c, P) ==
    /\ pc = "pool"
    /\ c \in unsolved
    /\ P \subseteq TasksIn(c) /\ P # TasksIn(c)
    /\ unsolved' = unsolved \ {c}
    /\ records' = [l \in Labels |->
            records[l] + (IF l \in P THEN 1 ELSE 0) + (IF l \in TasksIn(c) THEN 1 ELSE 0)]
    /\ UNCHANGED <<inp, pc, kept, cluster, live, uncharged, remaining, res, lost, out>>

\* The pool returns nothing for a cluster (ClusterPool, OnlyDoneLost).
LoseCluster(c) ==
    /\ pc = "pool"
    /\ c \in unsolved
    /\ unsolved' = unsolved \ {c}
    /\ lost' = lost \cup {c}
    /\ UNCHANGED <<inp, pc, kept, records, cluster, live, uncharged, remaining, res, out>>

EndPool ==
    /\ pc = "pool"
    /\ unsolved = {}
    /\ pc' = "outcomes"
    /\ UNCHANGED <<inp, kept, records, cluster, live, uncharged, remaining, res, unsolved, lost, out>>

-----------------------------------------------------------------------------
(* Settling *)

\* Dispatched tasks whose predecessor is planned with them and not served.
Violating == {t \in out : inp.pred[t] \in kept \ out}

\* enforce_dependency_outcomes withdraws one dispatch.
Withdraw(t) ==
    /\ pc = "outcomes"
    /\ t \in Violating
    /\ out' = out \ {t}
    /\ Record({t})
    /\ UNCHANGED <<inp, pc, kept, cluster, live, uncharged, remaining, res, unsolved, lost>>

EndOutcomes ==
    /\ pc = "outcomes"
    /\ Violating = {}
    /\ pc' = "collapse"
    /\ UNCHANGED <<inp, kept, records, cluster, live, uncharged, remaining, res, unsolved, lost, out>>

Variants(g) == {t \in Tasks : inp.alt[t] = g}

\* Groups with a failure of a variant, or of the group, and no dispatch.
FailedGroups ==
    {g \in Groups : /\ Variants(g) # {} /\ Variants(g) \cap out = {}
                    /\ \E l \in Variants(g) \cup {g} : records[l] > 0}

\* _collapse_alternative_infeasible: one record per failed group.
CollapseAlternatives ==
    /\ pc = "collapse"
    /\ records' = [l \in Labels |->
            IF l \in Groups THEN (IF l \in FailedGroups THEN 1 ELSE 0)
            ELSE IF inp.alt[l] # NoGroup THEN 0 ELSE records[l]]
    /\ pc' = "reserve"
    /\ UNCHANGED <<inp, kept, cluster, live, uncharged, remaining, res, unsolved, lost, out>>

\* Mutant of FinalizeReservations: settled against what the clusters hold.
FinalizeLive ==
    /\ pc = "reserve"
    /\ res' = [t \in Tasks |->
            IF res[t] = "provisional" THEN (IF t \in live THEN "confirmed" ELSE "released")
            ELSE res[t]]
    /\ pc' = "done"
    /\ UNCHANGED <<inp, kept, records, cluster, live, uncharged, remaining, unsolved, lost, out>>

FinalizeReservations ==
    /\ pc = "reserve"
    /\ res' = [t \in Tasks |->
            IF res[t] = "provisional" THEN (IF t \in out THEN "confirmed" ELSE "released")
            ELSE res[t]]
    /\ pc' = "done"
    /\ UNCHANGED <<inp, kept, records, cluster, live, uncharged, remaining, unsolved, lost, out>>

-----------------------------------------------------------------------------
(* Specification *)

Init ==
    /\ inp \in Inputs
    /\ pc = "weather"
    /\ kept = Tasks
    /\ records = [l \in Labels |-> 0]
    /\ cluster = [t \in Tasks |-> NoCluster]
    /\ live = {} /\ uncharged = {}
    /\ remaining = Inventory
    /\ res = [t \in Tasks |-> "none"]
    /\ unsolved = {} /\ lost = {} /\ out = {}

FilterStep ==
    \/ \E S \in SUBSET kept :
        ApplyWeatherFilter(S) \/ ApplyTimeWindowFilter(S) \/ ApplyLocationRestrictions(S)
    \/ \E t \in kept : ExcludeDependent(t)
    \/ EndDependency

AdmissionStep ==
    \/ \E f \in [Tasks -> Clusters \cup {NoCluster}] : BuildClusterSpecs(f)
    \/ \E S \in SUBSET live : QualifyOperators(S)
    \/ \E t \in uncharged : ChargeMaterial(t)
    \/ EndMaterial

PoolStep ==
    \/ \E c \in unsolved :
        \/ \E P \in SUBSET TasksIn(c) :
            NoSolution(c, P) \/ \E S \in SUBSET TasksIn(c) : SolveCluster(c, P, S)
        \/ FailCluster(c) \/ LoseCluster(c)
    \/ EndPool

SettleStep ==
    \/ \E t \in out : Withdraw(t)
    \/ EndOutcomes \/ CollapseAlternatives \/ FinalizeReservations

Next == FilterStep \/ AdmissionStep \/ PoolStep \/ SettleStep

Spec == Init /\ [][Next]_vars

\* The chain is one sequential process, and pool_solve returns.
FairSpec == Spec /\ WF_vars(Next)

-----------------------------------------------------------------------------
(* Properties *)

Stages ==
    {"weather", "window", "restriction", "dependency", "cluster", "operators", "material",
     "pool", "outcomes", "collapse", "reserve", "done"}

\* The type of the state.
TypeOK ==
    /\ inp \in Inputs /\ pc \in Stages
    /\ kept \subseteq Tasks /\ records \in [Labels -> Nat]
    /\ cluster \in [Tasks -> Clusters \cup {NoCluster}]
    /\ live \subseteq Tasks /\ uncharged \subseteq Tasks
    /\ remaining \in [Depots -> Nat]
    /\ res \in [Tasks -> {"none", "provisional", "confirmed", "released"}]
    /\ unsolved \subseteq Clusters /\ lost \subseteq Clusters
    /\ out \subseteq Tasks

\* Tasks the chain forgets: of a lost cluster, or skipped by the clustering.
Forgotten == {t \in kept : t \notin inp.sited \/ (t \in live /\ cluster[t] \in lost)}

\* Every task is dispatched or has an infeasibility record, never both,
\* wherever in the chain it was dropped; only a task the chain forgets has
\* neither.
Accounted ==
    pc = "done" =>
        \A t \in Tasks : inp.alt[t] = NoGroup =>
            /\ t \in out => records[t] = 0
            /\ t \notin out => (records[t] > 0 <=> t \notin Forgotten)

\* Of a group of alternatives one variant is dispatched and nothing is
\* recorded, or none is and the failure is recorded once for the group.
GroupServedOnce ==
    pc = "done" =>
        \A g \in Groups :
            /\ \A t, u \in Variants(g) \cap out : t = u
            /\ \A t \in Variants(g) : records[t] = 0
            /\ Variants(g) \cap out # {} => records[g] = 0
            /\ (Variants(g) \cap out = {} /\ Variants(g) \ Forgotten # {}) => records[g] = 1

\* A dispatched task has its predecessor dispatched, whether the predecessor
\* was lost to a filter, to operators or material, to the routing, or with
\* its cluster.
PredecessorServed ==
    pc = "done" => \A t \in out : inp.pred[t] \in Tasks => inp.pred[t] \in out

\* Except in a cycle, both are in the same cluster, where the routing model
\* orders them.
ChainInOneCluster ==
    pc \in {"pool", "outcomes", "done"} =>
        \A t \in live : (inp.pred[t] \in live /\ Roots(t) # {})
            => cluster[t] = cluster[inp.pred[t]]

\* The relations between tasks hold across clusters: alternatives, precedence,
\* and the clustering that lets the routing keep both.
RelationsServed == GroupServedOnce /\ PredecessorServed /\ ChainInOneCluster

Total(f, S) == MapThenSumSet(LAMBDA t : f[t], S)

\* The tasks whose material was charged at depot d, whatever became of the
\* reservation.
ChargedAt(d) ==
    {t \in Tasks : cluster[t] # NoCluster /\ DepotFor(t) = d /\ res[t] # "none"}

\* At each depot the charges and what remains add up to the inventory.
ChargesAddUp ==
    \A d \in Depots : Total(inp.need, ChargedAt(d)) + remaining[d] = Inventory[d]

\* No depot is charged beyond its inventory, whatever becomes of the charges
\* (apply_material_limits charges the tasks one by one against the balance).
MaterialCharged ==
    /\ ChargesAddUp
    /\ \A d \in Depots : Total(inp.need, ChargedAt(d)) <= Inventory[d]

\* What the plan reserves is what it uses: a confirmed reservation for each
\* dispatched task that consumes material, and for no other; one that was
\* charged in vain is released.
ReservationsMatch ==
    pc = "done" =>
        \A t \in Tasks :
            /\ res[t] = "confirmed" <=> (t \in out /\ inp.need[t] > 0)
            /\ res[t] # "provisional"

\* Material is settled: at every step no more is charged than is there, and at
\* the end what is reserved is what the dispatch uses.
MaterialSettled == MaterialCharged /\ ReservationsMatch

\* The cascades of the dependency filter and of the withdrawal end.
ChainEnds == <>(pc = "done")

=============================================================================
