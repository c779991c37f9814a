---------------------------- MODULE ClusterRouting ----------------------------
(***************************************************************************)
(* From the tasks of a solve to the dispatch packages of one cluster       *)
(* (solver/cluster, solver/routing_model.py, solver/routing_geography.py). *)
(*                                                                         *)
(* The routing library is modelled by what it is asked for: Search builds  *)
(* any set of routes the constraints the code adds admit (the objective    *)
(* only ranks them), or none.  Around it is the code's own control: the    *)
(* early results, the refinement that re-solves with the detours of timed  *)
(* restrictions until no solved arc meets one unpriced, the improvement    *)
(* pass, and the extraction.                                               *)
(*                                                                         *)
(* Seconds are offsets from the planning time.  A bundle is a pair <<v,    *)
(* i>>; a stop of a route is a node, the second it is reached and the load *)
(* aboard by material.  Driving takes the time of the travel network, or   *)
(* the distance, plus the longest detour of the polygons that are avoided. *)
(***************************************************************************)
EXTENDS Allocation, TLC

CONSTANTS
    Inputs,
    MaxRefinements,         \* ROUTE_RESTRICTION_MAX_REFINEMENTS
    ReloadService,          \* DEPOT_RELOAD_SERVICE_S
    MaxReloads,             \* DEPOT_RELOAD_MAX_TRIPS_PER_VEHICLE
    Unlimited,              \* VEHICLE_LOAD_UNLIMITED_KG
    TightPercent            \* RESOURCE_CONFLICT_TIGHT_UTILIZATION

VARIABLES
    inp,        \* the projected rows of this solve
    pc,
    alloc,      \* allocated_prime_related of each cluster
    crew,       \* operator_ref of each cluster
    cluster,    \* the cluster being solved
    bundles,    \* context.routing_vehicles
    orders,     \* context.cluster_orders
    preInf,     \* context.pre_infeasible
    overrides,  \* _route_time_overrides
    round,      \* _restriction_refinement
    final,      \* _final_restriction_pass
    routes,     \* the solution under construction, one route per bundle
    improved,   \* lns_improved
    packages,
    infeasible, \* the reported task ids (group names for alternatives), in order
    binding     \* resource_conflict.binding_resource

routingVars == <<inp, pc, alloc, crew, cluster, bundles, orders, preInf, overrides, round,
                 final, routes, improved, packages, infeasible, binding>>
vars == <<routingVars, networkVars>>

-------------------------------------------------------------------------------
(* The rows of a solve *)

Spans == SUBSET (Int \X Int)
Polygon(p) == p.extra \in Nat /\ p.windows \in Spans /\ IsFiniteSet(p.windows)

TaskRow(in, r) ==
    /\ r.at \in Int /\ r.pickup \in Int \cup {None} /\ r.deadline \in Int \cup {None}
    /\ r.windows \in Spans /\ r.blocked \in Spans
    /\ r.load \in Nat /\ r.penalty \in Int
    /\ \A p \in in.compat : r.service[p[2]] \in Nat

Assets(in) == DOMAIN in.certified \cup (UNION {{p[1], p[2]} : p \in in.compat})
              \cup ({in.taskOperator[t] : t \in DOMAIN in.task} \ {None})

\* What the projections guarantee: each task is listed once, there is a depot to
\* be nearest to, machines are numbered, and times, loads and scores are numbers.
RowsOk(in) ==
    /\ DOMAIN in = {"task", "order", "known", "sites", "size", "vehicles", "compat", "depotAt", "depots",
                    "clusters", "depot", "pairs", "score", "ops", "capacity", "aggregate", "held", "certified",
                    "base", "taskOperator", "polygons", "lns", "expand", "links", "mode", "opMode"}
    /\ in.order \in Seq(DOMAIN in.task) /\ IsInjective(in.order) /\ in.known \subseteq ToSet(in.order)
    /\ None \notin DOMAIN in.task /\ \A t \in DOMAIN in.task : TaskRow(in, in.task[t])
    /\ in.depotAt \in Seq(ToSet(in.depotAt)) /\ in.depotAt # <<>> /\ \A d \in DOMAIN in.depotAt : in.depotAt[d].at \in Int
    /\ in.size \in Nat \ {0}
    /\ in.compat \in Spans /\ IsFiniteSet(in.compat)
    /\ \A t \in DOMAIN in.task, p \in in.compat : in.score[t][p] \in Int
    /\ DOMAIN in.certified \in SUBSET Int /\ IsFiniteSet(DOMAIN in.certified)
    /\ Assets(in) \subseteq DOMAIN in.held
    /\ \A a \in Assets(in) : in.held[a] \in Spans /\ IsFiniteSet(in.held[a])
    /\ \A p \in in.compat : /\ in.aggregate[p[1]] \in Int
                            /\ \A m \in DOMAIN in.capacity[p[1]] : in.capacity[p[1]][m] \in Int
    /\ IsFiniteSet(in.polygons) /\ \A p \in in.polygons : Polygon(p)
    /\ in.links \in Seq(ToSet(in.links))
    /\ \A l \in ToSet(in.links) :
          /\ l.from \in Int /\ l.to \in Int /\ l.s \in Int /\ l.km \in Int /\ l.line \in Seq(Int)

ASSUME InputsAssumption == \A in \in Inputs : RowsOk(in)
ASSUME NoneAssumption == None \notin Int /\ None # {} /\ None # <<>>
ASSUME LimitsAssumption ==
    /\ Horizon \in Nat /\ ReloadService \in Nat /\ MaxReloads \in Nat /\ Unlimited \in Nat \ {0}
    /\ LengthRatio \in Nat /\ MaxCompose \in Nat /\ MaxRefinements \in Nat
    /\ MaxVehicleUses \in Nat \ {0} /\ PairsPerOrder \in Nat /\ OrdersPerResource \in Nat \ {0} /\ MinResources \in Nat

-------------------------------------------------------------------------------
(* prepare_cluster_context *)

Task(t) == inp.task[t]

\* bundle_supports_operation: an empty list admits everything.
SupportsOp(b, op) == /\ inp.ops[b[1]] = {} \/ op \in inp.ops[b[1]]
                     /\ inp.ops[b[2]] = {} \/ op \in inp.ops[b[2]]

Allocated(c) == Sorted(alloc[c], LAMBDA p, q : p[1] < q[1])
K == Len(bundles)

\* _filter_orders_by_allocated_bundles
Compatible(bs, t) == \E k \in 1 .. Len(bs) : SupportsOp(bs[k], Task(t).op)

OperatorOf(t) == IF inp.taskOperator[t] # None THEN inp.taskOperator[t] ELSE crew[cluster]

-------------------------------------------------------------------------------
(* Nodes and loads *)

Materials == {Task(t).material : t \in {t \in ToSet(orders) : Task(t).load > 0}}
Capacity(v, m) ==
    LET c == IF m \in DOMAIN inp.capacity[v] THEN inp.capacity[v][m] ELSE inp.aggregate[v]
    IN IF c > 0 THEN c ELSE Unlimited
Ceil(a, b) == (a + b - 1) \div b

\* _reload_nodes_per_vehicle for each bundle; none without a load.
Refills(m) ==
    LET total == Total([t \in {t \in ToSet(orders) : Task(t).material = m} |-> Task(t).load])
    IN Ceil(total, Min({Capacity(bundles[k][1], m) : k \in 1 .. K})) - 1
Reloads ==
    IF Materials = {} THEN 0
    ELSE K * Largest(1, Smallest(MaxReloads, Max({Refills(m) : m \in Materials})))

Depot == <<"depot", 0>>
TaskNodes == {<<"task", t>> : t \in ToSet(orders)}
PickupNodes == {<<"pickup", t>> : t \in {t \in ToSet(orders) : Task(t).pickup # None}}
ReloadNodes == {<<"reload", j>> : j \in 1 .. Reloads}
Nodes == {Depot} \cup TaskNodes \cup PickupNodes \cup ReloadNodes

Place(n) == CASE n[1] = "task" -> Task(n[2]).at
              [] n[1] = "pickup" -> Task(n[2]).pickup
              [] OTHER -> 0

\* _vehicle_service_times: the related equipment sets the pace of a task.
Service(k, n) == CASE n[1] = "task" -> Task(n[2]).service[bundles[k][2]]
                   [] n[1] = "reload" -> ReloadService
                   [] OTHER -> 0

\* What leaving a node adds to the load dimension of a material.
MaxCapacity(m) == Max({Capacity(bundles[k][1], m) : k \in 1 .. K})
Demand(n, m) ==
    CASE n[1] = "reload" -> 0 - MaxCapacity(m)
      [] n[1] \in {"task", "pickup"} /\ Task(n[2]).material = m ->
             IF n[1] = "task" /\ Task(n[2]).pickup # None THEN 0 - Task(n[2]).load ELSE Task(n[2]).load
      [] OTHER -> 0

\* Slack is free at reload nodes and zero elsewhere.
Slack(n, m) == IF n[1] = "reload" THEN 0 .. MaxCapacity(m) ELSE {0}

\* Every bundle bounded by the largest compartment of the cluster.
NextLoadsLargest(k, stop) ==
    {l \in [Materials -> 0 .. Max({MaxCapacity(m) : m \in Materials} \cup {0})] :
        \A m \in Materials : \E s \in Slack(stop.node, m) : l[m] = stop.load[m] + Demand(stop.node, m) + s}

\* The load levels the capacity dimensions admit at the next stop.
NextLoads(k, stop) ==
    {l \in [Materials -> 0 .. Max({MaxCapacity(m) : m \in Materials} \cup {0})] :
        \A m \in Materials : /\ l[m] <= Capacity(bundles[k][1], m)
                             /\ \E s \in Slack(stop.node, m) :
                                    l[m] = stop.load[m] + Demand(stop.node, m) + s}

-------------------------------------------------------------------------------
(* Geography *)

Clamp(windows, hi) ==
    {<<Largest(w[1], 0), Smallest(w[2], hi)>> :
        w \in {w \in windows : Smallest(w[2], hi) >= Largest(w[1], 0)}}

\* _bundle_operations
BundleOps(b) == IF inp.ops[b[1]] # {} /\ inp.ops[b[2]] # {} THEN inp.ops[b[1]] \cap inp.ops[b[2]]
                ELSE inp.ops[b[1]] \cup inp.ops[b[2]]

\* route_restrictions_for_vehicle: a polygon whose windows all lie outside the
\* horizon is inactive, one without windows always active.
Restrictions(k) ==
    {[arc |-> p.arc, extra |-> p.extra, windows |-> Clamp(p.windows, Horizon)] :
        p \in {p \in inp.polygons : /\ p.prohibits \cap BundleOps(bundles[k]) # {}
                                    /\ p.windows # {} => Clamp(p.windows, Horizon) # {}}}
Unconditional(R) == {r \in R : r.windows = {}}
ActivePolygons(R, s, e) == {r \in R : r.windows = {} \/ \E w \in r.windows : s <= w[2] /\ e >= w[1]}

\* A network route is as much slower as the way round the polygons is longer; a
\* polyline between other ends is not trusted, a route without one not rerouted.
Detoured(route, a, b, extra) ==
    LET meets == route.line[1] = a /\ Last(route.line) = b
        length == IF meets THEN Traced(route.line) ELSE Apart(a, b)
    IN IF route.line = <<>> THEN route.s ELSE RoundDiv(route.s * (length + extra), length)

\* arc_route: the network's time or the distance, and the detour of the polygons.
ArcSeconds(k, n, m, R) ==
    LET a == Place(n)  b == Place(m)
        extra == Max({r.extra : r \in {r \in R : r.arc = {a, b}}} \cup {0})
        ways == NetworkRoute(inp.mode[bundles[k][1]], a, b)
    IN IF ways = {} THEN Apart(a, b) + extra ELSE Max({Detoured(w, a, b, extra) : w \in ways})

\* build_vehicle_time_matrices, with the overrides of the refinement.
Seconds(k, n, m) ==
    IF <<k, n, m>> \in DOMAIN overrides THEN overrides[<<k, n, m>>]
    ELSE ArcSeconds(k, n, m, Unconditional(Restrictions(k)))

-------------------------------------------------------------------------------
(* When a task may run *)

Deadline(t) == IF Task(t).deadline = None THEN Horizon ELSE Largest(0, Task(t).deadline)
Blocked(t) == Clamp(Task(t).blocked, Deadline(t))

\* _restrict_start_intervals
StartAllowed(t, s) ==
    /\ s \in 0 .. Deadline(t)
    /\ Task(t).windows # {} => \E w \in Clamp(Task(t).windows, Deadline(t)) : s \in w[1] .. w[2]
    /\ \A b \in Blocked(t) : s \notin b[1] .. b[2]

\* Only the start is kept out of the blocked intervals.
StartOnly(t, s, d) == TRUE

\* _add_occupancy_constraints: a block that already runs is left to the starts.
KeepsClear(t, s, d) == \A b \in Blocked(t) : b[1] > 0 => s + d <= b[1] \/ s >= b[2] + 1

\* _enforce_finish_within_windows
FinishFits(t, s, d) ==
    LET W == Clamp(Task(t).windows, Deadline(t))
    IN W # {} => \E w \in W : s >= w[1] /\ s + d <= w[2]

\* _held_window_offsets: half-open busy intervals.
Held(assets) == {w \in Clamp(UNION {inp.held[a] : a \in assets}, Horizon) : w[2] > w[1]}
Clear(s, e, W) == \A w \in W : e <= w[1] \/ s >= w[2]

\* _add_held_vehicle_breaks: no stop inside a break, and a leg has its driving
\* time besides the breaks it spans.
BreakSeconds(s, e, W) == Cardinality({x \in s .. e - 1 : \E w \in W : x \in w[1] .. w[2] - 1})
Drives(k, from, n, t) ==
    LET W == Held({bundles[k][1], bundles[k][2]})
        leave == from.at + Service(k, from.node)
    IN /\ t >= leave
       /\ t - leave - BreakSeconds(leave, t, W) >= Seconds(k, from.node, n)
       /\ Clear(t, t + Service(k, n), W)

-------------------------------------------------------------------------------
(* Routes *)

Closed(r) == r = <<>> \/ (Len(r) > 1 /\ Last(r).node = Depot)
Stops == UNION {{[veh |-> k, pos |-> i, node |-> routes[k][i].node, at |-> routes[k][i].at,
                  fin |-> routes[k][i].at + Service(k, routes[k][i].node)] :
                     i \in 1 .. Len(routes[k])} : k \in 1 .. Len(routes)}
TaskStops == {s \in Stops : s.node[1] = "task"}
Visited(n) == \E s \in Stops : s.node = n

MinService(t) == Min({Service(k, <<"task", t>>) : k \in 1 .. K})
Predecessor(t) == LET p == Task(t).dependsOn
                  IN IF p \in ToSet(orders) /\ p # t THEN p ELSE None

\* _add_precedence_constraints for t starting at s and u starting at r.
Ordered(t, s, u, r) ==
    /\ Predecessor(t) = u => s >= r + MinService(u)
    /\ Predecessor(u) = t => r >= s + MinService(t)

\* Two bundles may work at once, whoever drives them.
OperatorsAnyhow(t, s, d) == TRUE

\* _add_operator_no_overlap and _block_held_operator_windows
OperatorFree(t, s, d) ==
    OperatorOf(t) # None =>
        /\ Clear(s, s + d, Held({OperatorOf(t)}))
        /\ \A o \in TaskStops : OperatorOf(o.node[2]) = OperatorOf(t) => s + d <= o.at \/ o.fin <= s

\* The constraints a task stop meets (windows, pairs, alternatives, operators).
TaskAdmitted(k, t, s) ==
    LET d == Service(k, <<"task", t>>)
    IN /\ SupportsOp(bundles[k], Task(t).op)
       /\ StartAllowed(t, s) /\ KeepsClear(t, s, d) /\ FinishFits(t, s, d)
       /\ Task(t).pickup # None => \E o \in Stops : o.veh = k /\ o.node = <<"pickup", t>>
       /\ Task(t).group # None => \A o \in TaskStops : Task(o.node[2]).group # Task(t).group
       /\ \A o \in TaskStops : Ordered(t, s, o.node[2], o.at)
       /\ OperatorFree(t, s, d)

\* Reload stops are alike: they are taken in their order.
Admitted(k, n, s) ==
    CASE n[1] = "task" -> TaskAdmitted(k, n[2], s)
      [] n[1] = "pickup" -> SupportsOp(bundles[k], Task(n[2]).op)
      [] OTHER -> \A j \in 1 .. n[2] - 1 : Visited(<<"reload", j>>)

\* A pair is served or dropped together, a dependent only with its predecessor.
Complete ==
    /\ Len(routes) = K /\ \A k \in 1 .. K : Closed(routes[k])
    /\ \A n \in PickupNodes : Visited(n) => Visited(<<"task", n[2]>>)
    /\ \A t \in ToSet(orders) : Predecessor(t) # None /\ Visited(<<"task", t>>)
                                   => Visited(<<"task", Predecessor(t)>>)

-------------------------------------------------------------------------------
(* build_capacity_aware_initial_routes *)

RouteOf(pair, t) ==
    LET same == {k \in 1 .. K : pair # None /\ bundles[k][1] = pair[1]}
    IN IF \E k \in same : SupportsOp(bundles[k], Task(t).op) THEN CHOOSE k \in same : TRUE ELSE None
PreferredRoute(t) == RouteOf(GreedyAssign(inp, inp.known)[t], t)

Overflows(w, k, t) == /\ Task(t).pickup = None /\ Task(t).load > 0
                      /\ w.load[k][Task(t).material] + Task(t).load > Capacity(bundles[k][1], Task(t).material)

\* _select_route: preferred, without a reload, few tasks, first.
SelectRoute(w, t) ==
    LET fits == {k \in 1 .. K : /\ SupportsOp(bundles[k], Task(t).op)
                                /\ Task(t).load <= Capacity(bundles[k][1], Task(t).material)}
        rank(k) == <<IF k = PreferredRoute(t) THEN 0 ELSE 1, IF Overflows(w, k, t) THEN 1 ELSE 0,
                     w.count[k], k>>
        before(a, b) == \E i \in 1 .. 4 : a[i] < b[i] /\ \A j \in 1 .. i - 1 : a[j] = b[j]
    IN IF fits = {} THEN None
       ELSE CHOOSE k \in fits : \A j \in fits \ {k} : before(rank(k), rank(j))

\* A seed that never counts what it has put aboard.
SeedOnUncounted(w, t, k) ==
    LET full == k # None /\ Overflows(w, k, t)
        head == IF full THEN <<<<"reload", w.reloads + 1>>>> ELSE <<>>
        pick == IF Task(t).pickup # None THEN <<<<"pickup", t>>>> ELSE <<>>
    IN IF k = None \/ (Task(t).group # None /\ Task(t).group \in w.groups) \/ (full /\ w.reloads >= Reloads)
       THEN w
       ELSE [w EXCEPT !.routes[k] = @ \o head \o pick \o <<<<"task", t>>>>,
                      !.reloads = @ + Len(head), !.count[k] = @ + 1]

SeedOn(w, t, k) ==
    LET full == k # None /\ Overflows(w, k, t)
        head == IF full THEN <<<<"reload", w.reloads + 1>>>> ELSE <<>>
        pick == IF Task(t).pickup # None THEN <<<<"pickup", t>>>> ELSE <<>>
        kept(m) == IF full THEN 0 ELSE w.load[k][m]
        more(m) == IF pick = <<>> /\ m = Task(t).material THEN Task(t).load ELSE 0
    IN IF k = None \/ (Task(t).group # None /\ Task(t).group \in w.groups) \/ (full /\ w.reloads >= Reloads)
       THEN w
       ELSE [w EXCEPT !.routes[k] = @ \o head \o pick \o <<<<"task", t>>>>,
                      !.load[k] = [m \in Materials |-> kept(m) + more(m)],
                      !.reloads = @ + Len(head),
                      !.count[k] = @ + 1,
                      !.groups = IF Task(t).group = None THEN @ ELSE @ \cup {Task(t).group}]
SeedTask(w, t) == SeedOn(w, t, SelectRoute(w, t))

WarmRoutes ==
    FoldLeft(SeedTask,
             [routes |-> [k \in 1 .. K |-> <<>>], load |-> [k \in 1 .. K |-> [m \in Materials |-> 0]],
              count |-> [k \in 1 .. K |-> 0], groups |-> {}, reloads |-> 0],
             orders).routes

-------------------------------------------------------------------------------
(* The solve *)

Init ==
    /\ inp \in Inputs /\ links = inp.links /\ NetworkInit
    /\ pc = "cluster"
    /\ alloc = <<>> /\ crew = <<>> /\ cluster = 0
    /\ bundles = <<>> /\ orders = <<>> /\ preInf = <<>> /\ overrides = <<>> /\ round = 0 /\ final = FALSE
    /\ routes = <<>> /\ improved = FALSE
    /\ packages = {} /\ infeasible = <<>> /\ binding = None

\* The rows the clusters are built from.
ClusterRows(in) ==
    [task |-> in.task, order |-> in.order, sites |-> in.sites, size |-> in.size, vehicles |-> in.vehicles,
     ops |-> in.ops, depotAt |-> in.depotAt, opMode |-> in.opMode]

\* cached_feasible_vehicle_implement_pairs, cached_cluster_specs; the caches are
\* keyed by every input and left out.
Clustered(specs) ==
    [inp EXCEPT !.pairs = [t \in inp.known |-> FeasiblePairs(inp, t)],
                !.clusters = [c \in DOMAIN specs |-> specs[c].tasks],
                !.depot = [c \in DOMAIN specs |-> specs[c].depot]]
BuildClusters ==
    /\ pc = "cluster"
    /\ inp' = Clustered(ClusterSpecs(ClusterRows(inp)))
    /\ pc' = "allocate"
    /\ UNCHANGED <<alloc, crew, cluster, bundles, orders, preInf, overrides, round, final, routes, improved,
                   packages, infeasible, binding>>

\* allocate_resources_global, any feasible solution; pc moves to the cluster.
AllocateGlobal ==
    /\ pc = "allocate" /\ ~Oversized(inp)
    /\ \E A \in GlobalAllocations(inp), f \in GlobalOperators(inp) : alloc' = A /\ crew' = f
    /\ \E c \in 1 .. Len(inp.clusters) : cluster' = c
    /\ pc' = "prepare"
    /\ UNCHANGED <<inp, bundles, orders, preInf, overrides, round, final, routes, improved, packages, infeasible, binding>>

\* _allocate_resources_greedy, when the model is oversized or unsolved.
AllocateGreedy ==
    /\ pc = "allocate"
    /\ alloc' = GreedyAllocation(inp) /\ crew' = GreedyOperators(inp)
    /\ \E c \in 1 .. Len(inp.clusters) : cluster' = c
    /\ pc' = "prepare"
    /\ UNCHANGED <<inp, bundles, orders, preInf, overrides, round, final, routes, improved, packages, infeasible, binding>>

\* The early results; every task id of the cluster gets the shared reason.
Rejected == \/ Known(inp, cluster) = <<>>
            \/ inp.depot[cluster] \notin inp.depots
            \/ alloc[cluster] = {}

RejectCluster ==
    /\ pc = "prepare" /\ Rejected
    /\ infeasible' = inp.clusters[cluster]
    /\ pc' = "done"
    /\ UNCHANGED <<inp, alloc, crew, cluster, bundles, orders, preInf, overrides, round, final, routes,
                   improved, packages, binding>>

Prepare ==
    /\ pc = "prepare" /\ ~Rejected
    /\ bundles' = Allocated(cluster)
    /\ orders' = Filtered(Known(inp, cluster), {t \in inp.known : Compatible(bundles', t)})
    /\ preInf' = Filtered(Known(inp, cluster), {t \in inp.known : ~Compatible(bundles', t)})
    /\ infeasible' = IF orders' = <<>> THEN preInf' ELSE <<>>
    /\ pc' = IF orders' = <<>> THEN "done" ELSE "search"
    /\ UNCHANGED <<inp, alloc, crew, cluster, overrides, round, final, routes, improved, packages, binding>>

\* _solve_with_warm_start: the library builds one route after the other.
Extend(rs) ==
    /\ pc \in {"search", "improve"} /\ routes' = rs
    /\ UNCHANGED <<inp, pc, alloc, crew, cluster, bundles, orders, preInf, overrides, round, final, improved,
                   packages, infeasible, binding>>

Growing == Len(routes) > 0 /\ ~Closed(Last(routes))

SkipVehicle == ~Growing /\ Len(routes) < K /\ Extend(Append(routes, <<>>))

OpenRoute ==
    /\ ~Growing /\ Len(routes) < K
    /\ \E s \in 0 .. Horizon :
          Extend(Append(routes, <<[node |-> Depot, at |-> s, load |-> [m \in Materials |-> 0]]>>))

Visit ==
    /\ Growing
    /\ LET k == Len(routes) IN
       \E n \in Nodes \ {Depot}, t \in 0 .. Horizon :
          /\ ~Visited(n) /\ Drives(k, Last(routes[k]), n, t) /\ Admitted(k, n, t)
          /\ \E l \in NextLoads(k, Last(routes[k])) :
                Extend([routes EXCEPT ![k] = Append(@, [node |-> n, at |-> t, load |-> l])])

CloseRoute ==
    /\ Growing /\ Len(Last(routes)) > 1
    /\ LET k == Len(routes) IN
       \E t \in 0 .. Horizon :
          /\ Drives(k, Last(routes[k]), Depot, t)
          /\ \E l \in NextLoads(k, Last(routes[k])) :
                Extend([routes EXCEPT ![k] = Append(@, [node |-> Depot, at |-> t, load |-> l])])

\* No solution within the limit: every task id of the cluster is marked, and
\* solve_cluster_inner puts the pre-infeasible ones before them.
NoSolution ==
    /\ pc = "search" /\ routes = <<>>
    /\ infeasible' = preInf \o inp.clusters[cluster]
    /\ \E b \in {"solve_budget", "model_infeasible"} : binding' = b
    /\ pc' = "done"
    /\ UNCHANGED <<inp, alloc, crew, cluster, bundles, orders, preInf, overrides, round, final, routes, improved, packages>>

-------------------------------------------------------------------------------
(* Refinement *)

Legs == UNION {{<<k, routes[k][i], routes[k][i + 1]>> : i \in 1 .. Len(routes[k]) - 1} : k \in 1 .. Len(routes)}

\* The seconds the restrictions in force during a leg ask for.
LegSeconds(leg) ==
    LET k == leg[1]
    IN ArcSeconds(k, leg[2].node, leg[3].node,
                  ActivePolygons(Restrictions(k), leg[2].at + Service(k, leg[2].node), leg[3].at))

\* _activated_timed_arc_overrides: each is above the seconds the arc had, its
\* override included.
Activated ==
    LET hot == {leg \in Legs : LegSeconds(leg) > Seconds(leg[1], leg[2].node, leg[3].node)}
        arc(leg) == <<leg[1], leg[2].node, leg[3].node>>
    IN [a \in {arc(leg) : leg \in hot} |-> Max({LegSeconds(leg) : leg \in {g \in hot : arc(g) = a}})]

\* _all_timed_arc_overrides
AllTimed ==
    LET every(a) == ArcSeconds(a[1], a[2], a[3], Restrictions(a[1]))
    IN [a \in {a \in (1 .. K) \X Nodes \X Nodes : a[2] # a[3] /\ every(a) > Seconds(a[1], a[2], a[3])}
           |-> every(a)]

\* Out of refinements: the final pass only knows the arcs it has met.
OverridesKnownOnly == Over(Activated, overrides)
NextOverrides == IF round >= MaxRefinements THEN Over(AllTimed, Over(Activated, overrides))
                 ELSE Over(Activated, overrides)

Refine ==
    /\ pc = "search" /\ Complete /\ ~final
    /\ DOMAIN Activated # {}
    /\ overrides' = NextOverrides
    /\ final' = (round >= MaxRefinements)
    /\ round' = round + 1
    /\ routes' = <<>>
    /\ UNCHANGED <<inp, pc, alloc, crew, cluster, bundles, orders, preInf, improved, packages, infeasible, binding>>

Settled == pc = "search" /\ Complete /\ (final \/ DOMAIN Activated = {})

-------------------------------------------------------------------------------
(* Improvement and extraction *)

\* _maybe_improve_with_lns: any cheaper solution of the same model.
Improve ==
    /\ Settled /\ inp.lns
    /\ pc' = "improve" /\ improved' = TRUE /\ routes' = <<>>
    /\ UNCHANGED <<inp, alloc, crew, cluster, bundles, orders, preInf, overrides, round, final, packages, infeasible, binding>>

\* The travel of the whole route so far.
TravelNotReset(s) ==
    Total([j \in 1 .. s.pos - 1 |-> Seconds(s.veh, routes[s.veh][j].node, routes[s.veh][j + 1].node)])

\* _extract_dispatch_packages: one package per task stop, charged with the
\* travel since the task before it.
TravelIn(s) ==
    LET k == s.veh
        earlier == {j \in 1 .. s.pos - 1 : routes[k][j].node[1] = "task"}
        from == IF earlier = {} THEN 1 ELSE Max(earlier)
    IN Total([j \in from .. s.pos - 1 |-> Seconds(k, routes[k][j].node, routes[k][j + 1].node)])

Packages == {[task |-> s.node[2], bundle |-> bundles[s.veh], operator |-> OperatorOf(s.node[2]),
              start |-> s.at, finish |-> s.fin, travel |-> TravelIn(s)] : s \in TaskStops}

\* unserved_orders: a group is served by any of its members, and reported once.
Unserved ==
    LET single == Filtered(orders, {t \in ToSet(orders) : Task(t).group = None /\ ~Visited(<<"task", t>>)})
        groups == {Task(t).group : t \in ToSet(orders)} \ {None}
        lost == {g \in groups : \A t \in ToSet(orders) : Task(t).group = g => ~Visited(<<"task", t>>)}
    IN single \o SetToSeq(lost)

\* build_resource_conflict; the loads are read at every stop, the end included.
Used == {k \in 1 .. K : routes[k] # <<>>}
Full(m) == \E k \in Used : \E i \in DOMAIN routes[k] :
               routes[k][i].load[m] * 100 >= TightPercent * Capacity(bundles[k][1], m)
Conflict(dropped) ==
    CASE dropped = 0 -> "none"
      [] dropped > 0 /\ \E m \in Materials : Full(m) -> "capacity"
      [] dropped > 0 /\ (\A m \in Materials : ~Full(m))
            /\ \E k \in Used : Last(routes[k]).at * 100 >= TightPercent * Horizon -> "time"
      [] OTHER -> IF Cardinality(Used) = K THEN "fleet" ELSE "other"

\* The tasks no bundle could serve are forgotten.
ReportedUnservedOnly == Unserved
Reported == preInf \o Unserved

Extract ==
    /\ \/ Settled
       \/ pc = "improve" /\ Complete
    /\ packages' = Packages
    /\ infeasible' = Reported
    /\ binding' = Conflict(Len(Unserved))
    /\ pc' = "done"
    /\ UNCHANGED <<inp, alloc, crew, cluster, bundles, orders, preInf, overrides, round, final, routes, improved>>

SolveStep ==
    \/ BuildClusters \/ AllocateGlobal \/ AllocateGreedy
    \/ RejectCluster \/ Prepare
    \/ SkipVehicle \/ OpenRoute \/ Visit \/ CloseRoute \/ NoSolution
    \/ Refine \/ Improve \/ Extract

-------------------------------------------------------------------------------
(* Properties *)

Done == pc = "done"
FirstSearch == pc = "search" /\ routes = <<>> /\ round = 0

\* Whoever works on a task, vehicle, implement or operator, works on nothing else
\* meanwhile, here or on an assignment held from an earlier plan.
OnePlaceAtATime ==
    \A p \in packages :
        /\ \A q \in packages \ {p} :
              \/ p.finish <= q.start \/ q.finish <= p.start
              \/ /\ p.bundle[1] # q.bundle[1] /\ p.bundle[2] # q.bundle[2]
                 /\ p.operator = None \/ p.operator # q.operator
        /\ \A a \in {p.bundle[1], p.bundle[2], p.operator} \ {None} :
              \A w \in inp.held[a] :
                 w[1] < w[2] /\ w[2] > 0 /\ p.start < p.finish => p.finish <= w[1] \/ p.start >= w[2]

\* The schedule can be driven: since every task its bundle began earlier there
\* is time for the travel a package is charged with.
PackagesDriveable ==
    \A p, q \in packages : q.bundle = p.bundle /\ q.start < p.start => p.start - q.finish >= p.travel

\* Between two fills a bundle delivers no more of a material from the depot
\* than its compartment holds.  A refill forgets the cargo of a pickup that is
\* aboard, which is then subtracted all the same: nothing is said of a route on
\* which a fill of that material lies between a pickup and its task.
Straddled(k, m) ==
    \E h, i, j \in 1 .. Len(routes[k]) :
        /\ h < i /\ i < j /\ routes[k][i].node[1] = "reload"
        /\ \E n \in PickupNodes : /\ Task(n[2]).material = m
                                 /\ routes[k][h].node = n /\ routes[k][j].node = <<"task", n[2]>>
Fills(r) == {g \in (1 .. Len(r)) \X (1 .. Len(r)) :
                g[1] < g[2] /\ \A i \in g[1] + 1 .. g[2] - 1 : r[i].node[1] # "reload"}
LoadsFit ==
    Done => \A k \in 1 .. Len(routes) : \A g \in Fills(routes[k]) : \A m \in {m \in Materials : ~Straddled(k, m)} :
        Total([t \in {t \in ToSet(orders) :
                         /\ Task(t).pickup = None /\ Task(t).material = m
                         /\ \E i \in g[1] .. g[2] : routes[k][i].node = <<"task", t>>} |-> Task(t).load])
        <= Capacity(bundles[k][1], m)

\* The seeds of the warm start are consistent: one bundle per task and per group,
\* each reload once, a pickup right before its task; every task is on a bundle
\* that supports its operation and takes its own load, and between two fills no
\* more is carried from the depot than the compartment takes.  The loop does not
\* count the cargo of a pickup, which the capacity dimensions do: they refuse a
\* seed in which cargo is fetched when the compartment is full of deliveries.
Bears(k, t) == SupportsOp(bundles[k], Task(t).op) /\ Task(t).load <= Capacity(bundles[k][1], Task(t).material)
Usable(W) ==
    LET places(n) == {p \in UNION {{k} \X (1 .. Len(W[k])) : k \in 1 .. K} : W[p[1]][p[2]] = n}
        fill(k, i) == Max({j \in 1 .. i : W[k][j][1] = "reload"} \cup {0})
    IN /\ \A n \in Nodes : Cardinality(places(n)) <= 1
       /\ \A t, u \in ToSet(orders) :
             t # u /\ Task(t).group # None /\ Task(t).group = Task(u).group
                => places(<<"task", t>>) = {} \/ places(<<"task", u>>) = {}
       /\ \A n \in PickupNodes : \A p \in places(<<"task", n[2]>>) :
             p[2] > 1 /\ W[p[1]][p[2] - 1] = n
       /\ \A k \in 1 .. K : \A i \in 1 .. Len(W[k]) : W[k][i][1] = "task" => Bears(k, W[k][i][2])
       /\ \A m \in Materials : \A k \in 1 .. K : \A i \in 1 .. Len(W[k]) :
             Total([t \in {t \in ToSet(orders) : /\ Task(t).pickup = None /\ Task(t).material = m
                                                 /\ \E j \in fill(k, i) + 1 .. i : W[k][j] = <<"task", t>>} |->
                       Task(t).load])
             <= Capacity(bundles[k][1], m)
WarmStartUsable == FirstSearch => Usable(WarmRoutes)

\* No task is lost: when the cluster is done each of its known tasks is
\* dispatched once, served by another variant of its group, or reported.  A
\* dispatched one is not reported as well, unless a group bears its name.
Accounted ==
    Done => \A t \in ToSet(Known(inp, cluster)) :
        \/ /\ Cardinality({p \in packages : p.task = t}) = 1
           /\ t \in ToSet(infeasible) => \E u \in ToSet(orders) : Task(u).group = t
        \/ {t, Task(t).group} \cap ToSet(infeasible) # {}
        \/ Task(t).group # None /\ \E p \in packages : Task(p.task).group = Task(t).group

\* The times every arc is priced with are those of the shortest ways.
TravelTimesExact == pc = "cluster" => NetworkExact

\* Neither allocator gives an implement or an operator to two clusters, or a
\* vehicle to more than MaxVehicleUses.
ClaimedOnce ==
    pc \notin {"cluster", "allocate"} =>
        /\ \A c, d \in DOMAIN alloc : \A p \in alloc[c], q \in alloc[d] :
              /\ p[2] = q[2] => <<c, p>> = <<d, q>>
              /\ Uses(alloc, p[1]) <= MaxVehicleUses
        /\ \A c, d \in DOMAIN crew : c # d /\ crew[c] = crew[d] => crew[c] = None

\* The clusters lose and double no task, part no chain and no group, and keep to
\* the target size and to one operation as far as units allow.
ClustersWhole ==
    pc = "allocate" =>
        LET in == ClusterRows(inp)
        IN Partition(in, inp.clusters) /\ Together(in, inp.clusters) /\ Sized(in, inp.clusters)

\* The work is divided, among clusters and then among crews, without loss and
\* without overlap.
DivisionSound == ClustersWhole /\ ClaimedOnce
===============================================================================
