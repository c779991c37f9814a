------------------------------ MODULE Allocation ------------------------------
(***************************************************************************)
(* Who works for which cluster (solver/greedy.py, solver/allocation):      *)
(* vehicles, implements and operators are divided among the clusters       *)
(* before each is routed on its own.  The default is one assignment model  *)
(* over all clusters, of which any feasible solution may come back; when   *)
(* it is disabled, oversized or unsolved, clusters reserve greedily in the *)
(* order of their penalties.  A third pass, greedy_assign, picks a pair    *)
(* per task as a hint for the warm start.                                  *)
(*                                                                         *)
(* Vehicles and implements are numbered as in vehicle_index and            *)
(* implement_index.  inp.clusters holds the task ids of each cluster, in   *)
(* the order of the penalties; inp.pairs[t] the feasible pairs of a task,  *)
(* inp.score[t] their scores, urgency and hold discount included.          *)
(***************************************************************************)
EXTENDS Clustering

CONSTANTS
    Horizon,                \* ROUTING_HORIZON_S; holds are weighed over it too
    PairsPerOrder,          \* MAX_PAIRS_PER_ORDER
    OrdersPerResource,      \* PREALLOC_ORDERS_PER_RESOURCE
    MinResources,           \* PREALLOC_MIN_RESOURCES_PER_MULTI_ORDER_CLUSTER
    MaxVehicleUses,         \* MAX_VEHICLE_ASSIGNMENTS
    TopPairs,               \* GLOBAL_ASSIGNMENT_CANDIDATES_PER_CLUSTER
    PairsPerAsset,          \* GLOBAL_ASSIGNMENT_PAIRS_PER_VEHICLE, _PER_IMPLEMENT
    MaxModelPairs           \* GLOBAL_ASSIGNMENT_MAX_MODEL_CANDIDATES

Smallest(a, b) == IF a <= b THEN a ELSE b
Largest(a, b) == IF a >= b THEN a ELSE b

-------------------------------------------------------------------------------
(* greedy_assign *)

\* Descending score; equal scores keep the order of the pairs.
Ranked(inp, t) ==
    Sorted(inp.pairs[t],
        LAMBDA p, q : \/ inp.score[t][p] > inp.score[t][q]
                      \/ inp.score[t][p] = inp.score[t][q]
                         /\ (p[1] < q[1] \/ (p[1] = q[1] /\ p[2] < q[2])))

Regret(inp, t) ==
    LET r == Ranked(inp, t)
    IN IF Len(r) > 1 THEN inp.score[t][r[1]] - inp.score[t][r[2]] ELSE 1000

\* _assignment_order_priority: few implements first, then the larger regret,
\* then the better score.
Scarcer(inp, t, u) ==
    LET key(x) == <<Cardinality({p[2] : p \in inp.pairs[x]}), 0 - Regret(inp, x),
                    0 - inp.score[x][Ranked(inp, x)[1]], x>>
        a == key(t)  b == key(u)
    IN \E i \in 1 .. 4 : a[i] < b[i] /\ \A j \in 1 .. i - 1 : a[j] = b[j]

\* One task takes its best pair whose implement is not claimed.
AssignOne(inp, assigned, t) ==
    LET claimed == {assigned[u][2] : u \in {u \in DOMAIN assigned : assigned[u] # None}}
        free == Filtered(Ranked(inp, t), {p \in inp.pairs[t] : p[2] \notin claimed})
    IN [assigned EXCEPT ![t] = IF free = <<>> THEN None ELSE free[1]]

GreedyAssign(inp, tasks) ==
    FoldLeft(LAMBDA assigned, t : AssignOne(inp, assigned, t),
             [t \in tasks |-> None],
             Sorted({t \in tasks : inp.pairs[t] # {}}, LAMBDA t, u : Scarcer(inp, t, u)))

-------------------------------------------------------------------------------
(* Pre-allocation *)

Known(inp, c) == Filtered(inp.clusters[c], inp.known)

\* cluster_resource_limit
ResourceLimit(n) ==
    LET desired == (n + OrdersPerResource - 1) \div OrdersPerResource
        wanted == IF n > 1 THEN Largest(desired, MinResources) ELSE desired
    IN Smallest(Smallest(n, PairsPerOrder), wanted)

\* collect_pair_candidates: the scores of a pair added up over the orders.
Candidates(inp, c, free) == {p \in UNION {inp.pairs[t] : t \in ToSet(Known(inp, c))} : p \in free}
CandidateScore(inp, c, p) ==
    Total([t \in {t \in ToSet(Known(inp, c)) : p \in inp.pairs[t]} |-> inp.score[t][p]])

\* Both allocators walk the pairs by score, then by vehicle and implement.
ByScore(inp, c, cands) ==
    Sorted(cands,
        LAMBDA p, q : \/ CandidateScore(inp, c, p) > CandidateScore(inp, c, q)
                      \/ CandidateScore(inp, c, p) = CandidateScore(inp, c, q)
                         /\ (p[1] < q[1] \/ (p[1] = q[1] /\ p[2] < q[2])))

\* reserve_best_candidates: one pair per vehicle and per implement.
ReserveBest(inp, c, cands) ==
    LET take(S, p) == IF \/ Cardinality(S) >= ResourceLimit(Len(Known(inp, c)))
                         \/ \E q \in S : q[1] = p[1] \/ q[2] = p[2]
                      THEN S ELSE S \cup {p}
    IN FoldLeft(take, {}, ByScore(inp, c, cands))

\* _truncate_with_diversity: the best pairs, few of any one asset.
Truncate(inp, c, cands) ==
    LET take(S, p) == IF \/ Cardinality(S) >= TopPairs
                         \/ \E i \in {1, 2} :
                               Cardinality({q \in S : q[i] = p[i]}) >= PairsPerAsset
                      THEN S ELSE S \cup {p}
    IN FoldLeft(take, {}, ByScore(inp, c, cands))

Uses(alloc, v) == Cardinality({c \in DOMAIN alloc : \E p \in alloc[c] : p[1] = v})
Unclaimed(alloc, p) == \A c \in DOMAIN alloc : \A q \in alloc[c] : q[2] # p[2]

\* A second look that forgets which implements are claimed.
ReserveClusterReclaims(inp, alloc, c) ==
    LET spare == {p \in UNION {inp.pairs[t] : t \in inp.known} : Uses(alloc, p[1]) < 1 /\ Unclaimed(alloc, p)}
        shared == {p \in UNION {inp.pairs[t] : t \in inp.known} : Uses(alloc, p[1]) < MaxVehicleUses}
        first == Candidates(inp, c, spare)
    IN [alloc EXCEPT ![c] = ReserveBest(inp, c, IF first # {} THEN first ELSE Candidates(inp, c, shared))]

\* _allocate_resources_greedy for one cluster: vehicles of other clusters only
\* when no idle one is left.
ReserveCluster(inp, alloc, c) ==
    LET open(limit) == {p \in UNION {inp.pairs[t] : t \in inp.known} :
                            Uses(alloc, p[1]) < limit /\ Unclaimed(alloc, p)}
        first == Candidates(inp, c, open(1))
    IN [alloc EXCEPT ![c] = ReserveBest(inp, c, IF first # {} THEN first
                                                ELSE Candidates(inp, c, open(MaxVehicleUses)))]

GreedyAllocation(inp) ==
    FoldLeft(LAMBDA alloc, c : ReserveCluster(inp, alloc, c),
             [c \in 1 .. Len(inp.clusters) |-> {}],
             [i \in 1 .. Len(inp.clusters) |-> i])

\* The pairs _collect_cluster_candidates offers the model, and when it is
\* too large to be built.
Offered(inp, c) == Truncate(inp, c, Candidates(inp, c, UNION {inp.pairs[t] : t \in inp.known}))
Oversized(inp) ==
    Total([c \in 1 .. Len(inp.clusters) |-> Cardinality(Offered(inp, c))]) > MaxModelPairs

\* What _add_pair_assignment_block admits.
GlobalAllocations(inp) ==
    LET C == 1 .. Len(inp.clusters)
        one(c) == {S \in SUBSET Offered(inp, c) :
                      /\ Cardinality(S) <= ResourceLimit(Len(Known(inp, c)))
                      /\ \A p, q \in S : p[1] = q[1] => p = q}
    IN {A \in [C -> UNION {one(c) : c \in C}] :
           /\ \A c \in C : A[c] \in one(c)
           /\ \A c, d \in C : \A p \in A[c], q \in A[d] : p[2] = q[2] => <<c, p>> = <<d, q>>
           /\ \A c \in C : \A p \in A[c] : Uses(A, p[1]) <= MaxVehicleUses}

\* build_free_capacity: the longest gap a calendar leaves; merging closes a gap
\* of one second between two windows.
LargestFreeGap(inp, asset) ==
    Max({g[2] - g[1] : g \in {g \in (0 .. Horizon) \X (0 .. Horizon) :
            /\ g[2] >= g[1]
            /\ g[2] - g[1] = 1 => g[1] = 0 \/ g[2] = Horizon
            /\ \A w \in inp.held[asset] : g[2] <= w[1] \/ g[1] >= w[2]}} \cup {0})

\* assign_operator: among the operators of the depot while one is left,
\* certified for most of the cluster's operations, then with the freest
\* calendar, then the first.
Covers(inp, o, c) == Cardinality({inp.task[t].op : t \in ToSet(Known(inp, c))} \cap inp.certified[o])
AssignOperator(inp, chosen, c) ==
    LET left == DOMAIN inp.certified \ {chosen[d] : d \in DOMAIN chosen}
        home == {o \in left : inp.base[o] = inp.depot[c]}
        pool == IF home # {} THEN home ELSE left
        better(o, q) == LET f == Covers(inp, o, c) - Covers(inp, q, c)
                            g == LargestFreeGap(inp, o) - LargestFreeGap(inp, q)
                        IN f > 0 \/ (f = 0 /\ g > 0) \/ (f = 0 /\ g = 0 /\ o <= q)
    IN [chosen EXCEPT ![c] = IF pool = {} THEN None
                             ELSE CHOOSE o \in pool : \A q \in pool : better(o, q)]

GreedyOperators(inp) ==
    FoldLeft(LAMBDA chosen, c : AssignOperator(inp, chosen, c),
             [c \in 1 .. Len(inp.clusters) |-> None],
             [i \in 1 .. Len(inp.clusters) |-> i])

\* _add_operator_assignment_block: at most one each way.
GlobalOperators(inp) ==
    {f \in [1 .. Len(inp.clusters) -> DOMAIN inp.certified \cup {None}] :
        \A c, d \in DOMAIN f : c # d /\ f[c] = f[d] => f[c] = None}

===============================================================================
