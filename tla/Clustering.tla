------------------------------ MODULE Clustering ------------------------------
(***************************************************************************)
(* How the chain divides its tasks into clusters                           *)
(* (solver/preprocessing.py): by the nearest depot, then into chunks of    *)
(* about the target size, without parting a task from its predecessors or  *)
(* from the alternatives of its group, and, when vehicles are specialised, *)
(* without mixing operations.                                              *)
(*                                                                         *)
(* in.order is the sequence of the task ids, in.task[t] the row of a task, *)
(* in.depotAt the depots and where they lie, in.sites the locations that   *)
(* are known, in.ops[a] the operations an asset declares, in.opMode[o] the *)
(* travel mode of an operation, in.compat the pairs of a vehicle and an    *)
(* implement that fit together.                                            *)
(***************************************************************************)
EXTENDS TravelNetwork

\* filter_feasible_vehicle_implement_pairs: the implement has to declare the
\* operation, the vehicle only when it declares any.
FeasiblePairs(in, t) ==
    LET op == in.task[t].op
    IN {p \in in.compat : op \in in.ops[p[2]] /\ (in.ops[p[1]] = {} \/ op \in in.ops[p[1]])}
Specialised(in) == \E v \in in.vehicles : in.ops[v] # {}

\* cluster_orders_by_depot: the first of the nearest depots, by the network of
\* the operation; a task whose location is unknown has none.
NearestDepot(in, t) ==
    LET far(d) == TravelSeconds(in.opMode[in.task[t].op], in.depotAt[d].at, in.task[t].at)
    IN IF in.task[t].at \notin in.sites THEN None
       ELSE Min({d \in DOMAIN in.depotAt : \A e \in DOMAIN in.depotAt : far(d) <= far(e)})
AtDepot(in, d) == Filtered(in.order, {t \in ToSet(in.order) : NearestDepot(in, t) = d})

-------------------------------------------------------------------------------
(* Units *)

Parent(in, t) ==
    LET p == in.task[t].dependsOn IN IF p \in ToSet(in.order) \ {t} THEN p ELSE None

\* root_of: up the chain; from a task that runs into a cycle, the task itself.
Root(in, t) ==
    LET N == Len(in.order)
        up[n \in 0 .. N] ==
            LET u == IF n = 0 THEN t ELSE up[n - 1]
            IN IF n = 0 \/ Parent(in, u) = None THEN u ELSE Parent(in, u)
    IN IF Parent(in, up[N]) = None THEN up[N] ELSE t

\* A unit is its key, the root, and its tasks.
ChainUnits(in) ==
    {[key |-> r, tasks |-> Filtered(in.order, {t \in ToSet(in.order) : Root(in, t) = r})] :
        r \in {Root(in, t) : t \in ToSet(in.order)}}

UnitOf(units, t) == CHOOSE u \in units : t \in ToSet(u.tasks)

\* The groups in the order of their first tasks.
Groups(in) ==
    LET add(gs, t) == LET g == in.task[t].group
                      IN IF g = None \/ g \in ToSet(gs) THEN gs ELSE Append(gs, g)
    IN FoldLeft(add, <<>>, in.order)

\* The units of a group's tasks become one, under the key of the first.
MergeGroup(in, units, g) ==
    LET members == Filtered(in.order, {t \in ToSet(in.order) : in.task[t].group = g})
        join(u, t) == LET v == UnitOf(units, t)
                      IN IF ~(ToSet(v.tasks) \subseteq ToSet(u.tasks))
                         THEN [u EXCEPT !.tasks = @ \o v.tasks] ELSE u
        merged == FoldLeft(join, UnitOf(units, members[1]), Tail(members))
    IN {u \in units : ToSet(u.tasks) \cap ToSet(merged.tasks) = {}} \cup {merged}

\* _dependency_units, _merge_alternative_units
Units(in) ==
    FoldLeft(LAMBDA units, g : MergeGroup(in, units, g), ChainUnits(in), Groups(in))

-------------------------------------------------------------------------------
(* Regrouping and splitting *)

\* _regroup_units_by_root_depot for one task: its unit moves to the depot of
\* its root, or stays here when the root has none.
RegroupTask(in, units, w, t) ==
    LET u == UnitOf(units, t)
        here == NearestDepot(in, t)
        home == IF NearestDepot(in, u.key) = None THEN here ELSE NearestDepot(in, u.key)
        placed == Filtered(u.tasks, {x \in ToSet(u.tasks) : NearestDepot(in, x) # None})
    IN IF u.key \in w.emitted THEN w
       ELSE IF Len(u.tasks) = 1 THEN [w EXCEPT !.at[here] = Append(@, <<t>>)]
       ELSE [at |-> [w.at EXCEPT ![home] = Append(@, placed)], emitted |-> w.emitted \cup {u.key}]

Regrouped(in, units) ==
    FoldLeft(LAMBDA w, t : RegroupTask(in, units, w, t),
             [at |-> [d \in DOMAIN in.depotAt |-> <<>>], emitted |-> {}],
             FlattenSeq([d \in DOMAIN in.depotAt |-> AtDepot(in, d)])).at

\* A chunk that is closed only when it is full.
PackWhenFull(units, size) ==
    FoldLeft(LAMBDA chunks, u : IF chunks = <<>> \/ Len(Last(chunks)) >= size THEN Append(chunks, u)
                                ELSE Append(Front(chunks), Last(chunks) \o u),
             <<>>, units)

\* _pack_units
Pack(units, size) ==
    FoldLeft(LAMBDA chunks, u : IF chunks = <<>> \/ Len(Last(chunks)) + Len(u) > size THEN Append(chunks, u)
                                ELSE Append(Front(chunks), Last(chunks) \o u),
             <<>>, units)

\* _split_units_into_operation_subclusters; the order of the operations is any
\* fixed one.
Ops(in, u) == {in.task[t].op : t \in ToSet(u)}
PackByOperation(in, units, size) ==
    LET single == {Ops(in, u) : u \in {u \in ToSet(units) : Cardinality(Ops(in, u)) = 1}}
        of(S) == Pack(Filtered(units, {u \in ToSet(units) : Ops(in, u) = S}), size)
        ranked == SetToSeq(single)
    IN FlattenSeq([i \in DOMAIN ranked |-> of(ranked[i])])
       \o Filtered(units, {u \in ToSet(units) : Cardinality(Ops(in, u)) > 1})

\* _split_into_subclusters: the quotient is rounded half to even, the length of
\* a chunk down.
RoundDiv(n, d) ==
    LET q == n \div d  twice == 2 * (n % d)
    IN IF twice > d \/ (twice = d /\ q % 2 = 1) THEN q + 1 ELSE q
Chunk(n, size) == Max({1, n \div Max({1, RoundDiv(n, size)})})
Split(tasks, size) ==
    LET c == Chunk(Len(tasks), size)
    IN [i \in 1 .. (Len(tasks) + c - 1) \div c |->
           SubSeq(tasks, (i - 1) * c + 1, Min({i * c, Len(tasks)}))]

HasChains(units) == \E u \in units : Len(u.tasks) > 1
DepotChunks(in) ==
    LET units == Units(in)
        grouped == Regrouped(in, units)
    IN [d \in DOMAIN in.depotAt |->
           IF Specialised(in) THEN PackByOperation(in, grouped[d], in.size)
           ELSE IF HasChains(units) THEN Pack(grouped[d], in.size)
           ELSE Split(AtDepot(in, d), in.size)]

\* build_cluster_specs, in the order the greedy allocation sorts them: by
\* descending penalty, then as they were numbered.
ChunkSpecs(in, chunks) ==
    FlattenSeq([d \in DOMAIN chunks |->
        [i \in DOMAIN chunks[d] |-> [depot |-> in.depotAt[d].id, tasks |-> chunks[d][i]]]])
ByPenalty(in, specs) ==
    LET penalty(s) == Total([t \in ToSet(s.tasks) |-> in.task[t].penalty])
        ranked == Sorted(DOMAIN specs, LAMBDA i, j :
                      \/ penalty(specs[i]) > penalty(specs[j])
                      \/ penalty(specs[i]) = penalty(specs[j]) /\ i < j)
    IN [i \in DOMAIN ranked |-> specs[ranked[i]]]
ClusterSpecs(in) == ByPenalty(in, ChunkSpecs(in, DepotChunks(in)))

-------------------------------------------------------------------------------
(* Properties *)

\* No task is lost or doubled when a chain moves to the depot of its root:
\* every task with a known location is in one cluster, once, and no other is.
Partition(in, clusters) ==
    LET places(t) == {p \in UNION {{c} \X (1 .. Len(clusters[c])) : c \in 1 .. Len(clusters)} :
                         clusters[p[1]][p[2]] = t}
    IN \A t \in ToSet(in.order) : Cardinality(places(t)) = (IF in.task[t].at \in in.sites THEN 1 ELSE 0)

\* Whoever the routing has to order or to choose among is in one cluster: the
\* alternatives of a group, and a task with a predecessor that does not lead
\* into a cycle, however groups and chains are entangled.
Together(in, clusters) ==
    LET sited == {t \in ToSet(in.order) : in.task[t].at \in in.sites}
        same(t, u) == \E c \in DOMAIN clusters : {t, u} \subseteq ToSet(clusters[c])
        cyclic(t) == \E S \in SUBSET ToSet(in.order) : t \in S /\ \A x \in S : Parent(in, x) \in S
    IN \A t, u \in sited :
          \/ in.task[t].group # None /\ in.task[t].group = in.task[u].group
          \/ Parent(in, t) = u /\ ~cyclic(t)
          => same(t, u)

\* A cluster outgrows the target only for one unit, or by half without units,
\* and a specialised fleet meets two operations only in one unit.
Sized(in, clusters) ==
    LET units == Units(in)
        most == (IF Specialised(in) \/ HasChains(units) THEN 2 ELSE 3) * in.size
    IN \A c \in DOMAIN clusters :
          \/ \E u \in units : ToSet(clusters[c]) \subseteq ToSet(u.tasks)
          \/ /\ 2 * Len(clusters[c]) <= most
             /\ Specialised(in) => Cardinality(Ops(in, clusters[c])) = 1

===============================================================================
