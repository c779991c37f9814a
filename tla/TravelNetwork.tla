----------------------------- MODULE TravelNetwork -----------------------------
(***************************************************************************)
(* The travel times of a solve (solver/travel_time.py).  The rows of       *)
(* directed links are sorted into one table for any vehicle and one for    *)
(* each travel mode; the network of a mode is its own links over those of  *)
(* anyone.  Every network is closed under shortest paths, one Dijkstra     *)
(* pass per source, and carries the polyline of a path when every link on  *)
(* it declares one.  The aggregate keeps the fastest of all networks.      *)
(*                                                                         *)
(* A link is a record of its ends, its mode, its seconds, its declared     *)
(* distance and its polyline, a sequence of vertices on a line.  A table   *)
(* maps pairs of locations to their seconds and polyline (<<>> for none).  *)
(* A location is the place where it lies on the line.                      *)
(* Costs of links (distance, toll) price arcs only and are left out.       *)
(***************************************************************************)
EXTENDS Integers, Sequences, SequencesExt, FiniteSetsExt, FiniteSets, TLC

CONSTANTS
    None,
    MaxCompose,     \* TRAVEL_NETWORK_MAX_COMPOSE_NODES
    LengthRatio     \* ROUTE_GEOMETRY_MAX_LENGTH_RATIO

VARIABLES
    links,      \* the rows
    row,        \* the rows read
    direct,     \* per mode the table of its links (direct_any, direct_by_mode)
    todo,       \* the networks still to be composed, in order
    sources,    \* sources still to be explored in the network at hand
    composed,   \* the table of the network at hand
    nets,       \* by_mode with composed_paths_by_mode
    aggregate   \* the fastest of all, None until everything is composed

work == <<sources, composed>>
networkVars == <<links, row, direct, todo, work, nets, aggregate>>

NoTable == [p \in {} |-> 0]

\* A function with another value at k, and one over another.
Put(f, k, v) == [x \in DOMAIN f \cup {k} |-> IF x = k THEN v ELSE f[x]]
Over(f, g) == [x \in DOMAIN f \cup DOMAIN g |-> IF x \in DOMAIN f THEN f[x] ELSE g[x]]

\* The elements of a sequence that are in S.
Filtered(seq, S) == FoldLeft(LAMBDA kept, x : IF x \in S THEN Append(kept, x) ELSE kept, <<>>, seq)

\* The sum of the values of a function.
Total(f) == FoldFunction(+, 0, f)

\* A finite set as a sequence: an element has as many before it as precede it.
Sorted(S, before(_, _)) ==
    [r \in 1 .. Cardinality(S) |-> CHOOSE x \in S : Cardinality({y \in S : before(y, x)}) = r - 1]

-------------------------------------------------------------------------------
(* Reading the links *)

\* _coerce_route_geometry: repeated vertices are dropped, one is no polyline.
Coerced(line) ==
    LET kept == FoldLeft(LAMBDA acc, v : IF acc # <<>> /\ Last(acc) = v THEN acc ELSE Append(acc, v), <<>>, line)
    IN IF Len(kept) >= 2 THEN kept ELSE <<>>

\* _route_geometry_matches_distance
Traced(line) ==
    Total([i \in 1 .. Len(line) - 1 |->
              IF line[i] <= line[i + 1] THEN line[i + 1] - line[i] ELSE line[i] - line[i + 1]])
Polyline(link) ==
    LET line == Coerced(link.line)
    IN IF link.km > 0 /\ Traced(line) > link.km * LengthRatio THEN <<>> ELSE line

Leg(link) == [s |-> link.s, line |-> Polyline(link)]
Faster(table, p, s) == p \notin DOMAIN table \/ s < table[p].s
Table(mode) == IF mode \in DOMAIN direct THEN direct[mode] ELSE NoTable

\* One round of the loop of build_travel_lookup: the fastest link of a pair,
\* with its own polyline.
ReadLink ==
    /\ row < Len(links) /\ row' = row + 1
    /\ LET link == links[row + 1]
           pair == <<link.from, link.to>>
       IN direct' = IF link.s > 0 /\ Faster(Table(link.mode), pair, link.s)
                    THEN Put(direct, link.mode, Put(Table(link.mode), pair, Leg(link))) ELSE direct
    /\ UNCHANGED <<links, todo, work, nets, aggregate>>

\* by_mode in its order: anyone, then as the modes first appear.
NetworkOrder ==
    FoldLeft(LAMBDA acc, l : IF l.s <= 0 \/ l.mode \in ToSet(acc) THEN acc ELSE Append(acc, l.mode), <<"any">>, links)
EndRows ==
    /\ row = Len(links) /\ todo = None
    /\ todo' = NetworkOrder
    /\ UNCHANGED <<links, row, direct, work, nets, aggregate>>

-------------------------------------------------------------------------------
(* Composing one network *)

\* Mutant of Merged: the polyline of anyone's link stays on a faster one.
MergedKeepingLines(mode) ==
    [p \in DOMAIN Table("any") \cup DOMAIN Table(mode) |->
        IF p \in DOMAIN Table(mode) /\ Faster(Table("any"), p, Table(mode)[p].s)
        THEN IF p \in DOMAIN Table("any") /\ Table(mode)[p].line = <<>>
             THEN [Table(mode)[p] EXCEPT !.line = Table("any")[p].line] ELSE Table(mode)[p]
        ELSE Table("any")[p]]
\* A mode's link replaces anyone's when it is faster.
Merged(mode) ==
    [p \in DOMAIN Table("any") \cup DOMAIN Table(mode) |->
        IF p \in DOMAIN Table(mode) /\ Faster(Table("any"), p, Table(mode)[p].s)
        THEN Table(mode)[p] ELSE Table("any")[p]]

Ends(table) == UNION {{p[1], p[2]} : p \in DOMAIN table}
Composing == todo # None /\ todo # <<>>
Graph == Merged(Head(todo))
Finished(table) == nets' = Put(nets, Head(todo), table) /\ todo' = Tail(todo)

\* _compose_network: empty, or beyond the cap: direct links only.
TakeDirect ==
    /\ Composing /\ sources = None
    /\ Graph = NoTable \/ Cardinality(Ends(Graph)) > MaxCompose
    /\ Finished(Graph)
    /\ UNCHANGED <<links, row, direct, work, aggregate>>

Compose ==
    /\ Composing /\ sources = None
    /\ Graph # NoTable /\ Cardinality(Ends(Graph)) <= MaxCompose
    /\ sources' = Ends(Graph) /\ composed' = NoTable
    /\ UNCHANGED <<links, row, direct, todo, nets, aggregate>>

\* Mutant of Better: a location keeps the first route that reaches it.
FirstReached(graph, best, node, dist) ==
    {n \in Ends(graph) : <<node, n>> \in DOMAIN graph /\ n \notin DOMAIN best}
\* The neighbours a settled node is a shorter way to.
Better(graph, best, node, dist) ==
    {n \in Ends(graph) : /\ <<node, n>> \in DOMAIN graph
                         /\ n \in DOMAIN best => dist + graph[<<node, n>>].s < best[n]}

\* The heap's least entry; one that has been overtaken is skipped.
Settle(graph, w, dist, node) ==
    LET shorter == IF dist > w.best[node] THEN {} ELSE Better(graph, w.best, node, dist)
        reached(n) == dist + graph[<<node, n>>].s
    IN [best |-> Over([n \in shorter |-> reached(n)], w.best),
        pred |-> Over([n \in shorter |-> node], w.pred),
        heap |-> (w.heap \ {<<dist, node>>}) \cup {<<reached(n), n>> : n \in shorter}]
PopNode(graph, w) ==
    LET least == CHOOSE e \in w.heap : \A f \in w.heap : e[1] < f[1] \/ (e[1] = f[1] /\ e[2] <= f[2])
    IN IF w.heap = {} THEN w ELSE Settle(graph, w, least[1], least[2])

\* The Dijkstra pass of a source: no node is pushed more often than it has ways in.
Pass(graph, source) ==
    FoldLeft(LAMBDA w, i : PopNode(graph, w),
             [best |-> [n \in {source} |-> 0], pred |-> NoTable, heap |-> {<<0, source>>}],
             [i \in 1 .. Cardinality(DOMAIN graph) + 1 |-> i])

\* The way back along the predecessors, turned round.
Way(pass, source, target) ==
    LET back[i \in 0 .. Cardinality(DOMAIN pass.best)] ==
            IF i = 0 THEN target ELSE IF back[i - 1] = source THEN source ELSE pass.pred[back[i - 1]]
        hops == Min({i \in DOMAIN back : back[i] = source})
    IN [i \in 1 .. hops + 1 |-> back[hops + 1 - i]]

\* The polylines of a way joined, if each of its links has one.
Joined(table, way) ==
    LET line(i) == table[<<way[i], way[i + 1]>>].line
        edges == 1 .. Len(way) - 1
    IN IF \E i \in edges : line(i) = <<>> THEN <<>>
       ELSE FoldLeft(LAMBDA acc, i : acc \o (IF acc = <<>> THEN line(i) ELSE Tail(line(i))), <<>>,
                     [i \in edges |-> i])

Reached(graph, source, pass) ==
    [p \in {<<source, t>> : t \in DOMAIN pass.best \ {source}} |->
        [s |-> pass.best[p[2]], line |-> Joined(graph, Way(pass, source, p[2]))]]
ExploreSource ==
    /\ sources \notin {None, {}}
    /\ LET source == Min(sources)
       IN /\ composed' = Over(Reached(Graph, source, Pass(Graph, source)), composed)
          /\ sources' = sources \ {source}
    /\ UNCHANGED <<links, row, direct, todo, nets, aggregate>>

CloseNetwork ==
    /\ sources = {}
    /\ Finished(composed)
    /\ sources' = None
    /\ UNCHANGED <<links, row, direct, composed, aggregate>>

\* Mutant of Fastest: the polyline of the first network stays.
FastestKeepingLines(acc, table) ==
    [p \in DOMAIN acc \cup DOMAIN table |->
        IF p \in DOMAIN table /\ Faster(acc, p, table[p].s)
        THEN IF p \in DOMAIN acc THEN [acc[p] EXCEPT !.s = table[p].s] ELSE table[p] ELSE acc[p]]
\* The aggregate over one more network: the faster time with its polyline.
Fastest(acc, table) ==
    [p \in DOMAIN acc \cup DOMAIN table |->
        IF p \in DOMAIN table /\ Faster(acc, p, table[p].s) THEN table[p] ELSE acc[p]]
Aggregate ==
    /\ todo = <<>> /\ aggregate = None
    /\ aggregate' = FoldLeft(LAMBDA acc, m : Fastest(acc, nets[m]), NoTable, NetworkOrder)
    /\ UNCHANGED <<links, row, direct, todo, work, nets>>

NetworkInit ==
    /\ row = 0 /\ direct = NoTable /\ todo = None
    /\ sources = None /\ composed = NoTable
    /\ nets = NoTable /\ aggregate = None
NetworkStep ==
    \/ ReadLink \/ EndRows \/ TakeDirect \/ Compose \/ ExploreSource \/ CloseNetwork \/ Aggregate
NetworkReady == aggregate # None

-------------------------------------------------------------------------------
(* Asking for a travel time *)

\* get_seconds and get_path ask a mode's network, then that of anyone, each on
\* its own: a route without a polyline is drawn along anyone's.  Without a mode
\* the aggregate answers.
Asked(mode) == IF mode = "any" THEN <<aggregate>>
               ELSE <<IF mode \in DOMAIN nets THEN nets[mode] ELSE NoTable, nets["any"]>>
Answers(mode, pair) ==
    LET asked == Asked(mode)
        known == {i \in DOMAIN asked : pair \in DOMAIN asked[i]}
        drawn == {i \in known : asked[i][pair].line # <<>>}
    IN IF known = {} THEN {}
       ELSE {[s |-> asked[Min(known)][pair].s, line |-> IF drawn = {} THEN <<>> ELSE asked[Min(drawn)][pair].line]}

\* _network_route: a link is taken the other way when there is none this way.
NetworkRoute(mode, a, b) ==
    IF a = b THEN {}
    ELSE IF Answers(mode, <<a, b>>) # {} THEN Answers(mode, <<a, b>>)
    ELSE {[r EXCEPT !.line = Reverse(@)] : r \in Answers(mode, <<b, a>>)}

\* travel_seconds: the network, or else the distance at the common speed.
Apart(a, b) == IF a <= b THEN b - a ELSE a - b
TravelSeconds(mode, a, b) ==
    IF NetworkRoute(mode, a, b) = {} THEN Apart(a, b) ELSE (CHOOSE r \in NetworkRoute(mode, a, b) : TRUE).s

-------------------------------------------------------------------------------
(* Properties *)

\* The links a mode may use, and every way over them without a location twice.
Open(mode) == {l \in ToSet(links) : l.s > 0 /\ l.mode \in {"any", mode}}
Fewest(mode, a, b) == LET S == {l.s : l \in {l \in Open(mode) : l.from = a /\ l.to = b}} IN IF S = {} THEN None ELSE Min(S)
Locations == UNION {{l.from, l.to} : l \in ToSet(links)}
Ways(mode) ==
    {w \in UNION {[1 .. n -> Locations] : n \in 2 .. Cardinality(Locations)} :
        /\ \A i, j \in DOMAIN w : w[i] = w[j] => i = j
        /\ \A i \in 1 .. Len(w) - 1 : Fewest(mode, w[i], w[i + 1]) # None}
Lasts(mode, w) == FoldLeft(LAMBDA acc, i : acc + Fewest(mode, w[i], w[i + 1]), 0, [i \in 1 .. Len(w) - 1 |-> i])

\* The polylines along a way, each of a fastest link.
Lines(mode, w) ==
    {f \in [1 .. Len(w) - 1 -> {Polyline(l) : l \in Open(mode)}] :
        \A i \in DOMAIN f : \E l \in Open(mode) :
            l.from = w[i] /\ l.to = w[i + 1] /\ l.s = Fewest(mode, w[i], w[i + 1]) /\ Polyline(l) = f[i]}
Traces(mode, w, line) ==
    \E f \in Lines(mode, w) :
        /\ \A i \in DOMAIN f : f[i] # <<>>
        /\ line = FoldLeft(LAMBDA acc, i : acc \o (IF acc = <<>> THEN f[i] ELSE Tail(f[i])), <<>>, [i \in DOMAIN f |-> i])

\* A network that is composed knows the ways there are over the links its mode
\* may use, each with the least time any of them takes, and a polyline is that
\* of such a fastest way: no stale heap entry, predecessor or polyline of a
\* slower link survives.  The aggregate is the fastest of the networks.
NetworkExact ==
    NetworkReady =>
        /\ \A m \in DOMAIN nets : Cardinality(Ends(Merged(m))) <= MaxCompose =>
              LET ways == Ways(m)
              IN /\ DOMAIN nets[m] = {<<w[1], Last(w)>> : w \in ways}
                 /\ \A p \in DOMAIN nets[m] :
                       LET mine == {w \in ways : w[1] = p[1] /\ Last(w) = p[2]}
                       IN /\ nets[m][p].s = Min({Lasts(m, w) : w \in mine})
                          /\ nets[m][p].line # <<>> =>
                                \E w \in mine : Lasts(m, w) = nets[m][p].s /\ Traces(m, w, nets[m][p].line)
        /\ \A p \in DOMAIN aggregate :
              /\ \E m \in DOMAIN nets : p \in DOMAIN nets[m] /\ aggregate[p] = nets[m][p]
              /\ \A m \in DOMAIN nets : p \in DOMAIN nets[m] => aggregate[p].s <= nets[m][p].s
===============================================================================
