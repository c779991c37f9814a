----------------------------- MODULE TimeExpanded -----------------------------
(***************************************************************************)
(* The opt-in alternative to the refinement loop                           *)
(* (solver/cluster/time_expanded.py): a cluster with one bundle and plain  *)
(* tasks is solved once, on a copy of every task per segment of the        *)
(* horizon in which the same polygons are active.  A copy can only be      *)
(* reached within its segment, and what leaves it is priced by the         *)
(* polygons of that segment.                                               *)
(***************************************************************************)
EXTENDS ClusterRouting

CONSTANTS
    MaxExpandedOrders,  \* ROUTE_TIME_EXPANDED_MAX_ORDERS
    MaxSegments         \* ROUTE_TIME_EXPANDED_MAX_SEGMENTS

\* horizon_restriction_segments: their first seconds.
Cuts(R) ==
    {0} \cup {e \in UNION {{w[1], w[2] + 1} : w \in UNION {r.windows : r \in R}} : 0 < e /\ e < Horizon}
Segment(s) == Max({c \in Cuts(Restrictions(1)) : c <= s})

\* _subset_supported, and more than one segment but not too many
Plain(t) == Task(t).pickup = None /\ Task(t).load = 0 /\ Task(t).windows = {}
Expandable ==
    /\ inp.expand /\ K = 1 /\ Len(orders) <= MaxExpandedOrders
    /\ \A a \in DOMAIN inp.held : inp.held[a] = {}
    /\ \A t \in ToSet(orders) : Plain(t)
    /\ Cardinality(Cuts(Restrictions(1))) \in 2 .. MaxSegments

\* _expanded_matrix: what leaves a copy costs what its segment says.
ExpandedSeconds(stop, n) ==
    ArcSeconds(1, stop.node, n, ActivePolygons(Restrictions(1), Segment(stop.at), Segment(stop.at)))

\* The time dimension: driving and service, and any wait after them.
ExpandedDrives(from, n, t) == t >= from.at + Service(1, from.node) + ExpandedSeconds(from, n)

Expands == pc = "search" /\ Expandable
NoLoad == [m \in Materials |-> 0]

\* The vehicle leaves at the planning time.
ExpandedOpen ==
    /\ Expands /\ routes = <<>>
    /\ Extend(<<<<[node |-> Depot, at |-> 0, load |-> NoLoad]>>>>)

\* One copy of a task at most (its disjunction), by the deadline.
ExpandedVisit ==
    /\ Expands /\ Growing
    /\ \E n \in TaskNodes, t \in 0 .. Horizon :
        /\ ~Visited(n) /\ t < Horizon /\ t <= Deadline(n[2])
        /\ ExpandedDrives(Last(routes[1]), n, t)
        /\ Extend(<<Append(routes[1], [node |-> n, at |-> t, load |-> NoLoad])>>)

ExpandedClose ==
    /\ Expands /\ Growing
    /\ \E t \in 0 .. Horizon :
        /\ ExpandedDrives(Last(routes[1]), Depot, t)
        /\ Extend(<<Append(routes[1], [node |-> Depot, at |-> t, load |-> NoLoad])>>)

ExpandedFails == Expandable /\ NoSolution

\* The packages, charged from the expanded matrix; no second search.
ExpandedTravel(s) ==
    LET earlier == {j \in 1 .. s.pos - 1 : routes[1][j].node[1] = "task"}
        from == IF earlier = {} THEN 1 ELSE Max(earlier)
    IN Total([j \in from .. s.pos - 1 |-> ExpandedSeconds(routes[1][j], routes[1][j + 1].node)])
ExpandedExtract ==
    /\ Expands /\ routes # <<>> /\ Closed(routes[1])
    /\ packages' = {[task |-> s.node[2], bundle |-> bundles[1], operator |-> OperatorOf(s.node[2]),
                     start |-> s.at, finish |-> s.fin, travel |-> ExpandedTravel(s)] : s \in TaskStops}
    /\ infeasible' = Reported
    /\ binding' = IF Unserved = <<>> THEN None ELSE "model_infeasible"
    /\ pc' = "done"
    /\ UNCHANGED <<inp, alloc, crew, cluster, bundles, orders, preInf, overrides, round, final, routes, improved>>

\* The travel times are known before the first cluster is built.
BuildTravelTimes == ~NetworkReady /\ NetworkStep /\ UNCHANGED routingVars
Solve ==
    /\ NetworkReady /\ UNCHANGED networkVars
    /\ \/ ~Expands /\ SolveStep
       \/ ExpandedOpen \/ ExpandedVisit \/ ExpandedClose \/ ExpandedFails \/ ExpandedExtract

RoutingNext == BuildTravelTimes \/ Solve
RoutingSpec == Init /\ [][RoutingNext]_vars

-------------------------------------------------------------------------------
(* Properties *)

\* A dispatched task starts by its deadline, is done inside one of its workable
\* windows, and is under way in no blocked period that begins by the deadline:
\* the clamping, and leaving a running block to the start domain, lose nothing.
\* The time-expanded model looks at no blocked period.
WorkInsideWindows ==
    \A p \in packages :
        /\ p.start <= Deadline(p.task)
        /\ Task(p.task).windows # {} =>
              \E w \in Task(p.task).windows : w[1] <= p.start /\ p.finish <= w[2]
        /\ ~Expandable => \A b \in Task(p.task).blocked :
              b[1] <= b[2] /\ b[1] <= Deadline(p.task) /\ b[2] >= 0 => p.start > b[2] \/ p.finish <= b[1]

\* The refinement loop ends only with every leg priced for the restrictions in
\* force while it is driven (an improved solution is not looked at again).  The
\* expanded model is as good for a leg that is over by the end of the segment
\* its stop was reached in; the last instant of the horizon belongs to none.
TimedDetoursPriced ==
    Done /\ ~improved =>
        \A leg \in Legs :
            IF Expandable
            THEN leg[3].at < Horizon /\ Segment(leg[3].at) = Segment(leg[2].at)
                    => ExpandedSeconds(leg[2], leg[3].node) >= LegSeconds(leg)
            ELSE Seconds(leg[1], leg[2].node, leg[3].node) >= LegSeconds(leg)
\* What is dispatched can be carried out: in its windows, by people and machines
\* that are free, with time to drive there, and with what is aboard.
ScheduleSound == WorkInsideWindows /\ OnePlaceAtATime /\ PackagesDriveable /\ LoadsFit
===============================================================================
