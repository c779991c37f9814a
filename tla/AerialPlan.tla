----------------------------- MODULE AerialPlan -----------------------------
(***************************************************************************)
(* What happens to a solved drone plan before it is published: altitude    *)
(* corridors and dispatch holds (planning/airspace.py), the holds applied  *)
(* to the assignments, the recharge queue of every hub                     *)
(* (planning/charging.py) and the KPIs (planning/drone_kpis.py).  The plan *)
(* of a revision is a function from the assigned tasks to [asset, start,   *)
(* finish, frozen].  The map is a line: a place is a number, a lateral     *)
(* path a sequence of places, a polygon an interval.  Task, asset and hub  *)
(* ids are numbers, in the order of the ids of the code.                   *)
(***************************************************************************)
EXTENDS Integers, Sequences, SequencesExt, FiniteSetsExt, Functions

CONSTANTS
    Assets,         \* asset -> [mode, hub, parked, speed, rate, capacity, mover]
    Hubs,           \* hub -> [at, slots, power]; slots and power 0 when absent
    Buffer,         \* AIRSPACE_TIME_BUFFER_S
    Separation,     \* AIRSPACE_HORIZONTAL_SEPARATION_M
    FreezeWindow,   \* freeze window of the rolling adapter
    MinSession,     \* CHARGING_MIN_SESSION_KWH
    DefaultSlots,   \* CHARGING_DEFAULT_SLOTS
    DefaultPower,   \* CHARGING_DEFAULT_POWER_KW
    RiskTurnaround, \* CHARGING_TURNAROUND_RISK_S
    Menus           \* what a behaviour may plan: see MCAerialPlan

\* Asset ids are not 0, which stands for no bundle in the diffs.  The solver
\* dispatches nothing frozen, and a task takes an asset the same time whenever
\* it starts (_vehicle_service_times).
Dispatched == [asset : DOMAIN Assets, start : Nat, finish : Nat, frozen : {FALSE}]
MenuShape(m) ==
    LET tasks == DOMAIN m.tasks
    IN  /\ IsFiniteSet(tasks) /\ tasks \in SUBSET Nat /\ m.first \in SUBSET tasks
        /\ \A t \in tasks :
            /\ m.tasks[t].pickup \in Int /\ m.tasks[t].site \in Int /\ m.tasks[t].deadline \in Int
            /\ m.options[t] \in SUBSET Dispatched
            /\ \A o \in m.options[t] : o.start <= o.finish
            /\ \A o, p \in m.options[t] : o.asset = p.asset => o.finish - o.start = p.finish - p.start
        /\ Len(m.events) \in Nat /\ \A n \in 1 .. Len(m.events) : m.events[n].joins \in SUBSET tasks
ASSUME MenuAssumption == \A m \in Menus : MenuShape(m)
ASSUME AssetsAssumption ==
    /\ 0 \notin DOMAIN Assets /\ IsFiniteSet(DOMAIN Assets) /\ DOMAIN Assets \in SUBSET Nat
    /\ \A a \in DOMAIN Assets :
        /\ Assets[a].parked \in Int /\ Assets[a].speed \in Int
        /\ Assets[a].rate \in Int /\ Assets[a].capacity \in Int
ASSUME HubsAssumption ==
    /\ IsFiniteSet(DOMAIN Hubs) /\ DefaultSlots \in Nat \ {0} /\ DefaultPower \in Nat \ {0}
    /\ \A h \in DOMAIN Hubs : Hubs[h].at \in Int /\ Hubs[h].slots \in Nat /\ Hubs[h].power \in Nat
ASSUME BoundsAssumption == Buffer \in Nat /\ Separation \in Int /\ FreezeWindow \in Int /\ MinSession \in Int

VARIABLES
    menu,       \* tasks, solver options, events, forecasts and zones
    stage,      \* where the adapter is
    now,        \* planning time
    known,      \* tasks of the snapshot
    fleet,      \* assets of the snapshot
    repaired,   \* tasks with a corrective action for a lost asset
    solved,     \* the plan as the solver and the freeze rules left it
    plan,       \* the plan as it will be published
    conflicts,  \* pairs of flights that conflict as solved
    corridor,   \* flight -> corridor, for the flights coloured so far
    delay,      \* flight -> hold, for the flights placed so far
    sessions,   \* recharge sessions scheduled so far, in order
    revisions   \* published revisions

vars == <<menu, stage, now, known, fleet, repaired, solved, plan, conflicts, corridor, delay, sessions, revisions>>

Nowhere == -1
Forever == 1000
Empty == <<>>
Task(t) == menu.tasks[t]

-----------------------------------------------------------------------------
(* Flights *)

(* _flight_path: the hub (else where the asset stands), the pickup and the *)
(* drop, each if known, without consecutive duplicates.                    *)
Origin(asset) ==
    IF asset \notin fleet THEN Nowhere
    ELSE IF Assets[asset].hub \in DOMAIN Hubs THEN Hubs[Assets[asset].hub].at ELSE Assets[asset].parked
Via(path, p) == IF p = Nowhere \/ (path # <<>> /\ Last(path) = p) THEN path ELSE Append(path, p)
FlightPath(t, asset) == Via(Via(Via(<<>>, Origin(asset)), Task(t).pickup), Task(t).site)

Distance(a, b) == IF a < b THEN b - a ELSE a - b
\* Transit time of a path, which has two legs at most, at the asset's speed; 0
\* when the speed is unknown.
Leg(path, k) == IF k < Len(path) THEN Distance(path[k], path[k + 1]) ELSE 0
InboundTravel(path, speed) == IF speed <= 0 THEN 0 ELSE (Leg(path, 1) + Leg(path, 2)) \div speed

Flights(p) == {t \in DOMAIN p \cap known : Task(t).mode = "UAV" /\ FlightPath(t, p[t].asset) # <<>>}
Speed(asset) == IF asset \in fleet THEN Assets[asset].speed ELSE 0
Entry(p, t) == p[t].start - InboundTravel(FlightPath(t, p[t].asset), Speed(p[t].asset))

\* Mutant of Slack: the deadline of a frozen flight leaves it room, too.
SlackOfAll(p, t) == Max({0, Task(t).deadline - p[t].finish})
\* _deadline_slack_s
Slack(p, t) == IF p[t].frozen THEN 0 ELSE Max({0, Task(t).deadline - p[t].finish})

-----------------------------------------------------------------------------
(* Conflicts *)

\* _overlap: present together unless one clears the other by the buffer.
Overlap(a0, a1, b0, b1) == a1 + Buffer > b0 /\ b1 + Buffer > a0

(* segment_min_distance_m, for segments of a line.                        *)
SegmentGap(a, b) == Max({0, Min({b[1], b[2]}) - Max({a[1], a[2]}), Min({a[1], a[2]}) - Max({b[1], b[2]})})
Segments(path) ==
    IF Len(path) < 2 THEN {<<path[1], path[1]>>} ELSE {<<path[k], path[k + 1]>> : k \in 1 .. Len(path) - 1}
Close(p, t, u) ==
    \E a \in Segments(FlightPath(t, p[t].asset)), b \in Segments(FlightPath(u, p[u].asset)) :
        SegmentGap(a, b) < Separation

\* _conflict_pairs, on the windows as planned
Conflict(p, t, u) ==
    /\ t # u /\ Close(p, t, u)
    /\ Overlap(Entry(p, t), p[t].finish, Entry(p, u), p[u].finish)
DetectConflicts ==
    /\ stage = "solved"
    /\ conflicts' = {pair \in kSubset(2, Flights(solved)) : \A t, u \in pair : t # u => Conflict(solved, t, u)}
    /\ stage' = "colour"
    /\ UNCHANGED <<menu, now, known, fleet, repaired, solved, plan, corridor, delay, sessions, revisions>>
Neighbours(t) == (UNION {pair \in conflicts : t \in pair}) \ {t}

-----------------------------------------------------------------------------
(* Corridors: Welsh-Powell over a bounded number of colours *)

ColourBefore(t, u) ==
    LET dt == Cardinality(Neighbours(t)) du == Cardinality(Neighbours(u))
    IN  \/ dt > du
        \/ dt = du /\ Entry(solved, t) < Entry(solved, u)
        \/ dt = du /\ Entry(solved, t) = Entry(solved, u) /\ t < u

\* Flights of the neighbourhood that took a corridor already.
Users(t, c) == {u \in Neighbours(t) \cap DOMAIN corridor : corridor[u] = c}

\* The lowest corridor no neighbour uses, else the least contended one.
Corridor(t) ==
    LET all == 0 .. menu.corridors - 1
        free == {c \in all : Users(t, c) = {}}
        least == Min({Cardinality(Users(t, c)) : c \in all})
    IN  IF free # {} THEN Min(free) ELSE Min({c \in all : Cardinality(Users(t, c)) = least})

AssignCorridor ==
    /\ stage = "colour" /\ Flights(solved) \ DOMAIN corridor # {}
    /\ LET next == CHOOSE t \in Flights(solved) \ DOMAIN corridor :
                        \A u \in Flights(solved) \ DOMAIN corridor : u = t \/ ColourBefore(t, u)
       IN  corridor' = [t \in DOMAIN corridor \cup {next} |-> IF t = next THEN Corridor(next) ELSE corridor[t]]
    /\ UNCHANGED <<menu, stage, now, known, fleet, repaired, solved, plan, conflicts, delay, sessions, revisions>>
CorridorsDone ==
    /\ stage = "colour" /\ Flights(solved) \subseteq DOMAIN corridor
    /\ stage' = "hold"
    /\ UNCHANGED <<menu, now, known, fleet, repaired, solved, plan, conflicts, corridor, delay, sessions, revisions>>

-----------------------------------------------------------------------------
(* Temporal separation: a list schedule in order of entry *)

EffExit(t) == solved[t].finish + delay[t]
EnterBefore(t, u) ==
    \/ Entry(solved, t) < Entry(solved, u)
    \/ Entry(solved, t) = Entry(solved, u) /\ t < u
Ahead(t) == {u \in DOMAIN delay \cap Neighbours(t) : corridor[u] = corridor[t]}

\* Until the corridor is clear of every placed neighbour, within the slack.
Hold(t) ==
    LET required == Max({Entry(solved, t)} \cup {EffExit(u) + Buffer : u \in Ahead(t)})
    IN  Min({required - Entry(solved, t), Slack(solved, t)})

HoldFlight ==
    /\ stage = "hold" /\ Flights(solved) \ DOMAIN delay # {}
    /\ LET next == CHOOSE t \in Flights(solved) \ DOMAIN delay :
                        \A u \in Flights(solved) \ DOMAIN delay : u = t \/ EnterBefore(t, u)
       IN  delay' = [t \in DOMAIN delay \cup {next} |-> IF t = next THEN Hold(next) ELSE delay[t]]
    /\ UNCHANGED <<menu, stage, now, known, fleet, repaired, solved, plan, conflicts, corridor, sessions, revisions>>

\* What deconflict_airspace reports.
Separated(t, u) == ~Overlap(Entry(solved, t) + delay[t], EffExit(t), Entry(solved, u) + delay[u], EffExit(u))
SameCorridor(pair) == \A t, u \in pair : corridor[t] = corridor[u]
Residual == {pair \in conflicts : SameCorridor(pair) /\ \A t, u \in pair : t # u => ~Separated(t, u)}

\* Mutant of Peak: at one instant, starts are counted before ends.
PeakStartsFirst(spans) ==
    LET all == {<<k, 1>> : k \in DOMAIN spans} \cup {<<k, 2>> : k \in DOMAIN spans}
        At(e) == spans[e[1]][e[2]]
        Seen(e) == {f \in all : At(f) < At(e) \/ (At(f) = At(e) /\ f[2] = 1)}
    IN  Max({0} \cup {Cardinality({f \in Seen(e) : f[2] = 1}) - Cardinality({f \in Seen(e) : f[2] = 2}) : e \in all})
(* The sweep of _max_concurrent and _peak_queue_depth over <<from, to>>    *)
(* spans: events by time, ends before starts.                              *)
Peak(spans) ==
    LET all == {<<k, 1>> : k \in DOMAIN spans} \cup {<<k, 2>> : k \in DOMAIN spans}
        At(e) == spans[e[1]][e[2]]
        Seen(e) == {f \in all : At(f) < At(e) \/ (At(f) = At(e) /\ (f[2] = 2 \/ e[2] = 1))}
    IN  Max({0} \cup {Cardinality({f \in Seen(e) : f[2] = 1}) - Cardinality({f \in Seen(e) : f[2] = 2}) : e \in all})

AirspaceReport ==
    [flights |-> Cardinality(Flights(solved)),
     conflicts |-> Cardinality(conflicts),
     deconflicted |-> Cardinality(conflicts \ Residual),
     residual |-> Cardinality(Residual),
     held |-> Cardinality({t \in Flights(solved) : delay[t] > 0}),
     peak |-> Peak([t \in Flights(solved) |-> <<Entry(solved, t) + delay[t], EffExit(t)>>]),
     corridor |-> corridor, delay |-> delay]

\* Mutant of Retimed: a held flight starts later and finishes as planned.
RetimedStart(p, holds) ==
    [t \in DOMAIN p |->
        IF t \in DOMAIN holds /\ ~p[t].frozen THEN [p[t] EXCEPT !.start = @ + holds[t]] ELSE p[t]]
\* apply_airspace_holds
Retimed(p, holds) ==
    [t \in DOMAIN p |->
        IF t \in DOMAIN holds /\ ~p[t].frozen
        THEN [p[t] EXCEPT !.start = @ + holds[t], !.finish = @ + holds[t]] ELSE p[t]]

Dispatch ==
    /\ stage = "hold" /\ Flights(solved) \subseteq DOMAIN delay
    /\ plan' = Retimed(solved, delay)
    /\ stage' = "charge"
    /\ UNCHANGED <<menu, now, known, fleet, repaired, solved, conflicts, corridor, delay, sessions, revisions>>

-----------------------------------------------------------------------------
(* Recharge *)

Used == {p.asset : p \in Range(plan)}
Bookings(a) == {t \in DOMAIN plan : plan[t].asset = a}
\* Mutant of Arrival: the plan as the solver left it.
ArrivalAsSolved(a) == Max({solved[t].finish : t \in Bookings(a)})
\* The last finish of an asset is when it arrives at the hub.
Arrival(a) == Max({plan[t].finish : t \in Bookings(a)})
BusyTime(a) == FoldFunction(+, 0, [t \in Bookings(a) |-> plan[t].finish - plan[t].start])
\* Consumption over the busy time, capped at the battery, if it has one.
Energy(a) ==
    LET spent == Assets[a].rate * BusyTime(a)
    IN  IF Assets[a].capacity > 0 THEN Min({spent, Assets[a].capacity}) ELSE spent
Demanding == {a \in Used \cap fleet : Assets[a].hub \in DOMAIN Hubs /\ Assets[a].rate > 0 /\ Energy(a) >= MinSession}

Slots(h) == IF Hubs[h].slots = 0 THEN DefaultSlots ELSE Hubs[h].slots
Power(h) == IF Hubs[h].power = 0 THEN DefaultPower ELSE Hubs[h].power
ChargeTime(a) == (Energy(a) * Slots(Assets[a].hub)) \div Power(Assets[a].hub)

Scheduled(h) == {k \in DOMAIN sessions : sessions[k].hub = h}
\* When a bay is free; a bay nobody used is free at 0, before any arrival.
FreeAt(h, bay) == Max({0} \cup {sessions[k].end : k \in {j \in Scheduled(h) : sessions[j].bay = bay}})
\* The earliest-free bay, the lowest of them.
Bay(h) ==
    LET bays == 0 .. Slots(h) - 1
        first == Min({FreeAt(h, b) : b \in bays})
    IN  Min({b \in bays : FreeAt(h, b) = first})

\* _schedule_hub, the next session in order of arrival
ChargeNext ==
    /\ stage = "charge"
    /\ LET waiting == Demanding \ {sessions[k].asset : k \in DOMAIN sessions}
       IN  /\ waiting # {}
           /\ LET a == CHOOSE a \in waiting : \A b \in waiting :
                            Arrival(a) < Arrival(b) \/ (Arrival(a) = Arrival(b) /\ a <= b)
                  h == Assets[a].hub
                  begin == Max({Arrival(a), FreeAt(h, Bay(h))})
              IN  sessions' = Append(sessions, [asset |-> a, hub |-> h, bay |-> Bay(h), energy |-> Energy(a),
                                arrival |-> Arrival(a), start |-> begin, end |-> begin + ChargeTime(a)])
    /\ UNCHANGED <<menu, stage, now, known, fleet, repaired, solved, plan, conflicts, corridor, delay, revisions>>

WaitTime(s) == Max({0, s.start - s.arrival})
AtRisk(s) == s.end - s.arrival > RiskTurnaround
HubQueue(h) == [k \in {j \in Scheduled(h) : sessions[j].start > sessions[j].arrival} |->
                    <<sessions[k].arrival, sessions[k].start>>]
ChargingReport ==
    [sessions |-> sessions,
     queued |-> Cardinality({k \in DOMAIN sessions : WaitTime(sessions[k]) > 0}),
     risk |-> Cardinality({k \in DOMAIN sessions : AtRisk(sessions[k])}),
     depth |-> Max({0} \cup {Peak(HubQueue(h)) : h \in DOMAIN Hubs}),
     concurrent |-> Peak([k \in DOMAIN sessions |-> <<sessions[k].start, sessions[k].end>>])]

-----------------------------------------------------------------------------
(* KPIs *)

DroneSnapshot ==
    \/ \E t \in known : Task(t).mode \in {"UAV", "UGV"}
    \/ \E a \in fleet : Assets[a].mode \in {"UAV", "UGV"}
OnTime(p) == {t \in DOMAIN p \cap known : Task(t).deadline # Forever /\ p[t].finish <= Task(t).deadline}
Late(p) == {t \in DOMAIN p \cap known : Task(t).deadline # Forever /\ p[t].finish > Task(t).deadline}

(* _weather_blocked_uav_tasks: the windows of the nearest forecast.  A     *)
(* forecast is [at, windows], a window the set of dimensions it breaks.    *)
Nearest(place) ==
    CHOOSE f \in DOMAIN menu.forecasts : \A g \in DOMAIN menu.forecasts :
        LET df == Distance(menu.forecasts[f].at, place) dg == Distance(menu.forecasts[g].at, place)
        IN  df < dg \/ (df = dg /\ f <= g)
Aerial == {t \in known : Task(t).mode = "UAV" /\ Task(t).site # Nowhere}
BadWindows(t) ==
    SelectSeq(menu.forecasts[Nearest(Task(t).site)].windows, LAMBDA broken : broken \cap menu.sensitive # {})
WeatherBlocked == IF menu.forecasts = <<>> THEN {} ELSE {t \in Aerial : BadWindows(t) # <<>>}
WeatherInfeasible ==
    {t \in WeatherBlocked : Len(BadWindows(t)) = Len(menu.forecasts[Nearest(Task(t).site)].windows)}

\* _no_fly_excluded_uav_tasks: restricted itself, or inside a restricted area
NoFly ==
    {t \in Aerial : \E zone \in menu.zones : zone[1] <= Task(t).site /\ Task(t).site <= zone[2]}

Kpis ==
    [total |-> Cardinality(DOMAIN plan) + Cardinality(known \ DOMAIN plan), assigned |-> Cardinality(DOMAIN plan),
     onTime |-> Cardinality(OnTime(plan)), late |-> Cardinality(Late(plan)),
     mode |-> [k \in {"UAV", "UGV"} |-> Cardinality({t \in DOMAIN plan \cap known : Task(t).mode = k})],
     used |-> [k \in {"UAV", "UGV"} |-> Cardinality({a \in Used \cap fleet : Assets[a].mode = k /\ Assets[a].mover})],
     blocked |-> Cardinality(WeatherBlocked), infeasible |-> Cardinality(WeatherInfeasible),
     noFly |-> Cardinality(NoFly)]

Publish ==
    /\ stage = "charge"
    /\ Demanding \subseteq {sessions[k].asset : k \in DOMAIN sessions}
    /\ DroneSnapshot
    /\ revisions' = Append(revisions, [plan |-> plan, unassigned |-> known \ DOMAIN plan, repaired |-> repaired,
                            airspace |-> AirspaceReport, charging |-> ChargingReport, kpis |-> Kpis])
    /\ stage' = "published"
    /\ UNCHANGED <<menu, now, known, fleet, repaired, solved, plan, conflicts, corridor, delay, sessions>>

-----------------------------------------------------------------------------
(* The solves between which the passes run *)

Disjoint(a, b) == a.asset = b.asset => a.finish <= b.start \/ b.finish <= a.start
(* What the chain may make of the tasks to solve, beside the assignments   *)
(* held: an option of each, or none, that books nothing twice.             *)
Dispatches(tasks, held, from) ==
    LET Options(t) == {o \in menu.options[t] : o.start >= from /\ o.asset \in fleet'}
        Picks == UNION {[d -> UNION {Options(t) : t \in d}] : d \in SUBSET tasks}
        Free(f, t) ==
            /\ f[t] \in Options(t)
            /\ \A h \in DOMAIN held : Disjoint(f[t], held[h])
            /\ \A u \in DOMAIN f \ {t} : Disjoint(f[t], f[u])
    IN  {f \in Picks : \A t \in DOMAIN f : Free(f, t)}

Begin(held, f) ==
    /\ solved' = [t \in DOMAIN held \cup DOMAIN f |-> IF t \in DOMAIN held THEN held[t] ELSE f[t]]
    /\ plan' = Empty /\ conflicts' = {} /\ corridor' = Empty /\ delay' = Empty /\ sessions' = <<>>
    /\ stage' = "solved"

\* The first plan: everything is solved.
SolveFirst ==
    /\ stage = "idle"
    /\ UNCHANGED <<menu, now, known, fleet, repaired, revisions>>
    /\ \E f \in Dispatches(known, Empty, 0) : Begin(Empty, f)

(* compile_rolling_state: work in the freeze window is kept and marked,    *)
(* even of a task that has left, unless its asset is lost; other work that *)
(* is still wanted is carried with its mark removed; the rest is solved.   *)
InFreezeWindow(t, when) == plan[t].start <= when + FreezeWindow
Frozen(event, wanted) ==
    {t \in DOMAIN plan : InFreezeWindow(t, event.at) /\ (plan[t].asset \in event.lost => t \notin wanted)}
Carried(event, wanted) ==
    {t \in DOMAIN plan \cap wanted : ~InFreezeWindow(t, event.at) /\ plan[t].asset \notin event.lost}
Replan ==
    /\ stage = "published" /\ Len(revisions) <= Len(menu.events)
    /\ LET event == menu.events[Len(revisions)]
           wanted == (known \ event.gone) \cup event.joins
           frozen == Frozen(event, wanted)
           held == [t \in frozen \cup Carried(event, wanted) |-> [plan[t] EXCEPT !.frozen = t \in frozen]]
       IN  /\ now' = event.at /\ known' = wanted /\ fleet' = fleet \ event.lost
           /\ repaired' = {t \in DOMAIN plan \cap wanted : plan[t].asset \in event.lost}
           /\ \E f \in Dispatches(wanted \ DOMAIN held, held, event.at) : Begin(held, f)
    /\ UNCHANGED <<menu, revisions>>

AerialInit ==
    /\ menu \in Menus
    /\ stage = "idle" /\ now = 0 /\ known = menu.first /\ fleet = DOMAIN Assets /\ repaired = {}
    /\ solved = Empty /\ plan = Empty /\ conflicts = {} /\ corridor = Empty /\ delay = Empty
    /\ sessions = <<>> /\ revisions = <<>>

AerialNext ==
    SolveFirst \/ Replan \/ DetectConflicts \/ AssignCorridor \/ CorridorsDone \/ HoldFlight \/ Dispatch \/ ChargeNext \/ Publish

-----------------------------------------------------------------------------
(* Properties *)

Newest == revisions[Len(revisions)]

(***************************************************************************)
(* The pairs in one corridor that are too close at the times published.    *)
(***************************************************************************)
StillClose ==
    {pair \in kSubset(2, Flights(solved)) :
        SameCorridor(pair) /\ \A t, u \in pair : t # u => Conflict(plan, t, u)}

(***************************************************************************)
(* The report is true of the dispatched plan, up to what the holds         *)
(* themselves bring about.  Recomputed from the times that were published, *)
(* the residual count is that of the pairs still too close in one corridor *)
(* among the conflicts found before the holds.  Any other pair that is too *)
(* close in one corridor is the work of a hold: as solved one of the two   *)
(* was out, with the buffer, before the other came in; it was held longer  *)
(* than the other, and for a third flight that entered its corridor before *)
(* it and conflicts with it.  Such a pair is counted nowhere.              *)
(* (deconflict_airspace counts, on shifted copies of the flights, the      *)
(* conflicts it found first; apply_airspace_holds shifts the assignments.) *)
(***************************************************************************)
ResidualExact ==
    stage = "published" =>
        /\ Newest.airspace.residual = Cardinality(StillClose \cap conflicts)
        /\ \A pair \in StillClose \ conflicts : \E t, u \in pair : \E v \in Flights(solved) \ pair :
              /\ solved[t].finish + Buffer <= Entry(solved, u) /\ delay[t] > delay[u]
              /\ EnterBefore(v, t) /\ {t, v} \in conflicts /\ corridor[v] = corridor[t]

(***************************************************************************)
(* A hold costs no delivery and moves no committed flight, and nothing is  *)
(* left undone that it could have done: what was on time when the solver   *)
(* was done is on time as published, a frozen flight flies as published    *)
(* before, and of a residual conflict the flight that entered later has    *)
(* been held for all its slack.                                            *)
(* (_deadline_slack_s, _apply_temporal_separation)                         *)
(***************************************************************************)
HoldsAreAffordable ==
    stage = "published" =>
        /\ OnTime(solved) \subseteq OnTime(plan)
        /\ \A t \in DOMAIN plan : plan[t].frozen => plan[t] = solved[t] /\ (t \in DOMAIN delay => delay[t] = 0)
        /\ \A pair \in Residual : \E t, u \in pair : EnterBefore(u, t) /\ delay[t] = Slack(solved, t)

(* Deconfliction does what it reports, and what it does not report its     *)
(* holds have caused.                                                      *)
HoldsSound == ResidualExact /\ HoldsAreAffordable

(***************************************************************************)
(* The recharge queue is one a hub can run: no two sessions share a bay at *)
(* a time, no asset charges before its last published flight is over, a    *)
(* hub serves in order of arrival, and an asset waits only while every bay *)
(* of its hub is taken.  (_schedule_hub, after the holds were applied.)    *)
(***************************************************************************)
BaysWellRun ==
    stage = "published" =>
        /\ \A k \in DOMAIN sessions : \A t \in Bookings(sessions[k].asset) : plan[t].finish <= sessions[k].start
        /\ \A j, k \in DOMAIN sessions :
            sessions[j].hub = sessions[k].hub /\ j < k =>
                /\ sessions[j].start <= sessions[k].start
                /\ sessions[j].bay = sessions[k].bay => sessions[j].end <= sessions[k].start
        /\ \A k \in DOMAIN sessions : \A i \in sessions[k].arrival .. sessions[k].start - 1 :
            Cardinality({j \in Scheduled(sessions[k].hub) : sessions[j].start <= i /\ i < sessions[j].end})
                = Slots(sessions[k].hub)

(***************************************************************************)
(* The peaks of the report are the peaks of the plan: at some instant that *)
(* many flights are in the air (assets wait at one hub, bays are charging) *)
(* and at no instant more.  (both _max_concurrent, _peak_queue_depth)      *)
(***************************************************************************)
Present(spans, i) == Cardinality({k \in DOMAIN spans : spans[k][1] <= i /\ i < spans[k][2]})
HighestOf(spans) == Max({0} \cup {Present(spans, spans[k][1]) : k \in DOMAIN spans})
PeaksExact ==
    stage = "published" =>
        /\ Newest.airspace.peak = HighestOf([t \in Flights(plan) |-> <<Entry(plan, t), plan[t].finish>>])
        /\ Newest.charging.concurrent = HighestOf([k \in DOMAIN sessions |-> <<sessions[k].start, sessions[k].end>>])
        /\ Newest.charging.depth =
            Max({0} \cup {HighestOf([k \in Scheduled(h) |-> <<sessions[k].arrival, sessions[k].start>>]) : h \in DOMAIN Hubs})

(* A hub can run the recharge queue, at the peaks the report announces.    *)
HubsRunAsReported == BaysWellRun /\ PeaksExact
=============================================================================
