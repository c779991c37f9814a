---------------------------- MODULE AerialProofs ----------------------------
(***************************************************************************)
(* What the aerial pass does between a solve and its publication, and what *)
(* the diffs tell of it, for every fleet, every set of hubs and every menu *)
(* of tasks, options and events.                                           *)
(***************************************************************************)
EXTENDS RevisionDiff, FiniteSetTheorems, SequenceTheorems, WellFoundedInduction, TLAPS

-----------------------------------------------------------------------------
(* Least elements of finite sets *)

\* A non-empty set of naturals has a least element.
LEMMA LeastNumber ==
    ASSUME NEW T \in SUBSET Nat, T # {}
    PROVE  \E x \in T : \A y \in T : x <= y
<1> DEFINE R == {ss \in Nat \X Nat : ss[1] < ss[2]}
<1>1. IsWellFoundedOn(R, Nat)
  BY NatLessThanWellFounded, Zenon DEF OpToRel
<1>2. \E x \in T : \A y \in T : ~ (<<y, x>> \in R)
  <2> HIDE DEF R
  <2> QED BY <1>1, WFMin, Zenon
<1>3. PICK x \in T : \A y \in T : ~ (<<y, x>> \in R)
  BY <1>2
<1>4. ASSUME NEW y \in T PROVE x <= y
  <2>1. <<y, x>> \notin R
    BY <1>3
  <2> QED BY <2>1
<1> QED BY <1>4

\* Of the subsets of a finite set for which something fails, one has no such
\* smaller subset.
LEMMA SmallestSubset ==
    ASSUME NEW T, IsFiniteSet(T), NEW Bad \in SUBSET SUBSET T, Bad # {}
    PROVE  \E s \in Bad : IsFiniteSet(s) /\ \A x \in s : s \ {x} \notin Bad
<1>1. \A s \in SUBSET T : IsFiniteSet(s) /\ Cardinality(s) \in Nat
  BY FS_Subset, FS_CardinalityType
<1> DEFINE N == {Cardinality(s) : s \in Bad}
<1>2. PICK n \in N : \A m \in N : n <= m
  <2>1. N \in SUBSET Nat /\ N # {}
    BY <1>1
  <2> HIDE DEF N
  <2> QED BY <2>1, LeastNumber
<1>3. PICK s \in Bad : n = Cardinality(s)
  OBVIOUS
<1>4. ASSUME NEW x \in s, s \ {x} \in Bad PROVE FALSE
  <2>1. Cardinality(s \ {x}) = Cardinality(s) - 1 /\ Cardinality(s) \in Nat
    BY <1>1, FS_RemoveElement
  <2>2. Cardinality(s) <= Cardinality(s \ {x})
    BY <1>2, <1>3, <1>4
  <2> QED BY <2>1, <2>2
<1> QED BY <1>1, <1>4

\* A finite set that is not empty has a least element in any total order R.
First(R, s, x) == x \in s /\ \A y \in s : y = x \/ <<x, y>> \in R
LEMMA FirstExists ==
    ASSUME NEW T, IsFiniteSet(T), T # {}, NEW R,
           \A x, y \in T : x = y \/ <<x, y>> \in R \/ <<y, x>> \in R,
           \A x, y, z \in T : <<x, y>> \in R /\ <<y, z>> \in R => <<x, z>> \in R
    PROVE  \E x : First(R, T, x)
<1> DEFINE Bad == {s \in SUBSET T : s # {} /\ \A x : ~First(R, s, x)}
<1> SUFFICES ASSUME Bad # {} PROVE FALSE
  OBVIOUS
<1>1. PICK s \in Bad : \A x \in s : s \ {x} \notin Bad
  <2>1. Bad \in SUBSET SUBSET T
    OBVIOUS
  <2> HIDE DEF Bad
  <2> QED BY <2>1, SmallestSubset
<1>2. PICK x \in s : TRUE
  OBVIOUS
<1>3. CASE s \ {x} = {}
  <2>1. First(R, s, x)
    BY <1>3 DEF First
  <2> QED BY <2>1
<1>4. CASE s \ {x} # {}
  <2>1. PICK y : First(R, s \ {x}, y)
    BY <1>1, <1>4
  <2>2. CASE <<y, x>> \in R
    <3>1. First(R, s, y)
      BY <2>1, <2>2 DEF First
    <3> QED BY <3>1
  <2>3. CASE <<y, x>> \notin R
    <3>1. <<x, y>> \in R /\ y \in s /\ s \in SUBSET T
      BY <2>1, <2>3 DEF First
    <3>2. First(R, s, x)
      BY <2>1, <3>1 DEF First
    <3> QED BY <3>2
  <2> QED BY <2>2, <2>3
<1> QED BY <1>3, <1>4

\* The greatest and the least of a finite set of integers.
LEMMA MaxIs ==
    ASSUME NEW S \in SUBSET Int, IsFiniteSet(S), S # {}
    PROVE  Max(S) \in S /\ Max(S) \in Int /\ \A y \in S : Max(S) >= y
<1> DEFINE R == {p \in Int \X Int : p[1] >= p[2]}
<1>1. \E x : First(R, S, x)
  <2>1. \A x, y \in S : x = y \/ <<x, y>> \in R \/ <<y, x>> \in R
    OBVIOUS
  <2>2. \A x, y, z \in S : <<x, y>> \in R /\ <<y, z>> \in R => <<x, z>> \in R
    OBVIOUS
  <2> HIDE DEF R
  <2> QED BY <2>1, <2>2, FirstExists
<1>2. PICK x : First(R, S, x)
  BY <1>1
<1>3. x \in S /\ \A y \in S : x >= y
  <2>1. x \in S /\ \A y \in S : y = x \/ <<x, y>> \in R
    BY <1>2 DEF First
  <2>2. \A y : <<x, y>> \in R => x >= y
    OBVIOUS
  <2>3. x \in Int
    BY <2>1
  <2> HIDE DEF R
  <2>4. ASSUME NEW y \in S PROVE x >= y
    <3>1. CASE y = x
      BY <2>3, <3>1
    <3>2. CASE y # x
      BY <2>1, <2>2, <3>2
    <3> QED BY <3>1, <3>2
  <2> QED BY <2>1, <2>4
<1> QED BY <1>3 DEF Max

LEMMA MinIs ==
    ASSUME NEW S \in SUBSET Int, IsFiniteSet(S), S # {}
    PROVE  Min(S) \in S /\ Min(S) \in Int /\ \A y \in S : Min(S) <= y
<1> DEFINE R == {p \in Int \X Int : p[1] <= p[2]}
<1>1. \E x : First(R, S, x)
  <2>1. \A x, y \in S : x = y \/ <<x, y>> \in R \/ <<y, x>> \in R
    OBVIOUS
  <2>2. \A x, y, z \in S : <<x, y>> \in R /\ <<y, z>> \in R => <<x, z>> \in R
    OBVIOUS
  <2> HIDE DEF R
  <2> QED BY <2>1, <2>2, FirstExists
<1>2. PICK x : First(R, S, x)
  BY <1>1
<1>3. x \in S /\ \A y \in S : x <= y
  <2>1. x \in S /\ \A y \in S : y = x \/ <<x, y>> \in R
    BY <1>2 DEF First
  <2>2. \A y : <<x, y>> \in R => x <= y
    OBVIOUS
  <2>3. x \in Int
    BY <2>1
  <2> HIDE DEF R
  <2>4. ASSUME NEW y \in S PROVE x <= y
    <3>1. CASE y = x
      BY <2>3, <3>1
    <3>2. CASE y # x
      BY <2>1, <2>2, <3>2
    <3> QED BY <3>1, <3>2
  <2> QED BY <2>1, <2>4
<1> QED BY <1>3 DEF Min

LEMMA OfTwo ==
    ASSUME NEW a \in Int, NEW b \in Int
    PROVE  /\ Max({a, b}) \in Int /\ (a <= b => Max({a, b}) = b) /\ (b <= a => Max({a, b}) = a)
           /\ Min({a, b}) \in Int /\ (a <= b => Min({a, b}) = a) /\ (b <= a => Min({a, b}) = b)
<1>1. {a, b} \in SUBSET Int /\ IsFiniteSet({a, b}) /\ {a, b} # {}
  <2>1. IsFiniteSet({a}) /\ {a, b} = {a} \cup {b}
    BY FS_Singleton
  <2>2. IsFiniteSet({a, b})
    BY <2>1, FS_AddElement
  <2> QED BY <2>2
<1>2. Max({a, b}) \in {a, b} /\ \A y \in {a, b} : Max({a, b}) >= y
  BY <1>1, MaxIs
<1>3. Min({a, b}) \in {a, b} /\ \A y \in {a, b} : Min({a, b}) <= y
  BY <1>1, MinIs
<1> QED BY <1>2, <1>3

-----------------------------------------------------------------------------
(* Sequences *)

IsSeq(s) == s \in Seq(Range(s))

\* What a sequence with one more element is.
LEMMA Appended ==
    ASSUME NEW s, IsSeq(s), NEW x
    PROVE  /\ IsSeq(Append(s, x))
           /\ DOMAIN s = 1 .. Len(s) /\ Len(s) \in Nat
           /\ DOMAIN Append(s, x) = 1 .. Len(s) + 1 /\ Len(Append(s, x)) = Len(s) + 1
           /\ \A i \in DOMAIN s : Append(s, x)[i] = s[i]
           /\ Append(s, x)[Len(s) + 1] = x
<1> DEFINE S == Range(s) \cup {x}
           a == Append(s, x)
<1>1. s \in Seq(S) /\ x \in S /\ a \in Seq(S)
  <2>1. s \in Seq(Range(s)) /\ Range(s) \in SUBSET S
    BY DEF IsSeq
  <2>2. s \in Seq(S)
    BY <2>1, SeqMonotonic
  <2> QED BY <2>2
<1>2. /\ DOMAIN s = 1 .. Len(s) /\ Len(s) \in Nat
      /\ DOMAIN a = 1 .. Len(s) + 1 /\ Len(a) = Len(s) + 1
      /\ \A i \in DOMAIN s : a[i] = s[i]
      /\ a[Len(s) + 1] = x
  BY <1>1
<1>3. a \in Seq(Range(a))
  <2>1. Len(a) \in Nat /\ a \in [1 .. Len(a) -> S]
    BY <1>1, LenProperties
  <2>2. \A i \in 1 .. Len(a) : a[i] \in Range(a)
    BY <1>2 DEF Range
  <2> HIDE DEF a
  <2>3. a \in [1 .. Len(a) -> Range(a)]
    BY <2>1, <2>2
  <2> QED BY <2>1, <2>3, IsASeq
<1> QED BY <1>2, <1>3 DEF IsSeq

LEMMA NoElements == IsSeq(<<>>) /\ DOMAIN <<>> = {} /\ Len(<<>>) = 0
<1>1. <<>> \in Seq({}) /\ Range(<<>>) = {}
  BY DEF Range
<1> QED BY <1>1 DEF IsSeq

-----------------------------------------------------------------------------
(* Flights *)

FlightType == [asset : DOMAIN Assets, start : Nat, finish : Nat, frozen : BOOLEAN]

\* A flight of task t takes its asset as long as the solver's options do.
FlightOk(m, t, o) ==
    /\ o \in FlightType /\ o.start <= o.finish
    /\ \E d \in m.options[t] : d.asset = o.asset /\ d.finish - d.start = o.finish - o.start
PlanOk(m, p) == DOMAIN p \in SUBSET DOMAIN m.tasks /\ \A t \in DOMAIN p : FlightOk(m, t, p[t])

World == /\ menu \in Menus /\ known \in SUBSET DOMAIN menu.tasks /\ fleet \in SUBSET DOMAIN Assets
         /\ PlanOk(menu, solved)

LEMMA TaskFacts ==
    ASSUME World
    PROVE  /\ IsFiniteSet(DOMAIN menu.tasks) /\ DOMAIN menu.tasks \in SUBSET Nat
           /\ \A t \in DOMAIN menu.tasks :
                Task(t).pickup \in Int /\ Task(t).site \in Int /\ Task(t).deadline \in Int
           /\ MenuShape(menu)
BY MenuAssumption DEF World, MenuShape, Task

LEMMA ViaPath ==
    ASSUME NEW path, NEW n \in Nat, path \in Seq(Int), Len(path) <= n, NEW p \in Int
    PROVE  Via(path, p) \in Seq(Int) /\ Len(Via(path, p)) <= n + 1
BY DEF Via

LEMMA PathShape ==
    ASSUME World, NEW t \in DOMAIN menu.tasks, NEW a \in DOMAIN Assets
    PROVE  FlightPath(t, a) \in Seq(Int) /\ Len(FlightPath(t, a)) <= 3
<1> DEFINE first == Via(<<>>, Origin(a))
           second == Via(first, Task(t).pickup)
<1>1. Origin(a) \in Int
  BY AssetsAssumption, HubsAssumption DEF Origin, Nowhere
<1>2. <<>> \in Seq(Int) /\ Len(<<>>) <= 0 /\ 0 + 1 = 1 /\ 1 + 1 = 2 /\ 2 + 1 = 3
  OBVIOUS
<1>3. first \in Seq(Int) /\ Len(first) <= 1
  BY <1>1, <1>2, ViaPath
<1>4. Task(t).pickup \in Int /\ Task(t).site \in Int
  BY TaskFacts
<1> HIDE DEF first
<1>5. second \in Seq(Int) /\ Len(second) <= 2
  BY <1>2, <1>3, <1>4, ViaPath
<1> HIDE DEF second
<1>6. Via(second, Task(t).site) \in Seq(Int) /\ Len(Via(second, Task(t).site)) <= 3
  BY <1>2, <1>4, <1>5, ViaPath
<1> QED BY <1>6 DEF FlightPath, first, second

LEMMA TravelTime ==
    ASSUME NEW path \in Seq(Int), NEW speed \in Int
    PROVE  InboundTravel(path, speed) \in Nat
<1>1. \A k \in {1, 2} : Leg(path, k) \in Nat
  <2> SUFFICES ASSUME NEW k \in {1, 2} PROVE Leg(path, k) \in Nat
    OBVIOUS
  <2>1. CASE k < Len(path)
    <3>1. path[k] \in Int /\ path[k + 1] \in Int
      BY <2>1
    <3> QED BY <2>1, <3>1 DEF Leg, Distance
  <2>2. CASE ~(k < Len(path))
    BY <2>2 DEF Leg
  <2> QED BY <2>1, <2>2
<1>2. Leg(path, 1) + Leg(path, 2) \in Nat
  BY <1>1
<1> QED BY <1>2 DEF InboundTravel

LEMMA FlightTimes ==
    ASSUME World, NEW p, PlanOk(menu, p), NEW t \in DOMAIN p
    PROVE  /\ Entry(p, t) \in Int /\ Entry(p, t) <= p[t].start
           /\ Entry(p, t) = p[t].start - InboundTravel(FlightPath(t, p[t].asset), Speed(p[t].asset))
           /\ Slack(p, t) \in Nat
<1>1. t \in DOMAIN menu.tasks /\ p[t] \in FlightType
  BY DEF PlanOk, FlightOk
<1>2. p[t].asset \in DOMAIN Assets /\ p[t].start \in Nat /\ p[t].finish \in Nat
  BY <1>1 DEF FlightType
<1>3. Speed(p[t].asset) \in Int
  BY <1>2, AssetsAssumption DEF Speed
<1>4. InboundTravel(FlightPath(t, p[t].asset), Speed(p[t].asset)) \in Nat
  BY <1>1, <1>2, <1>3, PathShape, TravelTime
<1>5. Slack(p, t) \in Nat
  <2>1. Task(t).deadline - p[t].finish \in Int
    BY <1>1, <1>2, TaskFacts
  <2> QED BY <2>1, OfTwo DEF Slack
<1> QED BY <1>2, <1>4, <1>5 DEF Entry
-----------------------------------------------------------------------------
(* The plan between a solve and its publication *)

LEMMA FiniteTasks ==
    ASSUME World, NEW p, PlanOk(menu, p)
    PROVE  IsFiniteSet(DOMAIN p)
BY TaskFacts, FS_Subset DEF PlanOk

\* What the solver dispatches.
LEMMA DispatchFacts ==
    ASSUME NEW tasks, NEW held, NEW from, NEW f \in Dispatches(tasks, held, from)
    PROVE  DOMAIN f \in SUBSET tasks /\ \A t \in DOMAIN f : f[t] \in menu.options[t]
<1> DEFINE Options(t) == {o \in menu.options[t] : o.start >= from /\ o.asset \in fleet'}
           Picks == UNION {[d -> UNION {Options(t) : t \in d}] : d \in SUBSET tasks}
<1>1. f \in Picks /\ \A t \in DOMAIN f : f[t] \in Options(t)
  BY DEF Dispatches
<1>2. PICK d \in SUBSET tasks : f \in [d -> UNION {Options(t) : t \in d}]
  BY <1>1
<1>3. DOMAIN f = d
  BY <1>2
<1> QED BY <1>1, <1>3

LEMMA OptionsOk ==
    ASSUME World, NEW t \in DOMAIN menu.tasks, NEW o \in menu.options[t]
    PROVE  FlightOk(menu, t, o) /\ ~o.frozen
<1>1. o \in Dispatched /\ o.start <= o.finish
  BY TaskFacts DEF MenuShape
<1>2. o \in FlightType /\ o.frozen = FALSE
  BY <1>1 DEF Dispatched, FlightType
<1> QED BY <1>1, <1>2 DEF FlightOk

\* A solve starts from what is held and adds what it dispatches.
LEMMA BeginOk ==
    ASSUME World, NEW held, PlanOk(menu, held), NEW f, Begin(held, f), DOMAIN f \in SUBSET DOMAIN menu.tasks,
           \A t \in DOMAIN f : f[t] \in menu.options[t]
    PROVE  /\ PlanOk(menu, solved')
           /\ \A t \in DOMAIN solved' : solved'[t].frozen => t \in DOMAIN held /\ solved'[t] = held[t]
<1>1. /\ DOMAIN solved' = DOMAIN held \cup DOMAIN f
      /\ \A t \in DOMAIN solved' : solved'[t] = IF t \in DOMAIN held THEN held[t] ELSE f[t]
  BY DEF Begin
<1>2. ASSUME NEW t \in DOMAIN solved', t \notin DOMAIN held
      PROVE  FlightOk(menu, t, solved'[t]) /\ ~solved'[t].frozen
  <2>1. t \in DOMAIN menu.tasks /\ solved'[t] \in menu.options[t]
    BY <1>1, <1>2
  <2> QED BY <2>1, OptionsOk
<1>3. ASSUME NEW t \in DOMAIN solved', t \in DOMAIN held
      PROVE  t \in DOMAIN menu.tasks /\ FlightOk(menu, t, solved'[t]) /\ solved'[t] = held[t]
  BY <1>1, <1>3 DEF PlanOk
<1> QED BY <1>1, <1>2, <1>3 DEF PlanOk

\* Retiming moves no frozen flight and keeps the length of every other.
LEMMA RetimedOk ==
    ASSUME World, NEW holds, \A t \in DOMAIN holds : holds[t] \in Nat
    PROVE  /\ DOMAIN Retimed(solved, holds) = DOMAIN solved
           /\ \A t \in DOMAIN solved :
                LET r == Retimed(solved, holds)[t]
                    h == IF t \in DOMAIN holds /\ ~solved[t].frozen THEN holds[t] ELSE 0
                IN  /\ r \in FlightType /\ r.asset = solved[t].asset /\ r.frozen = solved[t].frozen
                    /\ r.start = solved[t].start + h /\ r.finish = solved[t].finish + h
           /\ PlanOk(menu, Retimed(solved, holds))
<1> DEFINE r(t) == Retimed(solved, holds)[t]
           h(t) == IF t \in DOMAIN holds /\ ~solved[t].frozen THEN holds[t] ELSE 0
<1>1. DOMAIN Retimed(solved, holds) = DOMAIN solved
  BY DEF Retimed
<1>2. ASSUME NEW t \in DOMAIN solved
      PROVE  /\ r(t) \in FlightType /\ r(t).asset = solved[t].asset /\ r(t).frozen = solved[t].frozen
             /\ r(t).start = solved[t].start + h(t) /\ r(t).finish = solved[t].finish + h(t)
             /\ FlightOk(menu, t, r(t)) /\ t \in DOMAIN menu.tasks
  <2>1. FlightOk(menu, t, solved[t]) /\ solved[t] \in FlightType /\ t \in DOMAIN menu.tasks
    BY DEF World, PlanOk, FlightOk
  <2>2. h(t) \in Nat
    OBVIOUS
  <2>3. r(t) = IF t \in DOMAIN holds /\ ~solved[t].frozen
               THEN [solved[t] EXCEPT !.start = @ + holds[t], !.finish = @ + holds[t]] ELSE solved[t]
    BY DEF Retimed
  <2> HIDE DEF r
  <2>4. /\ r(t) \in FlightType /\ r(t).asset = solved[t].asset /\ r(t).frozen = solved[t].frozen
        /\ r(t).start = solved[t].start + h(t) /\ r(t).finish = solved[t].finish + h(t)
    <3>1. CASE t \in DOMAIN holds /\ ~solved[t].frozen
      <4>1. holds[t] \in Nat /\ h(t) = holds[t]
        BY <3>1
      <4>2. r(t) = [asset |-> solved[t].asset, start |-> solved[t].start + holds[t],
                    finish |-> solved[t].finish + holds[t], frozen |-> solved[t].frozen]
        BY <2>1, <2>3, <3>1 DEF FlightType
      <4> HIDE DEF h
      <4> QED BY <2>1, <4>1, <4>2 DEF FlightType
    <3>2. CASE ~(t \in DOMAIN holds /\ ~solved[t].frozen)
      BY <2>1, <2>3, <3>2 DEF FlightType
    <3> QED BY <3>1, <3>2
  <2> HIDE DEF h
  <2>5. PICK d \in menu.options[t] : d.asset = solved[t].asset /\ d.finish - d.start = solved[t].finish - solved[t].start
    BY <2>1 DEF FlightOk
  <2>6. solved[t].start \in Nat /\ solved[t].finish \in Nat /\ solved[t].start <= solved[t].finish
    BY <2>1 DEF FlightType, FlightOk
  <2>7. r(t).start <= r(t).finish /\ r(t).finish - r(t).start = solved[t].finish - solved[t].start
    BY <2>2, <2>4, <2>6
  <2>8. FlightOk(menu, t, r(t))
    BY <2>4, <2>5, <2>7 DEF FlightOk
  <2> QED BY <2>1, <2>4, <2>8
<1>3. PlanOk(menu, Retimed(solved, holds))
  BY <1>1, <1>2 DEF PlanOk
<1> QED BY <1>1, <1>2, <1>3

-----------------------------------------------------------------------------
(* Holds *)

Held == /\ DOMAIN delay \in SUBSET Flights(solved)
        /\ \A t \in DOMAIN delay : delay[t] \in Nat /\ delay[t] <= Slack(solved, t)

LEMMA HoldFacts ==
    ASSUME World, Held, NEW t \in Flights(solved)
    PROVE  /\ Hold(t) \in Nat /\ Hold(t) <= Slack(solved, t)
           /\ Hold(t) = Slack(solved, t)
              \/ \A u \in Ahead(t) : Entry(solved, t) + Hold(t) >= EffExit(u) + Buffer
           /\ Hold(t) > 0 => Ahead(t) # {}
<1> DEFINE exits == {EffExit(u) + Buffer : u \in Ahead(t)}
           times == {Entry(solved, t)} \cup exits
           required == Max(times)
<1>1. Flights(solved) \in SUBSET DOMAIN solved /\ IsFiniteSet(DOMAIN solved)
  BY FiniteTasks DEF World, Flights
<1>2. Entry(solved, t) \in Int /\ Slack(solved, t) \in Nat
  BY <1>1, FlightTimes DEF World
<1>3. ASSUME NEW u \in Ahead(t) PROVE EffExit(u) + Buffer \in Int
  <2>1. u \in DOMAIN delay /\ u \in DOMAIN solved
    BY <1>1 DEF Ahead, Held
  <2>2. solved[u].finish \in Nat /\ delay[u] \in Nat
    BY <2>1 DEF World, PlanOk, FlightOk, FlightType, Held
  <2> QED BY <2>2, BoundsAssumption DEF EffExit
<1>4. IsFiniteSet(exits)
  <2>1. Ahead(t) \in SUBSET DOMAIN solved
    BY <1>1 DEF Ahead, Held
  <2>2. IsFiniteSet(Ahead(t))
    BY <1>1, <2>1, FS_Subset
  <2> DEFINE e == [u \in Ahead(t) |-> EffExit(u) + Buffer]
  <2>3. e \in [Ahead(t) -> exits] /\ \A x \in exits : \E u \in Ahead(t) : e[u] = x
    OBVIOUS
  <2>4. e \in Surjection(Ahead(t), exits)
    BY <2>3 DEF Surjection
  <2> QED BY <2>2, <2>4, FS_Surjection
<1>5. IsFiniteSet(times) /\ times # {} /\ times \in SUBSET Int
  <2>1. IsFiniteSet({Entry(solved, t)})
    BY FS_Singleton
  <2>2. IsFiniteSet(times)
    BY <2>1, <1>4, FS_Union
  <2> QED BY <1>2, <1>3, <2>2
<1>6. required \in Int /\ required >= Entry(solved, t) /\ \A u \in Ahead(t) : required >= EffExit(u) + Buffer
  <2> HIDE DEF times
  <2>1. required \in Int /\ \A y \in times : required >= y
    BY <1>5, MaxIs
  <2> QED BY <2>1 DEF times
<1>7. Hold(t) = Min({required - Entry(solved, t), Slack(solved, t)})
  BY DEF Hold
<1>12. Ahead(t) = {} => required = Entry(solved, t)
  <2>1. Ahead(t) = {} => times = {Entry(solved, t)}
    OBVIOUS
  <2> HIDE DEF times
  <2>2. required \in times
    BY <1>5, MaxIs
  <2> QED BY <2>1, <2>2
<1> HIDE DEF required
<1>8. /\ Hold(t) \in Int
      /\ required - Entry(solved, t) <= Slack(solved, t) => Hold(t) = required - Entry(solved, t)
      /\ Slack(solved, t) <= required - Entry(solved, t) => Hold(t) = Slack(solved, t)
  <2> DEFINE gap == required - Entry(solved, t)
             slack == Slack(solved, t)
  <2>1. gap \in Int /\ slack \in Int /\ Hold(t) = Min({gap, slack})
    BY <1>2, <1>6, <1>7
  <2> HIDE DEF gap, slack
  <2>2. Hold(t) \in Int /\ (gap <= slack => Hold(t) = gap) /\ (slack <= gap => Hold(t) = slack)
    BY <2>1, OfTwo
  <2> QED BY <2>2 DEF gap, slack
<1>9. CASE required - Entry(solved, t) <= Slack(solved, t)
  <2>1. Hold(t) = required - Entry(solved, t) /\ Hold(t) \in Nat /\ Hold(t) <= Slack(solved, t)
    BY <1>2, <1>6, <1>8, <1>9
  <2>2. Entry(solved, t) + Hold(t) = required
    BY <1>2, <1>6, <2>1
  <2> QED BY <1>6, <1>12, <2>1, <2>2
<1>10. CASE Slack(solved, t) <= required - Entry(solved, t)
  BY <1>2, <1>8, <1>10, <1>12
<1> QED BY <1>2, <1>6, <1>9, <1>10
LEMMA FlightsKept ==
    ASSUME menu' = menu, known' = known, fleet' = fleet, solved' = solved
    PROVE  /\ Flights(solved)' = Flights(solved)
           /\ \A t : Slack(solved, t)' = Slack(solved, t) /\ Entry(solved, t)' = Entry(solved, t)
<1>1. \A t, a : FlightPath(t, a)' = FlightPath(t, a)
  BY DEF FlightPath, Origin, Task
<1>2. \A a : Speed(a)' = Speed(a)
  BY DEF Speed
<1>3. Flights(solved)' = Flights(solved)
  BY DEF Flights, FlightPath, Origin, Task
<1>4. \A t : Slack(solved, t)' = Slack(solved, t)
  BY DEF Slack, Task
<1>5. \A t : Entry(solved, t)' = Entry(solved, t)
  BY DEF Entry, FlightPath, Origin, Task, Speed
<1> QED BY <1>3, <1>4, <1>5

-----------------------------------------------------------------------------
(* The core of the invariant *)

Stages == {"idle", "solved", "colour", "hold", "charge", "published"}
RevisionsOk ==
    /\ IsSeq(revisions) /\ \A n \in DOMAIN revisions : PlanOk(menu, revisions[n].plan)
    /\ stage = "published" => Len(revisions) > 0 /\ plan = revisions[Len(revisions)].plan
Core ==
    /\ World /\ Held /\ stage \in Stages /\ PlanOk(menu, plan) /\ RevisionsOk
    /\ stage \in {"idle", "solved", "colour"} => delay = Empty
    /\ stage \in {"charge", "published"} => plan = Retimed(solved, delay) /\ Flights(solved) \in SUBSET DOMAIN delay

LEMMA NoDelays == DOMAIN Empty = {} /\ \A m : PlanOk(m, Empty)
BY NoElements DEF Empty, PlanOk

LEMMA CoreKept ==
    ASSUME Core, UNCHANGED vars
    PROVE  Core'
<1>1. Flights(solved)' = Flights(solved) /\ \A t : Slack(solved, t)' = Slack(solved, t)
  BY FlightsKept DEF vars
<1>2. World' /\ RevisionsOk' /\ stage' = stage /\ plan' = plan /\ delay' = delay /\ menu' = menu /\ solved' = solved
  BY DEF vars, Core, World, RevisionsOk
<1>3. Held'
  BY <1>1, <1>2 DEF Core, Held
<1> QED BY <1>1, <1>2, <1>3 DEF Core

\* A step that is neither a solve nor the placing of a flight.
LEMMA CoreQuiet ==
    ASSUME Core, UNCHANGED <<menu, known, fleet, solved, delay>>
    PROVE  /\ World' /\ Held' /\ Flights(solved)' = Flights(solved)
           /\ \A t : Slack(solved, t)' = Slack(solved, t) /\ Entry(solved, t)' = Entry(solved, t)
<1>1. Flights(solved)' = Flights(solved)
      /\ \A t : Slack(solved, t)' = Slack(solved, t) /\ Entry(solved, t)' = Entry(solved, t)
  BY FlightsKept
<1>2. World'
  BY DEF Core, World
<1>3. Held'
  BY <1>1 DEF Core, Held
<1> QED BY <1>1, <1>2, <1>3

LEMMA CoreSolves ==
    ASSUME Core, NEW held, PlanOk(menu, held), NEW f, Begin(held, f), DOMAIN f \in SUBSET DOMAIN menu.tasks,
           \A t \in DOMAIN f : f[t] \in menu.options[t], menu' = menu, revisions' = revisions,
           known' \in SUBSET DOMAIN menu.tasks, fleet' \in SUBSET DOMAIN Assets
    PROVE  Core'
<1>1. PlanOk(menu, solved') /\ stage' = "solved" /\ plan' = Empty /\ delay' = Empty
  BY BeginOk DEF Core, Begin
<1>2. World'
  BY <1>1 DEF Core, World
<1>3. Held' /\ PlanOk(menu, plan)'
  BY <1>1, NoDelays DEF Held
<1>4. RevisionsOk'
  BY <1>1 DEF Core, RevisionsOk
<1> QED BY <1>1, <1>2, <1>3, <1>4 DEF Core, Stages

LEMMA CoreFirst == Core /\ SolveFirst => Core'
<1> SUFFICES ASSUME Core, SolveFirst PROVE Core'
  OBVIOUS
<1>1. PICK f \in Dispatches(known, Empty, 0) : Begin(Empty, f)
  BY DEF SolveFirst
<1>2. DOMAIN f \in SUBSET known /\ \A t \in DOMAIN f : f[t] \in menu.options[t]
  BY DispatchFacts
<1> QED BY <1>1, <1>2, CoreSolves, NoDelays DEF SolveFirst, Core, World

\* What a new revision holds of the plan before.
HeldBy(event, wanted) ==
    LET frozen == Frozen(event, wanted)
    IN  [t \in frozen \cup Carried(event, wanted) |-> [plan[t] EXCEPT !.frozen = t \in frozen]]

LEMMA HeldFacts ==
    ASSUME Core, NEW event, NEW wanted
    PROVE  /\ PlanOk(menu, HeldBy(event, wanted))
           /\ \A t \in DOMAIN HeldBy(event, wanted) :
                t \in DOMAIN plan /\ HeldBy(event, wanted)[t].asset = plan[t].asset
                                  /\ HeldBy(event, wanted)[t].start = plan[t].start
<1> DEFINE held == HeldBy(event, wanted)
           frozen == Frozen(event, wanted)
<1>1. /\ DOMAIN held = frozen \cup Carried(event, wanted)
      /\ \A t \in DOMAIN held : t \in DOMAIN plan /\ held[t] = [plan[t] EXCEPT !.frozen = t \in frozen]
  BY DEF HeldBy, Frozen, Carried
<1> HIDE DEF held, frozen
<1>2. ASSUME NEW t \in DOMAIN held
      PROVE  /\ t \in DOMAIN menu.tasks /\ FlightOk(menu, t, held[t])
             /\ held[t].asset = plan[t].asset /\ held[t].start = plan[t].start
  <2>1. t \in DOMAIN menu.tasks /\ FlightOk(menu, t, plan[t])
    BY <1>1 DEF Core, PlanOk
  <2>2. /\ held[t] \in FlightType /\ held[t].asset = plan[t].asset /\ held[t].start = plan[t].start
        /\ held[t].finish = plan[t].finish
    <3>1. plan[t] \in FlightType /\ (t \in frozen) \in BOOLEAN
      BY <2>1 DEF FlightOk
    <3>2. held[t] = [asset |-> plan[t].asset, start |-> plan[t].start,
                     finish |-> plan[t].finish, frozen |-> t \in frozen]
      BY <1>1, <3>1 DEF FlightType
    <3> QED BY <3>1, <3>2 DEF FlightType
  <2> QED BY <2>1, <2>2 DEF FlightOk
<1>3. PlanOk(menu, held)
  BY <1>2 DEF PlanOk
<1> QED BY <1>1, <1>2, <1>3 DEF held

LEMMA Replans ==
    ASSUME Core, Replan
    PROVE  /\ stage = "published" /\ menu' = menu /\ revisions' = revisions /\ fleet' \in SUBSET DOMAIN Assets
           /\ known' \in SUBSET DOMAIN menu.tasks
           /\ \E event, f : /\ Begin(HeldBy(event, known'), f) /\ DOMAIN f \in SUBSET DOMAIN menu.tasks
                            /\ \A t \in DOMAIN f : f[t] \in menu.options[t]
<1> DEFINE event == menu.events[Len(revisions)]
           wanted == (known \ event.gone) \cup event.joins
           held == HeldBy(event, wanted)
<1>1. /\ stage = "published" /\ Len(revisions) <= Len(menu.events) /\ menu' = menu /\ revisions' = revisions
      /\ known' = wanted /\ fleet' = fleet \ event.lost
      /\ \E f \in Dispatches(wanted \ DOMAIN held, held, event.at) : Begin(held, f)
  BY DEF Replan, HeldBy
<1>2. PICK f \in Dispatches(wanted \ DOMAIN held, held, event.at) : Begin(held, f)
  BY <1>1
<1>3. event.joins \in SUBSET DOMAIN menu.tasks
  <2>1. Len(revisions) > 0 /\ Len(revisions) \in Nat
    BY <1>1, Appended DEF Core, RevisionsOk
  <2>2. MenuShape(menu)
    BY TaskFacts DEF Core
  <2>3. Len(revisions) \in 1 .. Len(menu.events)
    BY <1>1, <2>1, <2>2 DEF MenuShape
  <2> QED BY <2>2, <2>3 DEF MenuShape
<1>4. wanted \in SUBSET DOMAIN menu.tasks /\ fleet \in SUBSET DOMAIN Assets
  BY <1>3 DEF Core, World
<1> HIDE DEF event, wanted, held
<1>5. DOMAIN f \in SUBSET (wanted \ DOMAIN held) /\ \A t \in DOMAIN f : f[t] \in menu.options[t]
  BY <1>2, DispatchFacts
<1>6. held = HeldBy(event, known')
  BY <1>1 DEF held
<1> QED BY <1>1, <1>2, <1>4, <1>5, <1>6

LEMMA CoreReplans == Core /\ Replan => Core'
<1> SUFFICES ASSUME Core, Replan PROVE Core'
  OBVIOUS
<1>1. PICK event, f : /\ Begin(HeldBy(event, known'), f) /\ DOMAIN f \in SUBSET DOMAIN menu.tasks
                      /\ \A t \in DOMAIN f : f[t] \in menu.options[t]
  BY Replans
<1>2. PlanOk(menu, HeldBy(event, known'))
  BY HeldFacts
<1> QED BY <1>1, <1>2, CoreSolves, Replans
\* Flights are placed in the order of their entry.
LEMMA EntryOrder ==
    ASSUME World
    PROVE  /\ \A t, u \in Flights(solved) : t = u \/ EnterBefore(t, u) \/ EnterBefore(u, t)
           /\ \A t, u, v \in Flights(solved) : EnterBefore(t, u) /\ EnterBefore(u, v) => EnterBefore(t, v)
           /\ \A t, u \in Flights(solved) : EnterBefore(t, u) => t # u /\ ~EnterBefore(u, t)
<1>1. \A t \in Flights(solved) : t \in Nat /\ Entry(solved, t) \in Int
  <2> SUFFICES ASSUME NEW t \in Flights(solved) PROVE t \in Nat /\ Entry(solved, t) \in Int
    OBVIOUS
  <2>1. t \in DOMAIN solved /\ t \in DOMAIN menu.tasks
    BY DEF Flights, World, PlanOk
  <2>2. PlanOk(menu, solved)
    BY DEF World
  <2> QED BY <2>1, <2>2, FlightTimes, TaskFacts
<1> QED BY <1>1 DEF EnterBefore

LEMMA NextIsFirst ==
    ASSUME Core, Flights(solved) \ DOMAIN delay # {}
    PROVE  LET left == Flights(solved) \ DOMAIN delay
               next == CHOOSE t \in left : \A u \in left : u = t \/ EnterBefore(t, u)
           IN  next \in left /\ \A u \in left : u = next \/ EnterBefore(next, u)
<1> DEFINE left == Flights(solved) \ DOMAIN delay
           R == {p \in left \X left : EnterBefore(p[1], p[2])}
<1>1. IsFiniteSet(left)
  <2>1. left \in SUBSET DOMAIN solved /\ IsFiniteSet(DOMAIN solved)
    BY FiniteTasks DEF Core, World, Flights
  <2> QED BY <2>1, FS_Subset
<1>2. \A t, u \in left : <<t, u>> \in R <=> EnterBefore(t, u)
  OBVIOUS
<1>3. /\ \A t, u \in left : t = u \/ <<t, u>> \in R \/ <<u, t>> \in R
      /\ \A t, u, v \in left : <<t, u>> \in R /\ <<u, v>> \in R => <<t, v>> \in R
  <2> HIDE DEF R
  <2> QED BY <1>2, EntryOrder DEF Core
<1>4. PICK t : First(R, left, t)
  <2>1. left # {}
    OBVIOUS
  <2> HIDE DEF R, left
  <2> QED BY <1>1, <1>3, <2>1, FirstExists
<1>5. t \in left /\ \A u \in left : u = t \/ EnterBefore(t, u)
  <2>1. t \in left /\ \A u \in left : u = t \/ <<t, u>> \in R
    BY <1>4 DEF First
  <2> HIDE DEF R
  <2> QED BY <1>2, <2>1
<1> HIDE DEF left
<1>6. \E x \in left : \A u \in left : u = x \/ EnterBefore(x, u)
  BY <1>5
<1> DEFINE next == CHOOSE x \in left : \A u \in left : u = x \/ EnterBefore(x, u)
<1>7. next \in left /\ \A u \in left : u = next \/ EnterBefore(next, u)
  BY <1>6, Zenon
<1> QED BY <1>7 DEF left

\* The flight that is placed next.
LEMMA CoreHold == Core /\ HoldFlight => Core'
<1> SUFFICES ASSUME Core, HoldFlight PROVE Core'
  OBVIOUS
<1> DEFINE left == Flights(solved) \ DOMAIN delay
           next == CHOOSE t \in left : \A u \in left : u = t \/ EnterBefore(t, u)
<1>1. /\ stage = "hold" /\ UNCHANGED <<menu, stage, known, fleet, solved, plan, revisions>>
      /\ delay' = [t \in DOMAIN delay \cup {next} |-> IF t = next THEN Hold(next) ELSE delay[t]]
  BY DEF HoldFlight
<1>2. next \in Flights(solved)
  <2>1. left # {}
    BY DEF HoldFlight
  <2> QED BY <2>1, NextIsFirst
<1>3. /\ Flights(solved)' = Flights(solved) /\ \A t : Slack(solved, t)' = Slack(solved, t)
  BY <1>1, FlightsKept
<1>4. Hold(next) \in Nat /\ Hold(next) <= Slack(solved, next)
  BY <1>2, HoldFacts DEF Core
<1> HIDE DEF next
<1>5. Held'
  <2>1. DOMAIN delay' = DOMAIN delay \cup {next}
    BY <1>1
  <2>2. DOMAIN delay' \in SUBSET Flights(solved)'
    BY <1>2, <1>3, <2>1 DEF Core, Held
  <2>3. ASSUME NEW t \in DOMAIN delay' PROVE delay'[t] \in Nat /\ delay'[t] <= Slack(solved, t)'
    <3>1. CASE t = next
      BY <1>1, <1>3, <1>4, <2>1, <3>1
    <3>2. CASE t # next
      BY <1>1, <1>3, <2>1, <3>2 DEF Core, Held
    <3> QED BY <3>1, <3>2
  <2> QED BY <2>2, <2>3 DEF Held
<1>6. World' /\ RevisionsOk'
  BY <1>1 DEF Core, World, RevisionsOk
<1> QED BY <1>1, <1>5, <1>6 DEF Core

LEMMA CoreDispatch == Core /\ Dispatch => Core'
<1> SUFFICES ASSUME Core, Dispatch PROVE Core'
  OBVIOUS
<1>1. /\ stage' = "charge" /\ plan' = Retimed(solved, delay) /\ Flights(solved) \in SUBSET DOMAIN delay
      /\ UNCHANGED <<menu, known, fleet, solved, delay, revisions>>
  BY DEF Dispatch
<1>2. World' /\ Held' /\ Flights(solved)' = Flights(solved)
  BY <1>1, CoreQuiet
<1>3. PlanOk(menu, Retimed(solved, delay))
  BY RetimedOk DEF Core, Held
<1>4. Retimed(solved', delay') = Retimed(solved, delay)
  BY <1>1
<1>5. RevisionsOk'
  BY <1>1 DEF Core, RevisionsOk
<1> QED BY <1>1, <1>2, <1>3, <1>4, <1>5 DEF Core, Stages

\* Finding conflicts, corridors and sessions leaves the plan alone.
LEMMA CorePasses ==
    ASSUME Core, \/ DetectConflicts \/ AssignCorridor \/ CorridorsDone \/ ChargeNext
    PROVE  Core' /\ UNCHANGED <<menu, known, fleet, solved, delay, plan, revisions>>
<1>1. /\ UNCHANGED <<menu, known, fleet, solved, delay, plan, revisions>>
      /\ \/ stage' = stage
         \/ stage = "solved" /\ stage' = "colour"
         \/ stage = "colour" /\ stage' = "hold"
  BY DEF DetectConflicts, AssignCorridor, CorridorsDone, ChargeNext
<1>2. World' /\ Held' /\ Flights(solved)' = Flights(solved)
  BY <1>1, CoreQuiet
<1>3. stage' # "published" \/ stage' = stage
  BY <1>1
<1>4. RevisionsOk'
  BY <1>1, <1>3 DEF Core, RevisionsOk
<1> QED BY <1>1, <1>2, <1>4 DEF Core, Stages

\* A published revision.
LEMMA Publishes ==
    ASSUME Core, Publish
    PROVE  LET new == [plan |-> plan, unassigned |-> known \ DOMAIN plan, repaired |-> repaired,
                       airspace |-> AirspaceReport, charging |-> ChargingReport, kpis |-> Kpis]
               n == Len(revisions) + 1
           IN  /\ stage = "charge" /\ stage' = "published"
               /\ Demanding \in SUBSET {sessions[k].asset : k \in DOMAIN sessions}
               /\ UNCHANGED <<menu, now, known, fleet, repaired, solved, plan, conflicts, corridor, delay, sessions>>
               /\ IsSeq(revisions') /\ Len(revisions') = n /\ n \in Nat \ {0}
               /\ DOMAIN revisions = 1 .. n - 1 /\ DOMAIN revisions' = 1 .. n
               /\ \A i \in DOMAIN revisions : revisions'[i] = revisions[i]
               /\ revisions'[n] = new
<1> DEFINE new == [plan |-> plan, unassigned |-> known \ DOMAIN plan, repaired |-> repaired,
                   airspace |-> AirspaceReport, charging |-> ChargingReport, kpis |-> Kpis]
           n == Len(revisions) + 1
<1>1. /\ stage = "charge" /\ stage' = "published" /\ revisions' = Append(revisions, new)
      /\ Demanding \in SUBSET {sessions[k].asset : k \in DOMAIN sessions}
      /\ UNCHANGED <<menu, now, known, fleet, repaired, solved, plan, conflicts, corridor, delay, sessions>>
  BY DEF Publish
<1> HIDE DEF new
<1>2. /\ IsSeq(Append(revisions, new)) /\ Len(Append(revisions, new)) = n /\ Len(revisions) \in Nat
      /\ DOMAIN revisions = 1 .. Len(revisions) /\ DOMAIN Append(revisions, new) = 1 .. n
      /\ \A i \in DOMAIN revisions : Append(revisions, new)[i] = revisions[i]
      /\ Append(revisions, new)[n] = new
  <2>1. IsSeq(revisions)
    BY DEF Core, RevisionsOk
  <2> QED BY <2>1, Appended
<1>3. n \in Nat \ {0} /\ n - 1 = Len(revisions)
  BY <1>2
<1> QED BY <1>1, <1>2, <1>3 DEF new

LEMMA CorePublish == Core /\ Publish => Core'
<1> SUFFICES ASSUME Core, Publish PROVE Core'
  OBVIOUS
<1> DEFINE n == Len(revisions) + 1
<1>1. /\ stage = "charge" /\ stage' = "published"
      /\ UNCHANGED <<menu, known, fleet, solved, plan, delay>>
      /\ IsSeq(revisions') /\ Len(revisions') = n /\ n \in Nat \ {0}
      /\ DOMAIN revisions = 1 .. n - 1 /\ DOMAIN revisions' = 1 .. n
      /\ \A i \in DOMAIN revisions : revisions'[i] = revisions[i]
      /\ revisions'[n].plan = plan
  BY Publishes
<1> HIDE DEF n
<1>2. World' /\ Held' /\ Flights(solved)' = Flights(solved)
  BY <1>1, CoreQuiet
<1>3. ASSUME NEW i \in DOMAIN revisions' PROVE PlanOk(menu, revisions'[i].plan)
  <2>1. CASE i = n
    BY <1>1, <2>1 DEF Core
  <2>2. CASE i # n
    <3>1. i \in DOMAIN revisions
      BY <1>1, <2>2
    <3> QED BY <1>1, <3>1 DEF Core, RevisionsOk
  <2> QED BY <2>1, <2>2
<1>4. RevisionsOk'
  BY <1>1, <1>3 DEF RevisionsOk
<1> QED BY <1>1, <1>2, <1>4 DEF Core, Stages

LEMMA CoreHolds == Spec => []Core
<1>1. Init => Core
  <2> SUFFICES ASSUME Init PROVE Core
    OBVIOUS
  <2>1. /\ menu \in Menus /\ stage = "idle" /\ known = menu.first /\ fleet = DOMAIN Assets
        /\ solved = Empty /\ plan = Empty /\ delay = Empty /\ revisions = <<>>
    BY DEF Init, AerialInit
  <2>2. known \in SUBSET DOMAIN menu.tasks
    BY <2>1, MenuAssumption DEF MenuShape
  <2>3. World /\ Held /\ PlanOk(menu, plan)
    BY <2>1, <2>2, NoDelays DEF World, Held
  <2>4. RevisionsOk
    BY <2>1, NoElements DEF RevisionsOk
  <2> QED BY <2>1, <2>3, <2>4 DEF Core, Stages
<1>2. Core /\ [Next]_<<vars, diffVars>> => Core'
  <2> SUFFICES ASSUME Core, [Next]_<<vars, diffVars>> PROVE Core'
    OBVIOUS
  <2>1. UNCHANGED vars \/ AerialNext
    BY DEF Next, RunRevisionDiff, Reschedule, RescheduleFails, UpdateRow
  <2>2. CASE UNCHANGED vars
    BY <2>2, CoreKept
  <2>3. CASE AerialNext
    BY <2>3, CoreFirst, CoreReplans, CoreHold, CoreDispatch, CorePasses, CorePublish DEF AerialNext
  <2> QED BY <2>1, <2>2, <2>3
<1> QED BY <1>1, <1>2, PTL DEF Spec
-----------------------------------------------------------------------------
(* The diffs *)

\* A frozen flight of plan p flies as prev had it.
FrozenKept(prev, p) ==
    \A t \in DOMAIN p : p[t].frozen => t \in DOMAIN prev /\ p[t].asset = prev[t].asset /\ p[t].start = prev[t].start

\* What a diff of consecutive revisions tells.
Told(d, prev, new) ==
    /\ \A t \in DOMAIN prev.plan \cup DOMAIN new.plan :
        IF t \in DOMAIN d.changes THEN Bundle(new, t) = d.changes[t].to /\ Bundle(prev, t) = d.changes[t].from
        ELSE /\ Bundle(new, t) = Bundle(prev, t)
             /\ new.plan[t].start = prev.plan[t].start /\ new.plan[t].finish = prev.plan[t].finish
    /\ d.unchanged + Cardinality({t \in DOMAIN d.changes : d.changes[t].from # 0}) = Cardinality(DOMAIN prev.plan)
    /\ \A t \in DOMAIN d.changes :
        /\ d.changes[t].because = "left" => t \notin Universe(new)
        /\ d.changes[t].because # "frozen"

\* A flight with the same asset and start has the same end.
LEMMA SameEnds ==
    ASSUME World, NEW t, NEW o, NEW p, t \in DOMAIN menu.tasks, FlightOk(menu, t, o), FlightOk(menu, t, p),
           o.asset = p.asset, o.start = p.start
    PROVE  o.finish = p.finish
<1>1. PICK d \in menu.options[t] : d.asset = o.asset /\ d.finish - d.start = o.finish - o.start
  BY DEF FlightOk
<1>2. PICK e \in menu.options[t] : e.asset = p.asset /\ e.finish - e.start = p.finish - p.start
  BY DEF FlightOk
<1>3. d.finish - d.start = e.finish - e.start
  BY <1>1, <1>2, TaskFacts DEF MenuShape
<1>4. o.finish \in Nat /\ o.start \in Nat /\ p.finish \in Nat /\ p.start \in Nat
  BY DEF FlightOk, FlightType
<1> QED BY <1>1, <1>2, <1>3, <1>4

LEMMA PairTold ==
    ASSUME World, NEW prev, NEW new, PlanOk(menu, prev.plan), PlanOk(menu, new.plan),
           FrozenKept(prev.plan, new.plan)
    PROVE  Told(DiffRevisionPair(prev, new), prev, new)
<1> DEFINE d == DiffRevisionPair(prev, new)
           C == Changed(prev, new)
           old == DOMAIN prev.plan
           kept == {t \in old \cap DOMAIN new.plan : Same(prev, new, t)}
           moved == {t \in DOMAIN d.changes : d.changes[t].from # 0}
<1>1. /\ d.unchanged = Cardinality(kept) /\ DOMAIN d.changes = C
      /\ \A t \in C : /\ d.changes[t].because = Because(prev, new, t)
                      /\ d.changes[t].from = Bundle(prev, t) /\ d.changes[t].to = Bundle(new, t)
  BY DEF DiffRevisionPair
<1> HIDE DEF d
<1>2. ASSUME NEW t \in old \cup DOMAIN new.plan, t \notin C
      PROVE  t \in kept
  <2>1. t \in Compared(prev, new)
    BY DEF Compared, Universe
  <2> QED BY <1>2, <2>1 DEF Changed
<1>3. ASSUME NEW t \in kept
      PROVE  /\ t \notin C /\ t \in DOMAIN menu.tasks /\ Bundle(new, t) = Bundle(prev, t)
             /\ new.plan[t].start = prev.plan[t].start /\ new.plan[t].finish = prev.plan[t].finish
  <2>1. t \in DOMAIN menu.tasks /\ FlightOk(menu, t, prev.plan[t]) /\ FlightOk(menu, t, new.plan[t])
    BY DEF PlanOk
  <2>2. new.plan[t].asset = prev.plan[t].asset /\ new.plan[t].start = prev.plan[t].start
    BY DEF Same
  <2>3. new.plan[t].finish = prev.plan[t].finish
    BY <2>1, <2>2, SameEnds
  <2>4. t \notin C
    BY DEF Changed
  <2> QED BY <2>1, <2>2, <2>3, <2>4 DEF Bundle
<1>4. moved = old \ kept
  <2>1. ASSUME NEW t PROVE Bundle(prev, t) # 0 <=> t \in old
    <3>1. CASE t \in old
      <4>1. prev.plan[t].asset \in DOMAIN Assets
        BY <3>1 DEF PlanOk, FlightOk, FlightType
      <4> QED BY <3>1, <4>1, AssetsAssumption DEF Bundle
    <3>2. CASE t \notin old
      BY <3>2 DEF Bundle
    <3> QED BY <3>1, <3>2
  <2>2. moved = {t \in C : t \in old}
    BY <1>1, <2>1
  <2> HIDE DEF moved, kept, C
  <2> QED BY <1>2, <1>3, <2>2
<1>5. Cardinality(kept) + Cardinality(moved) = Cardinality(old)
  <2>1. IsFiniteSet(old)
    BY FiniteTasks
  <2>2. kept \in SUBSET old /\ old \cap kept = kept
    OBVIOUS
  <2> HIDE DEF moved, kept, old
  <2>3. IsFiniteSet(kept) /\ Cardinality(kept) \in Nat /\ Cardinality(old) \in Nat
    BY <2>1, <2>2, FS_Subset, FS_CardinalityType
  <2>4. Cardinality(old \ kept) = Cardinality(old) - Cardinality(old \cap kept)
    BY <2>1, FS_Difference
  <2>5. Cardinality(moved) = Cardinality(old) - Cardinality(kept)
    BY <1>4, <2>2, <2>4
  <2> QED BY <2>3, <2>5
<1>6. ASSUME NEW t \in C
      PROVE  /\ Because(prev, new, t) = "left" => t \notin Universe(new)
             /\ Because(prev, new, t) # "frozen"
  <2>1. t \in old /\ t \in DOMAIN new.plan => ~Same(prev, new, t)
    BY DEF Changed
  <2>2. t \in old /\ t \in DOMAIN new.plan => ~new.plan[t].frozen
    BY <2>1 DEF FrozenKept, Same
  <2> QED BY <2>2 DEF Because, Universe
<1> HIDE DEF C, kept, moved, old
<1>7. \A t \in DOMAIN prev.plan \cup DOMAIN new.plan :
        IF t \in C THEN Bundle(new, t) = d.changes[t].to /\ Bundle(prev, t) = d.changes[t].from
        ELSE /\ Bundle(new, t) = Bundle(prev, t)
             /\ new.plan[t].start = prev.plan[t].start /\ new.plan[t].finish = prev.plan[t].finish
  BY <1>1, <1>2, <1>3 DEF old
<1>8. d.unchanged + Cardinality({t \in DOMAIN d.changes : d.changes[t].from # 0}) = Cardinality(DOMAIN prev.plan)
  BY <1>1, <1>5 DEF moved, old
<1> QED BY <1>1, <1>6, <1>7, <1>8 DEF Told, d

\* Frozen flights of a plan on its way, and of published ones.
Before == IF Len(revisions) = 0 THEN Empty ELSE revisions[Len(revisions)].plan
Lasting ==
    /\ stage \in {"solved", "colour", "hold", "charge"} => FrozenKept(Before, solved)
    /\ \A n \in DOMAIN revisions : n + 1 \in DOMAIN revisions => FrozenKept(revisions[n].plan, revisions[n + 1].plan)
Diffed ==
    \A n \in DOMAIN diffs : /\ n \in Nat /\ n \in DOMAIN revisions /\ n + 1 \in DOMAIN revisions
                            /\ diffs[n] = DiffRevisionPair(revisions[n], revisions[n + 1])

LEMMA LastingSolves == Core /\ Lasting /\ (SolveFirst \/ Replan) => Lasting'
<1> SUFFICES ASSUME Core, Lasting, SolveFirst \/ Replan PROVE Lasting'
  OBVIOUS
<1>1. CASE SolveFirst
  <2>1. PICK f \in Dispatches(known, Empty, 0) : Begin(Empty, f)
    BY <1>1 DEF SolveFirst
  <2>2. DOMAIN f \in SUBSET known /\ \A t \in DOMAIN f : f[t] \in menu.options[t]
    BY DispatchFacts
  <2>3. \A t \in DOMAIN solved' : ~solved'[t].frozen
    BY <2>1, <2>2, BeginOk, NoDelays DEF Core, World
  <2>4. revisions' = revisions
    BY <1>1 DEF SolveFirst
  <2> QED BY <2>3, <2>4 DEF Lasting, FrozenKept
<1>2. CASE Replan
  <2>1. stage = "published" /\ revisions' = revisions
    BY <1>2, Replans
  <2>2. PICK event, f : /\ Begin(HeldBy(event, known'), f) /\ DOMAIN f \in SUBSET DOMAIN menu.tasks
                        /\ \A t \in DOMAIN f : f[t] \in menu.options[t]
    BY <1>2, Replans
  <2> DEFINE held == HeldBy(event, known')
  <2>3. PlanOk(menu, held) /\ \A t \in DOMAIN held :
            t \in DOMAIN plan /\ held[t].asset = plan[t].asset /\ held[t].start = plan[t].start
    BY HeldFacts
  <2> HIDE DEF held
  <2>4. \A t \in DOMAIN solved' : solved'[t].frozen => t \in DOMAIN held /\ solved'[t] = held[t]
    BY <2>2, <2>3, BeginOk DEF Core, held
  <2>5. Before' = plan
    BY <2>1, Appended DEF Core, RevisionsOk, Before
  <2>6. FrozenKept(plan, solved')
    BY <2>3, <2>4 DEF FrozenKept
  <2>7. FrozenKept(Before', solved')
    BY <2>5, <2>6
  <2> QED BY <2>1, <2>7 DEF Lasting
<1> QED BY <1>1, <1>2

LEMMA LastingPublish == Core /\ Lasting /\ Publish => Lasting'
<1> SUFFICES ASSUME Core, Lasting, Publish PROVE Lasting'
  OBVIOUS
<1> DEFINE n == Len(revisions) + 1
<1>1. /\ stage = "charge" /\ stage' = "published" /\ plan' = plan
      /\ n \in Nat \ {0} /\ DOMAIN revisions = 1 .. n - 1 /\ DOMAIN revisions' = 1 .. n
      /\ \A i \in DOMAIN revisions : revisions'[i] = revisions[i]
      /\ revisions'[n].plan = plan
  BY Publishes
<1>2. FrozenKept(Before, plan)
  <2>1. plan = Retimed(solved, delay) /\ FrozenKept(Before, solved)
    BY <1>1 DEF Core, Lasting
  <2>2. DOMAIN plan = DOMAIN solved
        /\ \A t \in DOMAIN solved : plan[t].asset = solved[t].asset /\ plan[t].frozen = solved[t].frozen
    BY <2>1, RetimedOk DEF Core, Held
  <2>3. \A t \in DOMAIN solved : solved[t].frozen => plan[t] = solved[t]
    BY <2>1 DEF Retimed
  <2> QED BY <2>1, <2>2, <2>3 DEF FrozenKept
<1>3. Len(revisions) = n - 1 /\ (n - 1) + 1 = n
  BY <1>1, Appended DEF Core, RevisionsOk
<1>4. n - 1 \in DOMAIN revisions => Before = revisions[n - 1].plan
  BY <1>1, <1>3 DEF Before
<1> HIDE DEF n
<1>5. ASSUME NEW i \in DOMAIN revisions', i + 1 \in DOMAIN revisions'
      PROVE  FrozenKept(revisions'[i].plan, revisions'[i + 1].plan)
  <2>1. CASE i + 1 = n
    <3>1. i = n - 1 /\ i \in DOMAIN revisions
      BY <1>1, <1>5, <2>1
    <3>2. revisions'[i] = revisions[i] /\ Before = revisions[i].plan /\ revisions'[i + 1].plan = plan
      BY <1>1, <1>4, <2>1, <3>1
    <3> QED BY <1>2, <3>2
  <2>2. CASE i + 1 # n
    <3>1. i \in DOMAIN revisions /\ i + 1 \in DOMAIN revisions
      BY <1>1, <1>5, <2>2
    <3> QED BY <1>1, <3>1 DEF Lasting
  <2> QED BY <2>1, <2>2
<1> QED BY <1>1, <1>5 DEF Lasting

LEMMA LastingHolds == Spec => []Lasting
<1>1. Init => Lasting
  BY NoElements DEF Init, AerialInit, Lasting
<1>2. Core /\ Lasting /\ [Next]_<<vars, diffVars>> => Lasting'
  <2> SUFFICES ASSUME Core, Lasting, [Next]_<<vars, diffVars>> PROVE Lasting'
    OBVIOUS
  <2>1. \/ SolveFirst \/ Replan \/ Publish
        \/ /\ UNCHANGED <<solved, revisions>>
           /\ \/ stage' = stage
              \/ stage \in {"solved", "colour", "hold", "charge"}
    BY DEF Next, AerialNext, RunRevisionDiff, Reschedule, RescheduleFails, UpdateRow, vars, DetectConflicts,
           AssignCorridor, CorridorsDone, HoldFlight, Dispatch, ChargeNext
  <2>2. CASE SolveFirst \/ Replan
    BY <2>2, LastingSolves
  <2>3. CASE Publish
    BY <2>3, LastingPublish
  <2>4. CASE /\ UNCHANGED <<solved, revisions>>
             /\ \/ stage' = stage
                \/ stage \in {"solved", "colour", "hold", "charge"}
    <3>1. Before' = Before
      BY <2>4 DEF Before
    <3> QED BY <2>4, <3>1 DEF Lasting, Core, Stages
  <2> QED BY <2>1, <2>2, <2>3, <2>4
<1> QED BY <1>1, <1>2, CoreHolds, PTL DEF Spec

LEMMA DiffedHolds == Spec => []Diffed
<1>1. Init => Diffed
  BY NoElements DEF Init, Diffed
<1>2. Core /\ Diffed /\ [Next]_<<vars, diffVars>> => Diffed'
  <2> SUFFICES ASSUME Core, Diffed, [Next]_<<vars, diffVars>> PROVE Diffed'
    OBVIOUS
  <2>1. \/ Publish /\ diffs' = diffs
        \/ RunRevisionDiff
        \/ UNCHANGED <<revisions, diffs>>
    BY DEF Next, AerialNext, Reschedule, RescheduleFails, UpdateRow, vars, diffVars, DetectConflicts,
           AssignCorridor, CorridorsDone, HoldFlight, Dispatch, ChargeNext, SolveFirst, Replan
  <2>2. CASE Publish /\ diffs' = diffs
    <3>1. \A i \in DOMAIN revisions : revisions'[i] = revisions[i] /\ i \in DOMAIN revisions'
      <4> DEFINE n == Len(revisions) + 1
      <4>1. /\ n \in Nat \ {0} /\ DOMAIN revisions = 1 .. n - 1 /\ DOMAIN revisions' = 1 .. n
            /\ \A i \in DOMAIN revisions : revisions'[i] = revisions[i]
        BY <2>2, Publishes
      <4> HIDE DEF n
      <4> QED BY <4>1
    <3> QED BY <2>2, <3>1 DEF Diffed
  <2>3. CASE RunRevisionDiff
    <3>1. /\ Len(revisions) > 1 /\ revisions' = revisions
          /\ diffs' = [n \in 1 .. Len(revisions) - 1 |-> DiffRevisionPair(revisions[n], revisions[n + 1])]
      BY <2>3 DEF RunRevisionDiff, vars
    <3>2. DOMAIN revisions = 1 .. Len(revisions) /\ Len(revisions) \in Nat
      BY Appended DEF Core, RevisionsOk
    <3> QED BY <3>1, <3>2 DEF Diffed
  <2>4. CASE UNCHANGED <<revisions, diffs>>
    BY <2>4 DEF Diffed
  <2> QED BY SMTT(60), <2>1, <2>2, <2>3, <2>4
<1> QED BY <1>1, <1>2, CoreHolds, PTL DEF Spec

\* The plan diff of a reschedule.
LEMMA ReplaysHolds == Spec => []PlanDiffReplays
<1>1. Init => PlanDiffReplays
  BY NoElements DEF Init, PlanDiffReplays, NothingLeft, Empty
<1>2. PlanDiffReplays /\ [Next]_<<vars, diffVars>> => PlanDiffReplays'
  <2> SUFFICES ASSUME PlanDiffReplays, [Next]_<<vars, diffVars>> PROVE PlanDiffReplays'
    OBVIOUS
  <2>1. \/ \E started : Reschedule(started)
        \/ planDiff' = [planDiff EXCEPT !.n = planDiff.n + 1]
        \/ planDiff' = planDiff
    BY DEF Next, diffVars, RunRevisionDiff, RescheduleFails, UpdateRow
  <2>2. CASE \E started : Reschedule(started)
    <3>1. PICK started : Reschedule(started)
      BY <2>2
    <3> DEFINE table == Marked(rows, started)
               frozen == InStatus(table, "started")
               pending == InStatus(table, "pending")
    <3>2. PICK new \in UNION {[d -> menu.slots] : d \in SUBSET pending} :
            planDiff' = [n |-> planDiff.n + 1, old |-> schedule, new |-> new,
                         diff |-> IF pending = {} THEN NothingLeft(frozen)
                                  ELSE BuildPlanDiff(schedule, new, frozen, pending \ DOMAIN new)]
      BY <3>1 DEF Reschedule
    <3>3. DOMAIN new \in SUBSET pending /\ pending \cap frozen = {}
      BY DEF InStatus
    <3> HIDE DEF table, frozen, pending
    <3>4. CASE pending = {}
      BY <3>2, <3>3, <3>4 DEF PlanDiffReplays, NothingLeft
    <3>5. CASE pending # {}
      <4>1. /\ planDiff'.old = schedule /\ planDiff'.new = new /\ planDiff'.diff.frozen = frozen
            /\ planDiff'.diff.removed = DOMAIN schedule \ (DOMAIN new \cup frozen)
            /\ planDiff'.diff.added = [o \in DOMAIN new \ DOMAIN schedule |-> new[o]]
            /\ planDiff'.diff.rescheduled = [o \in {u \in DOMAIN schedule \cap DOMAIN new : schedule[u] # new[u]}
                                                |-> [from |-> schedule[o], to |-> new[o]]]
        BY <3>2, <3>5 DEF BuildPlanDiff, Removed
      <4> DEFINE d == planDiff'.diff
                 stays == DOMAIN schedule \ (d.removed \cup d.frozen)
      <4>2. /\ DOMAIN d.added = DOMAIN new \ DOMAIN schedule
            /\ DOMAIN d.rescheduled = {u \in DOMAIN schedule \cap DOMAIN new : schedule[u] # new[u]}
            /\ \A o \in DOMAIN d.rescheduled : d.rescheduled[o].to = new[o]
        BY <4>1
      <4> HIDE DEF d
      <4>3. /\ DOMAIN new = stays \cup DOMAIN d.added
            /\ d.removed \cap d.frozen = {} /\ d.frozen \cap DOMAIN new = {}
        BY <3>3, <4>1, <4>2 DEF d
      <4>4. ASSUME NEW o \in stays
            PROVE  new[o] = IF o \in DOMAIN d.rescheduled THEN d.rescheduled[o].to ELSE schedule[o]
        <5>1. o \in DOMAIN schedule /\ o \in DOMAIN new
          BY <4>3
        <5> QED BY <4>2, <5>1
      <4> HIDE DEF stays
      <4> QED BY <4>1, <4>3, <4>4 DEF PlanDiffReplays, d, stays
    <3> QED BY <3>4, <3>5
  <2>3. CASE planDiff' = [planDiff EXCEPT !.n = planDiff.n + 1]
    BY <2>3 DEF PlanDiffReplays
  <2>4. CASE planDiff' = planDiff
    BY <2>4 DEF PlanDiffReplays
  <2> QED BY <2>1, <2>2, <2>3, <2>4
<1> QED BY <1>1, <1>2, PTL DEF Spec

(* Whatever tasks, fleet, events and orders: from the explained diff of    *)
(* consecutive revisions, and from the plan diff of a reschedule, the new  *)
(* plan follows from the old one; no frozen flight is recorded as moved.   *)
(* (diff_revision_pair, _build_plan_diff)                                  *)
THEOREM DiffsTellEverything == Spec => []DiffsTellAll
<1>1. Core /\ Lasting /\ Diffed /\ PlanDiffReplays => DiffsTellAll
  <2> SUFFICES ASSUME Core, Lasting, Diffed, PlanDiffReplays, NEW n \in DOMAIN diffs
               PROVE  Told(diffs[n], revisions[n], revisions[n + 1])
    BY DEF DiffsTellAll, DiffTellsAll, Told
  <2>1. /\ n \in DOMAIN revisions /\ n + 1 \in DOMAIN revisions
        /\ diffs[n] = DiffRevisionPair(revisions[n], revisions[n + 1])
    BY DEF Diffed
  <2>2. PlanOk(menu, revisions[n].plan) /\ PlanOk(menu, revisions[n + 1].plan)
    BY <2>1 DEF Core, RevisionsOk
  <2>3. FrozenKept(revisions[n].plan, revisions[n + 1].plan)
    BY <2>1 DEF Lasting
  <2> QED BY <2>1, <2>2, <2>3, PairTold DEF Core
<1> QED BY <1>1, CoreHolds, LastingHolds, DiffedHolds, ReplaysHolds, PTL
-----------------------------------------------------------------------------
(* Separation *)

\* A conflict is between two flights, each of which conflicts with the other.
Paired(pair) ==
    /\ pair \in SUBSET Flights(solved)
    /\ \E t, u : t # u /\ pair = {t, u}
    /\ \A t, u \in pair : t # u => Close(solved, t, u)
Found == {pair \in kSubset(2, Flights(solved)) : \A t, u \in pair : t # u => Conflict(solved, t, u)}
PairsFound ==
    /\ \A pair \in conflicts : Paired(pair)
    /\ stage \in {"colour", "hold", "charge", "published"} => conflicts = Found

\* Flights are placed in order; one that was not held for all its slack is
\* clear of those before it.
\* A flight is held only for one before it in its corridor that it conflicts with.
AwaitedBy(t, u) ==
    u \in DOMAIN delay /\ u \in Neighbours(t) /\ EnterBefore(u, t) /\ corridor[u] = corridor[t]
ClearOf(t, u) == Entry(solved, t) + delay[t] >= EffExit(u) + Buffer
Placed ==
    /\ \A t \in DOMAIN delay : \A u \in Flights(solved) \ DOMAIN delay : EnterBefore(t, u)
    /\ \A t, u \in DOMAIN delay :
        EnterBefore(u, t) /\ {t, u} \in conflicts /\ corridor[t] = corridor[u]
            => delay[t] = Slack(solved, t) \/ ClearOf(t, u)
    /\ \A t \in DOMAIN delay : delay[t] > 0 => \E u : AwaitedBy(t, u)

LEMMA PairOf ==
    ASSUME NEW S, IsFiniteSet(S), Cardinality(S) = 2
    PROVE  \E t, u : t # u /\ S = {t, u}
<1>1. S # {}
  BY FS_EmptySet
<1>2. PICK t : t \in S
  BY <1>1
<1>3. IsFiniteSet(S \ {t}) /\ Cardinality(S \ {t}) = 1
  BY <1>2, FS_RemoveElement
<1>4. PICK u : S \ {t} = {u}
  BY <1>3, FS_Singleton
<1> QED BY <1>2, <1>4

LEMMA CloseKept ==
    ASSUME menu' = menu, fleet' = fleet, solved' = solved
    PROVE  \A t, u : Close(solved, t, u)' = Close(solved, t, u)
BY DEF Close, FlightPath, Origin, Task

LEMMA PairedKept ==
    ASSUME menu' = menu, fleet' = fleet, solved' = solved, known' = known
    PROVE  \A pair : Paired(pair)' = Paired(pair)
BY DEF Paired, Flights, Close, FlightPath, Origin, Task

LEMMA FoundKept ==
    ASSUME menu' = menu, fleet' = fleet, solved' = solved, known' = known
    PROVE  Found' = Found
<1>1. Flights(solved)' = Flights(solved) /\ \A t : Entry(solved, t)' = Entry(solved, t)
  BY FlightsKept
<1>2. \A t, u : Conflict(solved, t, u)' = Conflict(solved, t, u)
  BY <1>1, CloseKept DEF Conflict, Overlap
<1> QED BY <1>1, <1>2 DEF Found

LEMMA SeparationDetects ==
    ASSUME Core, DetectConflicts
    PROVE  PairsFound' /\ Placed'
<1>1. /\ stage = "solved" /\ UNCHANGED <<menu, known, fleet, solved, delay>>
      /\ conflicts' = {pair \in kSubset(2, Flights(solved)) : \A t, u \in pair : t # u => Conflict(solved, t, u)}
  BY DEF DetectConflicts
<1>2. Flights(solved)' = Flights(solved)
  BY <1>1, CoreQuiet
<1>3. ASSUME NEW pair \in conflicts'
      PROVE  Paired(pair)
  <2>1. /\ pair \in SUBSET Flights(solved) /\ Cardinality(pair) = 2
        /\ \A t, u \in pair : t # u => Conflict(solved, t, u)
    BY <1>1 DEF kSubset
  <2>2. Flights(solved) \in SUBSET DOMAIN solved /\ IsFiniteSet(DOMAIN solved)
    BY FiniteTasks DEF Core, World, Flights
  <2>3. IsFiniteSet(pair)
    BY <2>1, <2>2, FS_Subset
  <2>4. \E t, u : t # u /\ pair = {t, u}
    BY <2>1, <2>3, PairOf
  <2> QED BY <2>1, <2>4 DEF Conflict, Paired
<1>4. conflicts' = Found'
  BY <1>1, FoundKept DEF Found
<1>5. PairsFound'
  BY <1>1, <1>3, <1>4, PairedKept DEF PairsFound
<1>6. DOMAIN delay' = {}
  BY <1>1, NoDelays DEF Core
<1> QED BY <1>5, <1>6 DEF Placed

LEMMA SeparationPlaces ==
    ASSUME Core, PairsFound, Placed, HoldFlight
    PROVE  PairsFound' /\ Placed'
<1> DEFINE left == Flights(solved) \ DOMAIN delay
           next == CHOOSE t \in left : \A u \in left : u = t \/ EnterBefore(t, u)
<1>1. /\ stage = "hold" /\ UNCHANGED <<menu, known, fleet, solved, conflicts, corridor>>
      /\ left # {} /\ delay' = [t \in DOMAIN delay \cup {next} |-> IF t = next THEN Hold(next) ELSE delay[t]]
  BY DEF HoldFlight
<1>2. next \in left /\ \A u \in left : u = next \/ EnterBefore(next, u)
  BY <1>1, NextIsFirst
<1> HIDE DEF next
<1>3. /\ Flights(solved)' = Flights(solved)
      /\ \A t : Slack(solved, t)' = Slack(solved, t) /\ Entry(solved, t)' = Entry(solved, t)
  BY <1>1, FlightsKept
<1>4. PairsFound'
  <2>1. stage' = "hold"
    BY DEF HoldFlight
  <2> QED BY <1>1, <2>1, PairedKept, FoundKept DEF PairsFound
<1>5. \A t, u : EnterBefore(t, u)' <=> EnterBefore(t, u)
  BY <1>3 DEF EnterBefore
<1>6. /\ DOMAIN delay' = DOMAIN delay \cup {next} /\ delay'[next] = Hold(next)
      /\ \A t \in DOMAIN delay : t # next /\ delay'[t] = delay[t]
  BY <1>1, <1>2
<1>7. ASSUME NEW t \in DOMAIN delay', NEW u \in Flights(solved) \ DOMAIN delay'
      PROVE  EnterBefore(t, u)
  BY <1>2, <1>6 DEF Placed
<1>8. ASSUME NEW t \in DOMAIN delay', NEW u \in DOMAIN delay', EnterBefore(u, t), {t, u} \in conflicts,
             corridor[t] = corridor[u]
      PROVE  delay'[t] = Slack(solved, t) \/ Entry(solved, t) + delay'[t] >= solved[u].finish + delay'[u] + Buffer
  <2>1. CASE u = next
    <3>1. t \in Flights(solved) /\ next \in Flights(solved)
      BY <1>2, <1>6 DEF Core, Held
    <3>2. ~EnterBefore(next, next) /\ (t \in DOMAIN delay => EnterBefore(t, next))
      BY <1>2, <3>1, EntryOrder DEF Core, Placed
    <3>3. FALSE
      BY <1>6, <1>8, <2>1, <3>1, <3>2, EntryOrder DEF Core
    <3> QED BY <3>3
  <2>2. CASE u # next /\ t = next
    <3>1. u \in DOMAIN delay /\ u \in Ahead(next)
      <4>1. u \in DOMAIN delay
        BY <1>6, <2>2
      <4>2. {next, u} \in conflicts /\ next \in {next, u} /\ u \in {next, u} /\ corridor[u] = corridor[next]
        BY <1>8, <2>2
      <4>3. u \in Neighbours(next)
        BY <2>2, <4>2 DEF Neighbours
      <4> QED BY <4>1, <4>2, <4>3 DEF Ahead
    <3>2. Hold(next) = Slack(solved, next)
          \/ Entry(solved, next) + Hold(next) >= EffExit(u) + Buffer
      BY <1>2, <3>1, HoldFacts DEF Core
    <3> QED BY <1>6, <2>2, <3>1, <3>2 DEF EffExit
  <2>3. CASE u # next /\ t # next
    <3>1. t \in DOMAIN delay /\ u \in DOMAIN delay
      BY <1>6, <2>3
    <3> QED BY <1>6, <1>8, <3>1 DEF Placed, ClearOf, EffExit
  <2> QED BY <2>1, <2>2, <2>3
<1>9. Placed'
  <2>1. \A t \in DOMAIN delay' : \A u \in Flights(solved)' \ DOMAIN delay' : EnterBefore(t, u)'
    BY <1>3, <1>5, <1>7
  <2>2. ASSUME NEW t \in DOMAIN delay', NEW u \in DOMAIN delay', EnterBefore(u, t)', {t, u} \in conflicts',
               corridor'[t] = corridor'[u]
        PROVE  delay'[t] = Slack(solved, t)' \/ ClearOf(t, u)'
    BY <1>1, <1>3, <1>5, <1>8, <2>2 DEF ClearOf, EffExit
  <2>3. \A t : Neighbours(t)' = Neighbours(t)
    BY <1>1 DEF Neighbours
  <2>4. ASSUME NEW t \in DOMAIN delay', delay'[t] > 0 PROVE \E u : AwaitedBy(t, u)'
    <3>1. CASE t = next
      <4>1. PICK u : u \in Ahead(next)
        BY <1>2, <1>6, <2>4, <3>1, HoldFacts DEF Core
      <4>2. u \in DOMAIN delay /\ u \in Neighbours(next) /\ corridor[u] = corridor[next] /\ EnterBefore(u, next)
        BY <1>2, <4>1 DEF Ahead, Placed
      <4>3. AwaitedBy(t, u)'
        BY <1>1, <1>5, <1>6, <2>3, <3>1, <4>2 DEF AwaitedBy
      <4> QED BY <4>3
    <3>2. CASE t # next
      <4>1. PICK u : AwaitedBy(t, u)
        BY <1>6, <2>4, <3>2 DEF Placed
      <4>2. AwaitedBy(t, u)'
        BY <1>1, <1>5, <1>6, <2>3, <4>1 DEF AwaitedBy
      <4> QED BY <4>2
    <3> QED BY <3>1, <3>2
  <2> QED BY <2>1, <2>2, <2>4 DEF Placed
<1> QED BY <1>4, <1>9

LEMMA SeparationKept ==
    ASSUME Core, PairsFound, Placed, UNCHANGED <<menu, known, fleet, solved, delay>>,
           UNCHANGED <<conflicts, corridor>> \/ (conflicts' = conflicts /\ delay = Empty),
           stage \in {"colour", "hold", "charge", "published"} \/ stage' = stage
    PROVE  PairsFound' /\ Placed'
<1>1. /\ Flights(solved)' = Flights(solved)
      /\ \A t : Slack(solved, t)' = Slack(solved, t) /\ Entry(solved, t)' = Entry(solved, t)
  BY FlightsKept
<1>2. PairsFound'
  BY PairedKept, FoundKept DEF PairsFound
<1>3. CASE delay = Empty
  <2>1. DOMAIN delay' = {}
    BY <1>3, NoDelays
  <2> QED BY <1>2, <2>1 DEF Placed
<1>4. CASE UNCHANGED <<conflicts, corridor>>
  <2>1. \A t, u : EnterBefore(t, u)' <=> EnterBefore(t, u)
    BY <1>1 DEF EnterBefore
  <2>2. \A t : Neighbours(t)' = Neighbours(t)
    BY <1>4 DEF Neighbours
  <2>3. \A t, u : AwaitedBy(t, u)' <=> AwaitedBy(t, u)
    BY <1>4, <2>1, <2>2 DEF AwaitedBy
  <2>4. \A t, u : ClearOf(t, u)' <=> ClearOf(t, u)
    BY <1>1 DEF ClearOf, EffExit
  <2> QED BY <1>1, <1>2, <1>4, <2>1, <2>3, <2>4 DEF Placed
<1> QED BY <1>3, <1>4

LEMMA SeparationHolds == Spec => [](PairsFound /\ Placed)
<1>1. Init => PairsFound /\ Placed
  BY NoDelays DEF Init, AerialInit, PairsFound, Placed
<1>2. Core /\ (PairsFound /\ Placed) /\ [Next]_<<vars, diffVars>> => (PairsFound /\ Placed)'
  <2> SUFFICES ASSUME Core, PairsFound, Placed, [Next]_<<vars, diffVars>> PROVE PairsFound' /\ Placed'
    OBVIOUS
  <2>1. \/ SolveFirst \/ Replan \/ DetectConflicts \/ HoldFlight
        \/ /\ UNCHANGED <<menu, known, fleet, solved, delay>>
           /\ UNCHANGED <<conflicts, corridor>> \/ (conflicts' = conflicts /\ stage = "colour")
           /\ stage \in {"colour", "hold", "charge", "published"} \/ stage' = stage
    BY DEF Next, AerialNext, RunRevisionDiff, Reschedule, RescheduleFails, UpdateRow, vars,
           AssignCorridor, CorridorsDone, Dispatch, ChargeNext, Publish
  <2>2. CASE SolveFirst \/ Replan
    <3>1. conflicts' = {} /\ delay' = Empty /\ stage' = "solved"
      BY <2>2 DEF SolveFirst, Replan, Begin
    <3>2. DOMAIN delay' = {}
      BY <3>1, NoDelays
    <3> QED BY <3>1, <3>2 DEF PairsFound, Placed
  <2>3. CASE DetectConflicts
    BY <2>3, SeparationDetects
  <2>4. CASE HoldFlight
    BY <2>4, SeparationPlaces
  <2>5. CASE /\ UNCHANGED <<menu, known, fleet, solved, delay>>
             /\ UNCHANGED <<conflicts, corridor>> \/ (conflicts' = conflicts /\ stage = "colour")
             /\ stage \in {"colour", "hold", "charge", "published"} \/ stage' = stage
    <3>1. stage = "colour" => delay = Empty
      BY DEF Core
    <3> QED BY <2>5, <3>1, SeparationKept
  <2> QED BY <2>1, <2>2, <2>3, <2>4, <2>5
<1> QED BY <1>1, <1>2, CoreHolds, PTL DEF Spec

\* A flight as dispatched.
LEMMA AsDispatched ==
    ASSUME Core, stage \in {"charge", "published"}, NEW t \in Flights(solved)
    PROVE  /\ t \in DOMAIN plan /\ t \in DOMAIN solved /\ t \in DOMAIN delay /\ delay[t] \in Nat
           /\ plan[t].asset = solved[t].asset /\ Entry(solved, t) \in Int /\ solved[t].finish \in Nat
           /\ Entry(plan, t) = Entry(solved, t) + delay[t] /\ plan[t].finish = EffExit(t)
<1>1. /\ t \in DOMAIN solved /\ t \in DOMAIN delay /\ delay[t] \in Nat /\ delay[t] <= Slack(solved, t)
      /\ plan = Retimed(solved, delay) /\ PlanOk(menu, plan) /\ PlanOk(menu, solved) /\ World
  BY DEF Core, Held, Flights, World
<1>2. /\ solved[t].frozen => Slack(solved, t) = 0
      /\ solved[t] \in FlightType
  BY <1>1 DEF Slack, PlanOk, FlightOk
<1>3. solved[t].frozen => delay[t] = 0
  BY <1>1, <1>2
<1>4. /\ t \in DOMAIN plan /\ plan[t].asset = solved[t].asset
      /\ plan[t].start = solved[t].start + delay[t] /\ plan[t].finish = solved[t].finish + delay[t]
  <2> DEFINE h == IF t \in DOMAIN delay /\ ~solved[t].frozen THEN delay[t] ELSE 0
  <2>1. h = delay[t]
    BY <1>1, <1>3
  <2>2. /\ t \in DOMAIN plan /\ plan[t].asset = solved[t].asset
        /\ plan[t].start = solved[t].start + h /\ plan[t].finish = solved[t].finish + h
    BY <1>1, RetimedOk DEF Held, Core
  <2> QED BY <2>1, <2>2
<1>5. /\ Entry(solved, t) \in Int
      /\ Entry(solved, t) = solved[t].start - InboundTravel(FlightPath(t, solved[t].asset), Speed(solved[t].asset))
      /\ Entry(plan, t) \in Int
      /\ Entry(plan, t) = plan[t].start - InboundTravel(FlightPath(t, plan[t].asset), Speed(plan[t].asset))
  BY <1>1, <1>4, FlightTimes
<1>6. solved[t].start \in Nat /\ solved[t].finish \in Nat
  BY <1>2 DEF FlightType
<1>7. Entry(plan, t) = Entry(solved, t) + delay[t]
  <2> DEFINE travel == InboundTravel(FlightPath(t, solved[t].asset), Speed(solved[t].asset))
  <2>1. travel \in Int
    <3>1. t \in DOMAIN menu.tasks /\ solved[t].asset \in DOMAIN Assets
      BY <1>1, <1>2 DEF PlanOk, FlightType
    <3>2. Speed(solved[t].asset) \in Int
      BY <3>1, AssetsAssumption DEF Speed
    <3> QED BY <1>1, <3>1, <3>2, PathShape, TravelTime
  <2>2. Entry(solved, t) = solved[t].start - travel /\ Entry(plan, t) = plan[t].start - travel
    BY <1>4, <1>5
  <2> HIDE DEF travel
  <2> QED BY <1>1, <1>4, <1>6, <2>1, <2>2
<1> QED BY <1>1, <1>4, <1>5, <1>6, <1>7 DEF EffExit

\* Two flights too close as dispatched are those the shifted copies show.
LEMMA SameVerdict ==
    ASSUME Core, stage = "published", NEW t \in Flights(solved), NEW u \in Flights(solved), t # u, Close(solved, t, u)
    PROVE  Conflict(plan, t, u) <=> ~Separated(t, u)
<1>1. /\ plan[t].asset = solved[t].asset /\ Entry(plan, t) = Entry(solved, t) + delay[t] /\ plan[t].finish = EffExit(t)
      /\ plan[u].asset = solved[u].asset /\ Entry(plan, u) = Entry(solved, u) + delay[u] /\ plan[u].finish = EffExit(u)
  BY AsDispatched
<1>2. Close(plan, t, u)
  BY <1>1 DEF Close
<1> QED BY <1>1, <1>2 DEF Conflict, Separated

\* The report counts the residual conflicts.
InResidual(pair) == SameCorridor(pair) /\ \A t, u \in pair : t # u => ~Separated(t, u)
Reported == stage = "published" => Newest.airspace.residual = Cardinality(Residual)

LEMMA ResidualKept ==
    ASSUME UNCHANGED <<menu, known, fleet, solved, conflicts, corridor, delay>>
    PROVE  Residual' = Residual
<1>1. \A t : Entry(solved, t)' = Entry(solved, t)
  BY FlightsKept
<1>2. \A t, u : Separated(t, u)' = Separated(t, u)
  BY <1>1 DEF Separated, Overlap, EffExit
<1>3. \A pair : SameCorridor(pair)' = SameCorridor(pair)
  BY DEF SameCorridor
<1> QED BY <1>2, <1>3 DEF Residual

LEMMA ReportedHolds == Spec => []Reported
<1>1. Init => Reported
  BY DEF Init, AerialInit, Reported
<1>2. Core /\ Reported /\ [Next]_<<vars, diffVars>> => Reported'
  <2> SUFFICES ASSUME Core, Reported, [Next]_<<vars, diffVars>> PROVE Reported'
    OBVIOUS
  <2>1. \/ Publish
        \/ UNCHANGED vars
        \/ stage' # "published"
    BY DEF Next, AerialNext, RunRevisionDiff, Reschedule, RescheduleFails, UpdateRow, DetectConflicts,
           AssignCorridor, CorridorsDone, HoldFlight, Dispatch, ChargeNext, SolveFirst, Replan, Begin, vars
  <2>2. CASE Publish
    <3>1. /\ UNCHANGED <<menu, known, fleet, solved, conflicts, corridor, delay>>
          /\ Newest'.airspace = AirspaceReport
      BY <2>2, Publishes DEF Newest
    <3>2. Newest'.airspace.residual = Cardinality(Residual)
      BY <3>1 DEF AirspaceReport
    <3> QED BY <3>1, <3>2, ResidualKept DEF Reported
  <2>3. CASE UNCHANGED vars
    <3>1. Newest' = Newest /\ stage' = stage
      BY <2>3 DEF vars, Newest
    <3> QED BY <2>3, <3>1, ResidualKept DEF Reported, vars
  <2>4. CASE stage' # "published"
    BY <2>4 DEF Reported
  <2> QED BY SMTT(60), <2>1, <2>2, <2>3, <2>4
<1> QED BY <1>1, <1>2, CoreHolds, PTL DEF Spec

\* A pair that only the times published put too close: a hold has.
LEMMA HoldsBringAbout ==
    ASSUME Core, PairsFound, Placed, stage = "published", NEW pair \in StillClose \ conflicts
    PROVE  \E t, u \in pair : \E v \in Flights(solved) \ pair :
              /\ solved[t].finish + Buffer <= Entry(solved, u) /\ delay[t] > delay[u]
              /\ EnterBefore(v, t) /\ {t, v} \in conflicts /\ corridor[v] = corridor[t]
<1>1. /\ pair \in SUBSET Flights(solved) /\ Cardinality(pair) = 2
      /\ \A t, u \in pair : t # u => Conflict(plan, t, u)
      /\ pair \in kSubset(2, Flights(solved))
  BY DEF StillClose, kSubset
<1>2. PICK t0, u0 \in pair : t0 # u0 /\ ~Conflict(solved, t0, u0)
  <2>1. pair \notin Found
    BY DEF PairsFound
  <2> QED BY <1>1, <2>1 DEF Found
<1>3. pair = {t0, u0}
  <2>1. IsFiniteSet(pair)
    <3>1. Flights(solved) \in SUBSET DOMAIN solved /\ IsFiniteSet(DOMAIN solved)
      BY FiniteTasks DEF Core, World, Flights
    <3> QED BY <1>1, <3>1, FS_Subset
  <2>2. PICK x, y : x # y /\ pair = {x, y}
    BY <1>1, <2>1, PairOf
  <2> QED BY <1>2, <2>2
<1>4. /\ t0 \in Flights(solved) /\ u0 \in Flights(solved) /\ Buffer \in Nat
      /\ Conflict(plan, t0, u0) /\ Close(plan, t0, u0)
  BY <1>1, <1>2, BoundsAssumption DEF Conflict
<1>5. \A t \in {t0, u0} :
         /\ t \in DOMAIN delay /\ delay[t] \in Nat /\ Entry(solved, t) \in Int /\ solved[t].finish \in Nat
         /\ plan[t].asset = solved[t].asset
         /\ Entry(plan, t) = Entry(solved, t) + delay[t] /\ plan[t].finish = solved[t].finish + delay[t]
  BY <1>4, AsDispatched DEF EffExit
<1>6. Close(solved, t0, u0)
  BY <1>4, <1>5 DEF Close
<1>7. ~Overlap(Entry(solved, t0), solved[t0].finish, Entry(solved, u0), solved[u0].finish)
  BY <1>2, <1>6 DEF Conflict
<1>8. Overlap(Entry(plan, t0), plan[t0].finish, Entry(plan, u0), plan[u0].finish)
  BY <1>4 DEF Conflict
<1>9. PICK t, u \in {t0, u0} : t # u /\ solved[t].finish + Buffer <= Entry(solved, u) /\ delay[t] > delay[u]
  <2>1. \/ solved[t0].finish + Buffer <= Entry(solved, u0) /\ delay[t0] > delay[u0]
        \/ solved[u0].finish + Buffer <= Entry(solved, t0) /\ delay[u0] > delay[t0]
    BY <1>4, <1>5, <1>7, <1>8 DEF Overlap
  <2> QED BY <1>2, <2>1
<1>10. PICK v : AwaitedBy(t, v)
  <2>1. t \in DOMAIN delay /\ delay[t] > 0
    BY <1>5, <1>9
  <2> QED BY <2>1 DEF Placed
<1>11. v # t /\ EnterBefore(v, t) /\ corridor[v] = corridor[t]
  BY <1>10 DEF AwaitedBy, Neighbours
<1>12. {t, v} \in conflicts /\ v \in Flights(solved)
  <2>1. PICK other \in conflicts : t \in other /\ v \in other
    BY <1>10 DEF AwaitedBy, Neighbours
  <2>2. Paired(other)
    BY DEF PairsFound
  <2>3. other = {t, v} /\ v \in Flights(solved)
    BY <1>11, <2>1, <2>2 DEF Paired
  <2> QED BY <2>1, <2>3
<1>13. v \notin pair
  <2>1. v # u
    BY <1>3, <1>9, <1>12
  <2> QED BY <1>3, <1>9, <1>11, <2>1
<1> QED BY <1>3, <1>9, <1>11, <1>12, <1>13

LEMMA ExactWhenReported ==
    ASSUME Core, PairsFound, Placed, Reported
    PROVE  ResidualExact
<1> SUFFICES ASSUME stage = "published"
             PROVE  Residual = StillClose \cap conflicts
  BY HoldsBringAbout DEF ResidualExact, Reported
<1>1. ASSUME NEW pair \in conflicts
      PROVE  /\ pair \in kSubset(2, Flights(solved))
             /\ \A t, u \in pair : t # u => (Conflict(plan, t, u) <=> ~Separated(t, u))
  <2>1. pair \in kSubset(2, Flights(solved))
    BY DEF PairsFound, Found
  <2>2. ASSUME NEW t \in pair, NEW u \in pair, t # u PROVE Conflict(plan, t, u) <=> ~Separated(t, u)
    BY <2>2, SameVerdict DEF PairsFound, Paired
  <2> QED BY <2>1, <2>2
<1> QED BY <1>1 DEF Residual, StillClose

\* What is on time stays on time, and what is frozen stays where it was.
LEMMA HoldsCostNothing ==
    ASSUME Core, stage = "published"
    PROVE  /\ OnTime(solved) \in SUBSET OnTime(plan)
           /\ \A t \in DOMAIN plan : plan[t].frozen => plan[t] = solved[t] /\ (t \in DOMAIN delay => delay[t] = 0)
<1>1. World /\ Held /\ plan = Retimed(solved, delay) /\ DOMAIN plan = DOMAIN solved
  BY RetimedOk DEF Core, Held
<1>2. ASSUME NEW t \in DOMAIN solved
      PROVE  /\ solved[t].finish \in Nat /\ Task(t).deadline \in Int
             /\ t \in DOMAIN delay => delay[t] \in Nat /\ delay[t] <= Slack(solved, t)
             /\ plan[t].frozen = solved[t].frozen
             /\ plan[t].finish = solved[t].finish + (IF t \in DOMAIN delay /\ ~solved[t].frozen THEN delay[t] ELSE 0)
  <2>1. solved[t] \in FlightType /\ t \in DOMAIN menu.tasks
    BY <1>1 DEF World, PlanOk, FlightOk
  <2>2. Task(t).deadline \in Int
    BY <1>1, <2>1, TaskFacts DEF World
  <2> QED BY <1>1, <2>1, <2>2, RetimedOk DEF Held, FlightType
<1>3. ASSUME NEW t \in OnTime(solved) PROVE t \in OnTime(plan)
  <2>1. t \in DOMAIN solved /\ t \in known /\ Task(t).deadline # Forever /\ solved[t].finish <= Task(t).deadline
    BY DEF OnTime
  <2>2. plan[t].finish <= Task(t).deadline
    <3>1. CASE t \in DOMAIN delay /\ ~solved[t].frozen
      <4> DEFINE room == Task(t).deadline - solved[t].finish
      <4>1. Slack(solved, t) = Max({0, room})
        BY <3>1 DEF Slack
      <4>2. room \in Int /\ 0 <= room
        <5>1. solved[t].finish \in Int /\ Task(t).deadline \in Int
          BY <1>2, <2>1
        <5> QED BY <2>1, <5>1
      <4> HIDE DEF room
      <4>3. Slack(solved, t) = room
        BY <4>1, <4>2, OfTwo
      <4> QED BY <1>2, <2>1, <3>1, <4>3 DEF room
    <3>2. CASE ~(t \in DOMAIN delay /\ ~solved[t].frozen)
      BY <1>2, <2>1, <3>2
    <3> QED BY <3>1, <3>2
  <2> QED BY <1>1, <2>1, <2>2 DEF OnTime
<1>4. ASSUME NEW t \in DOMAIN plan, plan[t].frozen PROVE plan[t] = solved[t] /\ (t \in DOMAIN delay => delay[t] = 0)
  <2>1. t \in DOMAIN solved /\ solved[t].frozen
    BY <1>1, <1>2, <1>4
  <2>2. plan[t] = solved[t]
    BY <1>1, <2>1 DEF Retimed
  <2>3. Slack(solved, t) = 0
    BY <2>1 DEF Slack
  <2> QED BY <1>2, <2>1, <2>2, <2>3
<1> QED BY <1>3, <1>4

\* Two flights of a residual conflict: the one that enters later has no slack
\* left.
LEMMA NoSlackLeft ==
    ASSUME Core, Placed, stage = "published", NEW t \in Flights(solved), NEW u \in Flights(solved), EnterBefore(u, t),
           {t, u} \in conflicts, corridor[t] = corridor[u], ~Separated(t, u)
    PROVE  delay[t] = Slack(solved, t)
<1>1. /\ t \in DOMAIN delay /\ u \in DOMAIN delay /\ delay[t] \in Nat /\ delay[u] \in Nat
      /\ Entry(solved, t) \in Int /\ solved[u].finish \in Nat /\ Buffer \in Nat
  BY AsDispatched, BoundsAssumption
<1>2. ~ClearOf(t, u)
  BY <1>1 DEF ClearOf, Separated, Overlap, EffExit
<1> QED BY <1>1, <1>2 DEF Placed

LEMMA AffordableWhenPlaced ==
    ASSUME Core, PairsFound, Placed
    PROVE  HoldsAreAffordable
<1> SUFFICES ASSUME stage = "published", NEW pair \in Residual
             PROVE  \E t, u \in pair : EnterBefore(u, t) /\ delay[t] = Slack(solved, t)
  BY HoldsCostNothing DEF HoldsAreAffordable
<1>1. /\ pair \in conflicts /\ SameCorridor(pair) /\ \A t, u \in pair : t # u => ~Separated(t, u)
      /\ pair \in SUBSET Flights(solved)
  BY DEF Residual, PairsFound, Paired
<1>2. PICK t, u : t # u /\ pair = {t, u}
  BY <1>1 DEF PairsFound, Paired
<1>3. /\ t \in Flights(solved) /\ u \in Flights(solved) /\ corridor[t] = corridor[u]
      /\ {t, u} \in conflicts /\ {u, t} \in conflicts /\ ~Separated(t, u) /\ ~Separated(u, t)
  <2>1. {u, t} = {t, u}
    OBVIOUS
  <2> QED BY <1>1, <1>2, <2>1 DEF SameCorridor
<1>4. EnterBefore(t, u) \/ EnterBefore(u, t)
  BY <1>2, <1>3, EntryOrder DEF Core
<1>5. CASE EnterBefore(u, t)
  <2>1. delay[t] = Slack(solved, t)
    BY <1>3, <1>5, NoSlackLeft
  <2> QED BY <1>2, <1>5, <2>1
<1>6. CASE EnterBefore(t, u)
  <2>1. delay[u] = Slack(solved, u)
    BY <1>3, <1>6, NoSlackLeft
  <2> QED BY <1>2, <1>6, <2>1
<1> QED BY <1>4, <1>5, <1>6

(* Whatever tasks, fleet and events: of the conflicts found before the     *)
(* holds the report counts exactly those that are conflicts in one         *)
(* corridor at the times published; any other pair too close in one        *)
(* corridor was parted as solved, and one of the two was held longer than  *)
(* the other for a third flight; no hold makes a delivery late or moves a  *)
(* frozen flight; and the later flight of a residual conflict was held for *)
(* all its slack.  (deconflict_airspace, apply_airspace_holds)             *)
THEOREM HoldsAreSound == Spec => []HoldsSound
<1>1. Core /\ (PairsFound /\ Placed) /\ Reported => HoldsSound
  BY ExactWhenReported, AffordableWhenPlaced DEF HoldsSound
<1> QED BY <1>1, CoreHolds, SeparationHolds, ReportedHolds, PTL
-----------------------------------------------------------------------------
(* Recharge sessions *)

\* The recursion by which the library sums f over the subsets of S.
Pick(s) == CHOOSE x \in s : TRUE

Sums(h, f, S) ==
    h = [s \in SUBSET S |-> IF s = {} THEN 0 ELSE f[Pick(s)] + h[s \ {Pick(s)}]]

LEMMA PickIn == \A s : s # {} => Pick(s) \in s
BY DEF Pick

LEMMA SumsExist ==
    ASSUME NEW S, IsFiniteSet(S), NEW f
    PROVE  \E h : Sums(h, f, S)
<1> DEFINE Step(h, s) == IF s = {} THEN 0 ELSE f[Pick(s)] + h[s \ {Pick(s)}]
           Upto(n) == {s \in SUBSET S : Cardinality(s) <= n}
           Done(n) == \E h : \A s \in Upto(n) : h[s] = Step(h, s)
           Missing == {n \in Nat : ~Done(n)}
<1>1. \A s \in SUBSET S : IsFiniteSet(s) /\ Cardinality(s) \in Nat /\ (Cardinality(s) = 0 <=> s = {})
  BY FS_Subset, FS_CardinalityType, FS_EmptySet
<1>2. Done(0)
  <2>1. \A s \in Upto(0) : s = {} /\ [r \in SUBSET S |-> 0][s] = 0
    BY <1>1
  <2> QED BY <2>1
<1>3. ASSUME NEW n \in Nat, Done(n) PROVE Done(n + 1)
  <2>1. PICK h : \A s \in Upto(n) : h[s] = Step(h, s)
    BY <1>3
  <2> DEFINE g == [s \in SUBSET S |-> Step(h, s)]
  <2>2. ASSUME NEW s \in Upto(n + 1) PROVE g[s] = Step(g, s)
    <3>1. CASE s = {}
      BY <3>1
    <3>2. CASE s # {}
      <4> DEFINE y == Pick(s)
                 r == s \ {y}
      <4>1. y \in s /\ Cardinality(r) = Cardinality(s) - 1 /\ r \in SUBSET S
        BY <1>1, <3>2, PickIn, FS_RemoveElement
      <4>2. r \in Upto(n)
        BY <1>1, <4>1
      <4>3. g[r] = h[r]
        BY <2>1, <4>2
      <4>4. s \in SUBSET S
        OBVIOUS
      <4>5. g[s] = f[y] + h[r] /\ Step(g, s) = f[y] + g[r]
        BY <3>2, <4>4
      <4> QED BY <4>3, <4>5
    <3> QED BY <3>1, <3>2
  <2> HIDE DEF g
  <2> QED BY <2>2
<1>4. Missing = {}
  <2> HIDE DEF Done
  <2> SUFFICES ASSUME Missing # {} PROVE FALSE
    OBVIOUS
  <2>1. PICK n \in Missing : \A m \in Missing : n <= m
    <3>1. Missing \in SUBSET Nat
      OBVIOUS
    <3> HIDE DEF Missing
    <3> QED BY <3>1, LeastNumber
  <2>2. n \in Nat /\ ~Done(n) /\ n # 0
    BY <1>2
  <2>3. n - 1 \in Nat /\ (n - 1) + 1 = n
    BY <2>2
  <2>4. Done(n - 1)
    <3>1. n - 1 \notin Missing
      <4>1. ~(n <= n - 1)
        BY <2>2
      <4> QED BY <2>1, <4>1, Zenon
    <3> QED BY <2>3, <3>1
  <2> QED BY <1>3, <2>2, <2>3, <2>4
<1>5. Done(Cardinality(S))
  <2>1. Cardinality(S) \in Nat
    BY <1>1
  <2> HIDE DEF Done
  <2> QED BY <1>4, <2>1
<1>6. PICK h : \A s \in Upto(Cardinality(S)) : h[s] = Step(h, s)
  BY <1>5
<1>7. \A s \in SUBSET S : s \in Upto(Cardinality(S)) /\ (s # {} => s \ {Pick(s)} \in SUBSET S)
  BY FS_Subset
<1> DEFINE g == [s \in SUBSET S |-> h[s]]
<1>8. \A s \in SUBSET S : g[s] = Step(g, s)
  BY <1>6, <1>7
<1>9. g = [s \in SUBSET S |-> Step(g, s)]
  <2>1. g = [s \in SUBSET S |-> g[s]]
    OBVIOUS
  <2> HIDE DEF g
  <2> QED BY <1>8, <2>1
<1> QED BY <1>9, Zenon DEF Sums

LEMMA SumsValue ==
    ASSUME NEW h, NEW f, NEW S, Sums(h, f, S)
    PROVE  /\ h[{}] = 0
           /\ \A s \in SUBSET S : s # {} => h[s] = f[Pick(s)] + h[s \ {Pick(s)}]
BY DEF Sums

\* The flying time of an asset.
LEMMA FoldNat ==
    ASSUME NEW f, IsFiniteSet(DOMAIN f), \A x \in DOMAIN f : f[x] \in Nat
    PROVE  FoldFunction(+, 0, f) \in Nat
<1> DEFINE S == DOMAIN f
           h == CHOOSE k : Sums(k, f, S)
<1>1. Sums(h, f, S)
  BY SumsExist
<1>2. FoldFunction(+, 0, f) = h[S]
  BY Zenon DEF FoldFunction, FoldFunctionOnSet, MapThenFoldSet, Sums, Pick
<1> DEFINE Bad == {s \in SUBSET S : h[s] \notin Nat}
<1> HIDE DEF h
<1>3. Bad = {}
  <2> SUFFICES ASSUME Bad # {} PROVE FALSE
    OBVIOUS
  <2>1. Bad \in SUBSET SUBSET S
    OBVIOUS
  <2>2. PICK s \in Bad : \A x \in s : s \ {x} \notin Bad
    <3> HIDE DEF Bad
    <3> QED BY <2>1, SmallestSubset
  <2>3. s \in SUBSET S /\ h[s] \notin Nat
    OBVIOUS
  <2>4. s # {} /\ h[s] = f[Pick(s)] + h[s \ {Pick(s)}]
    <3>1. h[{}] = 0 /\ \A q \in SUBSET S : q # {} => h[q] = f[Pick(q)] + h[q \ {Pick(q)}]
      BY <1>1, SumsValue
    <3>2. CASE s = {}
      <4>1. h[s] = 0
        BY <3>1, <3>2
      <4> QED BY <2>3, <4>1
    <3> HIDE DEF S
    <3> QED BY <2>3, <3>1, <3>2
  <2>5. Pick(s) \in s /\ s \ {Pick(s)} \in SUBSET S
    BY <2>3, <2>4, PickIn
  <2>6. h[s \ {Pick(s)}] \in Nat
    BY <2>2, <2>5
  <2>7. f[Pick(s)] \in Nat
    BY <2>3, <2>5
  <2> QED BY <2>3, <2>4, <2>6, <2>7
<1> QED BY <1>2, <1>3

\* A finite set stays finite under a function.
LEMMA ImageFinite ==
    ASSUME NEW S, IsFiniteSet(S), NEW f, NEW T, T = {f[x] : x \in S}
    PROVE  IsFiniteSet(T)
<1> DEFINE g == [x \in S |-> f[x]]
<1>1. g \in [S -> T] /\ \A y \in T : \E x \in S : g[x] = y
  OBVIOUS
<1>2. g \in Surjection(S, T)
  BY <1>1 DEF Surjection
<1> QED BY <1>2, FS_Surjection

\* The greatest of a number and of finitely many more.
TopOf(top, base, S, f) ==
    top \in Int /\ top >= base /\ (\A x \in S : top >= f[x]) /\ (top = base \/ \E x \in S : top = f[x])
LEMMA MaxOver ==
    ASSUME NEW S, IsFiniteSet(S), NEW f, \A x \in S : f[x] \in Int, NEW T, T = {f[x] : x \in S}, NEW base \in Int
    PROVE  TopOf(Max({base} \cup T), base, S, f)
<1> DEFINE all == {base} \cup T
<1>1. IsFiniteSet(T) /\ IsFiniteSet({base})
  BY ImageFinite, FS_Singleton
<1>2. IsFiniteSet(all) /\ all \in SUBSET Int /\ all # {}
  BY <1>1, FS_Union
<1>3. Max(all) \in all /\ Max(all) \in Int /\ \A y \in all : Max(all) >= y
  <2> HIDE DEF all
  <2> QED BY <1>2, MaxIs
<1> QED BY <1>3 DEF TopOf

\* What an asset needs at its hub.
LEMMA DemandFacts ==
    ASSUME Core, NEW a \in Demanding
    PROVE  /\ a \in DOMAIN Assets /\ a \in Nat /\ Assets[a].hub \in DOMAIN Hubs
           /\ Arrival(a) \in Nat /\ \A t \in Bookings(a) : plan[t].finish <= Arrival(a)
           /\ ChargeTime(a) \in Nat
<1>1. /\ a \in Used /\ a \in fleet /\ Assets[a].hub \in DOMAIN Hubs /\ Assets[a].rate > 0
      /\ World /\ PlanOk(menu, plan) /\ IsFiniteSet(DOMAIN plan)
  BY FiniteTasks DEF Demanding, Core
<1>2. a \in DOMAIN Assets /\ a \in Nat /\ Assets[a].rate \in Int /\ Assets[a].capacity \in Int
  BY <1>1, AssetsAssumption DEF World
<1>3. \A t \in DOMAIN plan : plan[t].finish \in Nat /\ plan[t].start \in Nat /\ plan[t].start <= plan[t].finish
  BY <1>1 DEF PlanOk, FlightOk, FlightType
<1>4. Bookings(a) \in SUBSET DOMAIN plan /\ IsFiniteSet(Bookings(a)) /\ Bookings(a) # {}
  <2>1. Bookings(a) \in SUBSET DOMAIN plan
    BY DEF Bookings
  <2>2. \E t \in DOMAIN plan : plan[t].asset = a
    BY <1>1 DEF Used, Range
  <2> QED BY <1>1, <2>1, <2>2, FS_Subset DEF Bookings
<1>5. Arrival(a) \in Nat /\ \A t \in Bookings(a) : plan[t].finish <= Arrival(a)
  <2> DEFINE ends == {plan[t].finish : t \in Bookings(a)}
             f == [t \in Bookings(a) |-> plan[t].finish]
  <2>1. ends = {f[t] : t \in Bookings(a)}
    OBVIOUS
  <2>2. IsFiniteSet(ends)
    <3> HIDE DEF ends, f
    <3> QED BY <1>4, <2>1, ImageFinite
  <2>3. ends \in SUBSET Nat /\ ends # {} /\ ends \in SUBSET Int
    BY <1>3, <1>4
  <2>4. Max(ends) \in ends /\ \A y \in ends : Max(ends) >= y
    <3> HIDE DEF ends
    <3> QED BY <2>2, <2>3, MaxIs
  <2>5. Arrival(a) = Max(ends)
    BY DEF Arrival
  <2>6. \A t \in Bookings(a) : plan[t].finish \in ends /\ plan[t].finish \in Nat
    BY <1>3, <1>4
  <2> HIDE DEF ends
  <2> QED BY <2>3, <2>4, <2>5, <2>6
<1>6. BusyTime(a) \in Nat
  <2> DEFINE f == [t \in Bookings(a) |-> plan[t].finish - plan[t].start]
  <2>1. DOMAIN f = Bookings(a) /\ \A t \in DOMAIN f : f[t] \in Nat
    BY <1>3, <1>4
  <2>2. BusyTime(a) = FoldFunction(+, 0, f)
    BY DEF BusyTime
  <2> HIDE DEF f
  <2> QED BY <1>4, <2>1, <2>2, FoldNat
<1>7. Energy(a) \in Nat
  <2> DEFINE spent == Assets[a].rate * BusyTime(a)
             capacity == Assets[a].capacity
  <2>1. spent \in Nat /\ capacity \in Int
    <3>1. \A r, n \in Nat : r * n \in Nat
      OBVIOUS
    <3>2. Assets[a].rate \in Nat
      BY <1>1, <1>2
    <3> QED BY <1>2, <1>6, <3>1, <3>2
  <2>2. Energy(a) = IF capacity > 0 THEN Min({spent, capacity}) ELSE spent
    BY DEF Energy
  <2> HIDE DEF spent, capacity
  <2>3. spent \in Int /\ (spent <= capacity \/ capacity <= spent)
    BY <2>1
  <2>4. Min({spent, capacity}) = spent \/ Min({spent, capacity}) = capacity
    BY <2>1, <2>3, OfTwo
  <2> QED BY <2>1, <2>2, <2>4
<1>8. ChargeTime(a) \in Nat
  <2> DEFINE slots == Slots(Assets[a].hub)
             power == Power(Assets[a].hub)
  <2>1. slots \in Nat /\ power \in Nat \ {0}
    BY <1>1, HubsAssumption DEF Slots, Power
  <2>2. ChargeTime(a) = (Energy(a) * slots) \div power
    BY DEF ChargeTime
  <2> HIDE DEF slots, power
  <2>3. Energy(a) * slots \in Nat
    <3>1. \A r, n \in Nat : r * n \in Nat
      OBVIOUS
    <3> QED BY <1>7, <2>1, <3>1
  <2>4. \A r \in Nat, n \in Nat \ {0} : r \div n \in Nat
    OBVIOUS
  <2> QED BY <2>1, <2>2, <2>3, <2>4
<1> QED BY <1>1, <1>2, <1>5, <1>8

\* A session, and the bays of a hub.
Bays(h) == 0 .. Slots(h) - 1
SessionOk(s) ==
    /\ s.asset \in Demanding /\ s.hub = Assets[s.asset].hub /\ s.hub \in DOMAIN Hubs /\ s.bay \in Bays(s.hub)
    /\ s.arrival = Arrival(s.asset) /\ s.arrival \in Nat /\ s.start \in Nat /\ s.end \in Nat
    /\ s.arrival <= s.start /\ s.start <= s.end
SessionsOk == IsSeq(sessions) /\ \A k \in DOMAIN sessions : SessionOk(sessions[k])

LEMMA FreeFacts ==
    ASSUME SessionsOk, NEW h, NEW b
    PROVE  /\ FreeAt(h, b) \in Nat
           /\ \A k \in Scheduled(h) : sessions[k].bay = b => sessions[k].end <= FreeAt(h, b)
           /\ FreeAt(h, b) = 0 \/ \E k \in Scheduled(h) : sessions[k].bay = b /\ sessions[k].end = FreeAt(h, b)
<1> DEFINE S == {j \in Scheduled(h) : sessions[j].bay = b}
           f == [k \in S |-> sessions[k].end]
           T == {sessions[k].end : k \in S}
<1>1. T = {f[k] : k \in S} /\ FreeAt(h, b) = Max({0} \cup T)
  BY DEF FreeAt
<1>2. IsFiniteSet(S)
  <2>1. DOMAIN sessions = 1 .. Len(sessions) /\ Len(sessions) \in Nat
    BY Appended DEF SessionsOk
  <2>2. IsFiniteSet(DOMAIN sessions)
    BY <2>1, FS_Interval
  <2>3. S \in SUBSET DOMAIN sessions
    BY DEF Scheduled
  <2> QED BY <2>2, <2>3, FS_Subset
<1>3. \A k \in S : f[k] \in Nat /\ f[k] = sessions[k].end
  BY DEF Scheduled, SessionsOk, SessionOk
<1> DEFINE top == Max({0} \cup T)
<1>4. TopOf(top, 0, S, f)
  <2>1. (\A k \in S : f[k] \in Int) /\ 0 \in Int
    BY <1>3
  <2> HIDE DEF S, f, T
  <2> QED BY <1>1, <1>2, <2>1, MaxOver
<1>5. FreeAt(h, b) = top
  BY <1>1
<1> HIDE DEF f, T, top
<1>6. \A k \in S : sessions[k].end <= top
  BY <1>3, <1>4 DEF TopOf
<1>7. top = 0 \/ \E k \in S : sessions[k].end = top
  BY <1>3, <1>4 DEF TopOf
<1>8. top \in Nat
  BY <1>4 DEF TopOf
<1> QED BY <1>5, <1>6, <1>7, <1>8

LEMMA BayFacts ==
    ASSUME SessionsOk, NEW h \in DOMAIN Hubs
    PROVE  Bay(h) \in Bays(h) /\ \A b \in Bays(h) : FreeAt(h, Bay(h)) <= FreeAt(h, b)
<1> DEFINE bays == Bays(h)
           T == {FreeAt(h, b) : b \in bays}
           f == [b \in bays |-> FreeAt(h, b)]
           first == Min(T)
           R == {b \in bays : FreeAt(h, b) = first}
<1>1. Slots(h) \in Nat \ {0}
  BY HubsAssumption DEF Slots
<1>2. IsFiniteSet(bays) /\ bays # {} /\ bays \in SUBSET Int
  <2> DEFINE last == Slots(h) - 1
  <2>1. last \in Nat /\ bays = 0 .. last
    BY <1>1 DEF Bays
  <2> HIDE DEF last, bays
  <2>2. IsFiniteSet(0 .. last) /\ 0 \in 0 .. last /\ 0 .. last \in SUBSET Int
    BY <2>1, FS_Interval
  <2> QED BY <2>1, <2>2
<1>3. \A b \in bays : FreeAt(h, b) \in Nat
  BY FreeFacts
<1>4. T = {f[b] : b \in bays} /\ T \in SUBSET Int /\ T # {}
  BY <1>2, <1>3
<1>5. Bay(h) = Min(R)
  BY DEF Bay, Bays
<1> HIDE DEF bays
<1>6. IsFiniteSet(T)
  <2> HIDE DEF T, f
  <2> QED BY <1>2, <1>4, ImageFinite
<1>7. first \in T /\ \A y \in T : first <= y
  <2> HIDE DEF T
  <2> QED BY <1>4, <1>6, MinIs
<1>8. R # {} /\ IsFiniteSet(R) /\ R \in SUBSET Int /\ R \in SUBSET bays
  <2>1. R \in SUBSET bays
    OBVIOUS
  <2>2. R # {}
    BY <1>7
  <2> HIDE DEF R
  <2> QED BY <1>2, <2>1, <2>2, FS_Subset
<1>9. Min(R) \in R
  <2> HIDE DEF R
  <2> QED BY <1>8, MinIs
<1> HIDE DEF first
<1>10. Bay(h) \in bays /\ FreeAt(h, Bay(h)) = first
  BY <1>5, <1>9
<1> QED BY <1>7, <1>10 DEF bays

\* The order of the queue of a hub.
TakenBy(q, h, i) == {j \in DOMAIN q : q[j].hub = h /\ q[j].start <= i /\ i < q[j].end}
InTurn(q) ==
    \A j, k \in DOMAIN q : j < k =>
        /\ q[j].arrival <= q[k].arrival
        /\ q[j].hub = q[k].hub =>
            q[j].start <= q[k].start /\ (q[j].bay = q[k].bay => q[j].end <= q[k].start)
\* What waited started when no bay was free before.
Behind(q) ==
    \A k \in DOMAIN q : q[k].start = q[k].arrival \/ \A b \in Bays(q[k].hub) :
        \E j \in DOMAIN q : q[j].hub = q[k].hub /\ q[j].bay = b /\ q[k].start <= q[j].end
AllTaken(q) ==
    \A k \in DOMAIN q : \A i \in q[k].arrival .. q[k].start - 1 :
        Cardinality(TakenBy(q, q[k].hub, i)) = Slots(q[k].hub)
Waiting(q) == Demanding \ {q[k].asset : k \in DOMAIN q}
\* Who still waits arrives later.
Later(q) == \A k \in DOMAIN q : \A b \in Waiting(q) : q[k].arrival <= Arrival(b)

\* Every bay is taken at an instant before all of them are free again.
LEMMA BaysTaken ==
    ASSUME SessionsOk, InTurn(sessions), AllTaken(sessions), NEW h \in DOMAIN Hubs, NEW i \in Nat,
           \A b \in Bays(h) : i < FreeAt(h, b), \A k \in Scheduled(h) : sessions[k].arrival <= i
    PROVE  Cardinality(TakenBy(sessions, h, i)) = Slots(h)
<1> DEFINE S == TakenBy(sessions, h, i)
           f == [k \in S |-> sessions[k].bay]
<1>1. \A k \in Scheduled(h) : k \in DOMAIN sessions /\ sessions[k].hub = h /\ SessionOk(sessions[k])
  BY DEF Scheduled, SessionsOk
<1>2. CASE \E k \in Scheduled(h) : sessions[k].start > i
  <2>1. PICK k \in Scheduled(h) : sessions[k].start > i
    BY <1>2
  <2>2. i \in sessions[k].arrival .. sessions[k].start - 1
    BY <1>1, <2>1 DEF SessionOk
  <2> QED BY <1>1, <2>2 DEF AllTaken
<1>3. CASE \A k \in Scheduled(h) : ~(sessions[k].start > i)
  <2>1. \A k \in S : k \in Scheduled(h) /\ i < sessions[k].end
    BY DEF TakenBy, Scheduled
  <2>2. f \in [S -> Bays(h)]
    BY <1>1, <2>1 DEF SessionOk
  <2>3. ASSUME NEW j \in S, NEW k \in S, f[j] = f[k], j < k PROVE FALSE
    <3>1. sessions[j].end <= sessions[k].start
      BY <1>1, <2>1, <2>3 DEF InTurn
    <3>2. ~(sessions[k].start > i) /\ i < sessions[j].end
      BY <1>3, <2>1
    <3>3. sessions[j].end \in Nat /\ sessions[k].start \in Nat
      BY <1>1, <2>1 DEF SessionOk
    <3> QED BY <3>1, <3>2, <3>3
  <2>4. \A j, k \in S : f[j] = f[k] => j = k
    <3>1. \A k \in S : k \in Nat
      BY <1>1, <2>1, Appended DEF SessionsOk
    <3> HIDE DEF f
    <3>2. \A j, k \in S : f[j] = f[k] => ~(j < k) /\ ~(k < j)
      BY <2>3
    <3> QED BY <3>1, <3>2
  <2>5. ASSUME NEW b \in Bays(h) PROVE \E k \in S : f[k] = b
    <3>1. FreeAt(h, b) \in Nat /\ FreeAt(h, b) # 0
      BY FreeFacts
    <3>2. PICK k \in Scheduled(h) : sessions[k].bay = b /\ sessions[k].end = FreeAt(h, b)
      BY <3>1, FreeFacts
    <3>3. k \in S
      BY <1>1, <1>3, <3>2 DEF TakenBy, SessionOk
    <3> QED BY <3>2, <3>3
  <2>6. IsFiniteSet(Bays(h)) /\ Cardinality(Bays(h)) = Slots(h)
    <3>1. Slots(h) \in Nat \ {0}
      BY HubsAssumption DEF Slots
    <3> DEFINE last == Slots(h) - 1
    <3>2. last \in Int /\ ~(0 > last) /\ last - 0 + 1 = Slots(h) /\ Bays(h) = 0 .. last
      BY <3>1 DEF Bays
    <3> HIDE DEF last
    <3>3. IsFiniteSet(0 .. last) /\ Cardinality(0 .. last) = IF 0 > last THEN 0 ELSE last - 0 + 1
      BY <3>2, FS_Interval
    <3> QED BY <3>2, <3>3
  <2> HIDE DEF S, f
  <2>7. f \in Injection(S, Bays(h))
    BY <2>2, <2>4 DEF Injection, IsInjective
  <2>8. f \in Surjection(S, Bays(h))
    BY <2>2, <2>5 DEF Surjection
  <2>9. Cardinality(S) = Cardinality(Bays(h))
    BY <2>6, <2>7, <2>8, FS_Injection
  <2> QED BY <2>6, <2>9 DEF S
<1> QED BY <1>2, <1>3

\* The session that is scheduled next: of who arrived first, at the earliest
\* free bay.
LEMMA NextWaits ==
    ASSUME Core, NEW q, Waiting(q) # {}
    PROVE  LET a == CHOOSE x \in Waiting(q) : \A b \in Waiting(q) :
                        Arrival(x) < Arrival(b) \/ (Arrival(x) = Arrival(b) /\ x <= b)
           IN  a \in Waiting(q) /\ \A b \in Waiting(q) : Arrival(a) <= Arrival(b)
<1> DEFINE W == Waiting(q)
           R == {p \in W \X W : Arrival(p[1]) < Arrival(p[2]) \/ (Arrival(p[1]) = Arrival(p[2]) /\ p[1] <= p[2])}
<1>1. \A x \in W : x \in Nat /\ Arrival(x) \in Nat /\ x \in DOMAIN Assets
  BY DemandFacts DEF Waiting
<1>2. IsFiniteSet(W)
  <2>1. W \in SUBSET DOMAIN Assets
    BY <1>1
  <2> HIDE DEF W
  <2> QED BY <2>1, AssetsAssumption, FS_Subset
<1> HIDE DEF W
<1>3. \A x, y \in W : <<x, y>> \in R <=> Arrival(x) < Arrival(y) \/ (Arrival(x) = Arrival(y) /\ x <= y)
  OBVIOUS
<1>4. /\ \A x, y \in W : x = y \/ <<x, y>> \in R \/ <<y, x>> \in R
      /\ \A x, y, z \in W : <<x, y>> \in R /\ <<y, z>> \in R => <<x, z>> \in R
  <2> HIDE DEF R
  <2> QED BY <1>1, <1>3
<1>5. PICK x : First(R, W, x)
  <2>1. W # {}
    BY DEF W
  <2> HIDE DEF R
  <2> QED BY <1>2, <1>4, <2>1, FirstExists
<1>6. x \in W /\ \A b \in W : Arrival(x) < Arrival(b) \/ (Arrival(x) = Arrival(b) /\ x <= b)
  <2>1. x \in W /\ \A b \in W : b = x \/ <<x, b>> \in R
    BY <1>5 DEF First
  <2> HIDE DEF R
  <2>2. ASSUME NEW b \in W
        PROVE  Arrival(x) < Arrival(b) \/ (Arrival(x) = Arrival(b) /\ x <= b)
    <3>1. CASE b = x
      BY <1>1, <2>1, <3>1
    <3>2. CASE b # x
      BY <1>3, <2>1, <3>2
    <3> QED BY <3>1, <3>2
  <2> QED BY <2>1, <2>2
<1> DEFINE a == CHOOSE y \in W : \A b \in W : Arrival(y) < Arrival(b) \/ (Arrival(y) = Arrival(b) /\ y <= b)
<1>7. a \in W /\ \A b \in W : Arrival(a) < Arrival(b) \/ (Arrival(a) = Arrival(b) /\ a <= b)
  BY <1>6, Zenon
<1>8. a \in W /\ \A b \in W : Arrival(a) <= Arrival(b)
  <2> HIDE DEF a
  <2> QED BY <1>1, <1>7
<1> QED BY <1>8 DEF W

\* What the next session adds to the queue.
Next1(s) ==
    /\ SessionOk(s) /\ s.asset \in Waiting(sessions) /\ s.bay = Bay(s.hub)
    /\ \A b \in Waiting(sessions) : s.arrival <= Arrival(b)
    /\ s.start >= FreeAt(s.hub, s.bay) /\ (s.start = s.arrival \/ s.start = FreeAt(s.hub, s.bay))
LEMMA Charges ==
    ASSUME Core, SessionsOk, ChargeNext
    PROVE  /\ stage = "charge"
           /\ UNCHANGED <<menu, stage, known, fleet, solved, plan, delay, conflicts, corridor, revisions>>
           /\ \E s : Next1(s) /\ sessions' = Append(sessions, s)
<1> DEFINE W == Waiting(sessions)
           a == CHOOSE x \in W : \A b \in W : Arrival(x) < Arrival(b) \/ (Arrival(x) = Arrival(b) /\ x <= b)
           h == Assets[a].hub
           begin == Max({Arrival(a), FreeAt(h, Bay(h))})
           s == [asset |-> a, hub |-> h, bay |-> Bay(h), energy |-> Energy(a), arrival |-> Arrival(a),
                 start |-> begin, end |-> begin + ChargeTime(a)]
<1>1. /\ stage = "charge" /\ UNCHANGED <<menu, stage, known, fleet, solved, plan, delay, conflicts, corridor, revisions>>
      /\ W # {} /\ sessions' = Append(sessions, s)
  BY DEF ChargeNext, Waiting
<1>2. a \in W /\ \A b \in W : Arrival(a) <= Arrival(b)
  <2> HIDE DEF a
  <2> QED BY <1>1, NextWaits DEF a
<1> HIDE DEF a
<1>3. /\ a \in Demanding /\ h \in DOMAIN Hubs /\ Arrival(a) \in Nat /\ ChargeTime(a) \in Nat
  BY <1>2, DemandFacts DEF Waiting
<1>4. Bay(h) \in Bays(h) /\ FreeAt(h, Bay(h)) \in Nat
  BY <1>3, BayFacts, FreeFacts
<1> DEFINE arrives == Arrival(a)
           free == FreeAt(h, Bay(h))
<1>5. begin \in Nat /\ begin >= arrives /\ begin >= free /\ (begin = arrives \/ begin = free)
  <2>1. arrives \in Int /\ free \in Int /\ begin = Max({arrives, free}) /\ (arrives <= free \/ free <= arrives)
    BY <1>3, <1>4
  <2>2. arrives \in Nat /\ free \in Nat
    BY <1>3, <1>4
  <2> HIDE DEF arrives, free, begin
  <2>3. (arrives <= free => begin = free) /\ (free <= arrives => begin = arrives)
    BY <2>1, OfTwo
  <2> QED BY <2>1, <2>2, <2>3
<1> HIDE DEF begin
<1>6. /\ s.asset = a /\ s.hub = h /\ s.bay = Bay(h) /\ s.arrival = Arrival(a) /\ s.start = begin
      /\ s.end = begin + ChargeTime(a)
  OBVIOUS
<1>7. begin + ChargeTime(a) \in Nat /\ begin <= begin + ChargeTime(a)
  BY <1>3, <1>5
<1> HIDE DEF s
<1>8. SessionOk(s)
  BY <1>3, <1>4, <1>5, <1>6, <1>7 DEF SessionOk
<1>9. Next1(s)
  BY <1>2, <1>5, <1>6, <1>8 DEF Next1
<1> QED BY <1>1, <1>9

\* A queue and the queue with one more session.
Extends(q, r, s) ==
    LET n == Len(q) + 1
    IN  /\ n \in Nat /\ DOMAIN q = 1 .. n - 1 /\ DOMAIN r = 1 .. n
        /\ \A k \in DOMAIN q : r[k] = q[k] /\ k \in DOMAIN r /\ k < n
        /\ \A k \in DOMAIN r : k \in DOMAIN q \/ k = n
        /\ n \in DOMAIN r /\ n \notin DOMAIN q /\ r[n] = s
LEMMA AppendExtends ==
    ASSUME NEW q, IsSeq(q), NEW s
    PROVE  Extends(q, Append(q, s), s) /\ IsSeq(Append(q, s))
<1> DEFINE r == Append(q, s)
<1>1. /\ IsSeq(r) /\ DOMAIN q = 1 .. Len(q) /\ Len(q) \in Nat /\ DOMAIN r = 1 .. Len(q) + 1
      /\ \A i \in DOMAIN q : r[i] = q[i]
      /\ r[Len(q) + 1] = s
  BY Appended
<1> HIDE DEF r
<1>2. Extends(q, r, s)
  BY <1>1 DEF Extends
<1> QED BY <1>1, <1>2 DEF r

LEMMA TurnExtends ==
    ASSUME SessionsOk, InTurn(sessions), Behind(sessions), Later(sessions), NEW s, Next1(s), NEW r, Extends(sessions, r, s)
    PROVE  InTurn(r) /\ Behind(r) /\ Later(r)
<1> DEFINE q == sessions
           n == Len(q) + 1
<1>1. /\ \A k \in DOMAIN q : r[k] = q[k] /\ k \in DOMAIN r /\ k < n
      /\ \A k \in DOMAIN r : k \in DOMAIN q \/ k = n
      /\ n \in DOMAIN r /\ n \notin DOMAIN q /\ r[n] = s /\ n \in Nat /\ DOMAIN r \in SUBSET Nat
  BY DEF Extends
<1>2. /\ s.asset \in Waiting(q) /\ s.arrival = Arrival(s.asset) /\ s.hub \in DOMAIN Hubs /\ s.bay = Bay(s.hub)
      /\ s.bay \in Bays(s.hub) /\ s.arrival \in Nat /\ s.start \in Nat /\ s.end \in Nat
      /\ s.arrival <= s.start /\ s.start <= s.end
      /\ \A b \in Waiting(q) : s.arrival <= Arrival(b)
      /\ s.start >= FreeAt(s.hub, s.bay) /\ (s.start = s.arrival \/ s.start = FreeAt(s.hub, s.bay))
  BY DEF Next1, SessionOk
<1>3. \A k \in DOMAIN q : q[k].arrival \in Nat /\ q[k].start \in Nat /\ q[k].end \in Nat /\ q[k].start <= q[k].end
                          /\ q[k].bay \in Bays(q[k].hub)
  BY DEF SessionsOk, SessionOk
<1>4. ASSUME NEW j \in DOMAIN q
      PROVE  /\ q[j].arrival <= s.arrival
             /\ q[j].hub = s.hub => q[j].start <= s.start /\ (q[j].bay = s.bay => q[j].end <= s.start)
  <2>1. q[j].arrival <= s.arrival
    BY <1>2 DEF Later
  <2>2. ASSUME q[j].hub = s.hub, q[j].bay = s.bay PROVE q[j].end <= s.start
    <3>1. j \in Scheduled(s.hub)
      BY <2>2 DEF Scheduled
    <3>2. q[j].end <= FreeAt(s.hub, s.bay) /\ FreeAt(s.hub, s.bay) \in Nat
      BY <2>2, <3>1, FreeFacts
    <3> QED BY <1>2, <1>3, <3>2
  <2>3. ASSUME q[j].hub = s.hub PROVE q[j].start <= s.start
    <3>1. CASE q[j].start = q[j].arrival
      BY <1>2, <1>3, <2>1, <3>1
    <3>2. CASE q[j].start # q[j].arrival
      <4>1. PICK k \in DOMAIN q : q[k].hub = s.hub /\ q[k].bay = s.bay /\ q[j].start <= q[k].end
        BY <1>2, <2>3, <3>2 DEF Behind
      <4>2. k \in Scheduled(s.hub)
        BY <4>1 DEF Scheduled
      <4>3. q[k].end <= FreeAt(s.hub, s.bay) /\ FreeAt(s.hub, s.bay) \in Nat
        BY <4>1, <4>2, FreeFacts
      <4> QED BY <1>2, <1>3, <4>1, <4>3
    <3> QED BY <3>1, <3>2
  <2> QED BY <2>1, <2>2, <2>3
<1>5. InTurn(r)
  <2> SUFFICES ASSUME NEW j \in DOMAIN r, NEW k \in DOMAIN r, j < k
               PROVE  /\ r[j].arrival <= r[k].arrival
                      /\ r[j].hub = r[k].hub =>
                            r[j].start <= r[k].start /\ (r[j].bay = r[k].bay => r[j].end <= r[k].start)
    BY DEF InTurn
  <2>1. j \in DOMAIN q
    <3>1. j # n
      BY <1>1
    <3> QED BY <1>1, <3>1
  <2>2. CASE k \in DOMAIN q
    BY <1>1, <2>1, <2>2 DEF InTurn
  <2>3. CASE k = n
    BY <1>1, <1>4, <2>1, <2>3
  <2> QED BY <1>1, <2>2, <2>3
<1>6. Behind(r)
  <2> SUFFICES ASSUME NEW k \in DOMAIN r, r[k].start # r[k].arrival, NEW b \in Bays(r[k].hub)
               PROVE  \E j \in DOMAIN r : r[j].hub = r[k].hub /\ r[j].bay = b /\ r[k].start <= r[j].end
    BY DEF Behind
  <2>1. CASE k \in DOMAIN q
    <3>1. PICK j \in DOMAIN q : q[j].hub = q[k].hub /\ q[j].bay = b /\ q[k].start <= q[j].end
      BY <1>1, <2>1 DEF Behind
    <3> QED BY <1>1, <2>1, <3>1
  <2>2. CASE k = n
    <3>1. r[k] = s /\ s.start = FreeAt(s.hub, s.bay) /\ s.start # 0
      BY <1>1, <1>2, <2>2
    <3>2. FreeAt(s.hub, s.bay) <= FreeAt(s.hub, b) /\ FreeAt(s.hub, b) \in Nat
      BY <1>2, <3>1, BayFacts, FreeFacts
    <3>3. FreeAt(s.hub, b) # 0
      BY <1>2, <3>1, <3>2
    <3>4. PICK j \in Scheduled(s.hub) : q[j].bay = b /\ q[j].end = FreeAt(s.hub, b)
      BY <3>3, FreeFacts
    <3>5. j \in DOMAIN q /\ q[j].hub = s.hub
      BY <3>4 DEF Scheduled
    <3> QED BY <1>1, <3>1, <3>2, <3>4, <3>5
  <2> QED BY <1>1, <2>1, <2>2
<1>7. Later(r)
  <2> SUFFICES ASSUME NEW k \in DOMAIN r, NEW b \in Waiting(r) PROVE r[k].arrival <= Arrival(b)
    BY DEF Later
  <2>1. b \in Waiting(q)
    BY <1>1 DEF Waiting
  <2>2. CASE k \in DOMAIN q
    BY <1>1, <2>1, <2>2 DEF Later
  <2>3. CASE k = n
    BY <1>1, <1>2, <2>1, <2>3
  <2> QED BY <1>1, <2>2, <2>3
<1> QED BY <1>5, <1>6, <1>7

LEMMA TakenExtends ==
    ASSUME SessionsOk, InTurn(sessions), Behind(sessions), Later(sessions), AllTaken(sessions),
           NEW s, Next1(s), NEW r, Extends(sessions, r, s)
    PROVE  AllTaken(r)
<1> DEFINE q == sessions
           n == Len(q) + 1
<1>1. /\ \A k \in DOMAIN q : r[k] = q[k] /\ k \in DOMAIN r /\ k < n
      /\ \A k \in DOMAIN r : k \in DOMAIN q \/ k = n
      /\ n \in DOMAIN r /\ n \notin DOMAIN q /\ r[n] = s
  BY DEF Extends
<1>2. /\ s.hub \in DOMAIN Hubs /\ s.bay = Bay(s.hub) /\ s.arrival \in Nat /\ s.start \in Nat
      /\ s.start = s.arrival \/ s.start = FreeAt(s.hub, s.bay)
      /\ s.asset \in Waiting(q) /\ s.arrival = Arrival(s.asset)
  BY DEF Next1, SessionOk
<1>3. ASSUME NEW k \in DOMAIN r, NEW i \in r[k].arrival .. r[k].start - 1
      PROVE  Cardinality(TakenBy(r, r[k].hub, i)) = Slots(r[k].hub)
  <2>1. r[k].arrival \in Nat /\ r[k].start \in Nat /\ i \in Nat /\ i < r[k].start /\ r[k].arrival <= i
    BY <1>1, <1>2 DEF SessionsOk, SessionOk
  <2>2. r[k].hub = s.hub => r[k].start <= s.start
    <3>1. InTurn(r)
      BY TurnExtends
    <3> QED BY <1>1, <2>1, <3>1 DEF InTurn
  <2>3. ~(s.hub = r[k].hub /\ s.start <= i)
    BY <1>2, <2>1, <2>2
  <2>4. TakenBy(r, r[k].hub, i) = TakenBy(q, r[k].hub, i)
    BY <1>1, <2>3 DEF TakenBy
  <2>5. CASE k \in DOMAIN q
    BY <1>1, <2>4, <2>5 DEF AllTaken
  <2>6. CASE k = n
    <3>1. r[k] = s /\ s.start = FreeAt(s.hub, s.bay)
      BY <1>1, <1>2, <2>1, <2>6
    <3>2. \A b \in Bays(s.hub) : i < FreeAt(s.hub, b)
      <4> SUFFICES ASSUME NEW b \in Bays(s.hub) PROVE i < FreeAt(s.hub, b)
        OBVIOUS
      <4>1. FreeAt(s.hub, s.bay) <= FreeAt(s.hub, b) /\ FreeAt(s.hub, b) \in Nat
        BY <1>2, BayFacts, FreeFacts
      <4> QED BY <1>2, <2>1, <3>1, <4>1
    <3>3. \A j \in Scheduled(s.hub) : q[j].arrival <= i
      <4> SUFFICES ASSUME NEW j \in Scheduled(s.hub) PROVE q[j].arrival <= i
        OBVIOUS
      <4>1. j \in DOMAIN q /\ q[j].arrival \in Nat /\ q[j].arrival <= s.arrival
        BY <1>2 DEF Scheduled, Later, SessionsOk, SessionOk
      <4> QED BY <1>2, <2>1, <3>1, <4>1
    <3> QED BY <1>2, <2>1, <2>4, <3>1, <3>2, <3>3, BaysTaken
  <2> QED BY <1>1, <2>5, <2>6
<1> QED BY <1>3 DEF AllTaken

Queue ==
    /\ stage \notin {"charge", "published"} => sessions = <<>>
    /\ stage \in {"charge", "published"} =>
        SessionsOk /\ InTurn(sessions) /\ Behind(sessions) /\ Later(sessions) /\ AllTaken(sessions)

\* The flying time, as a sum.
SumOf(f) == (CHOOSE k : Sums(k, f, DOMAIN f))[DOMAIN f]
Times(a) == [t \in Bookings(a) |-> plan[t].finish - plan[t].start]
LEMMA FoldSum ==
    ASSUME NEW f
    PROVE  FoldFunction(+, 0, f) = SumOf(f)
BY Zenon DEF FoldFunction, FoldFunctionOnSet, MapThenFoldSet, Sums, Pick, SumOf
LEMMA BusySum == \A a : BusyTime(a) = SumOf(Times(a))
BY FoldSum DEF BusyTime, Times

LEMMA DemandKept ==
    ASSUME plan' = plan, fleet' = fleet
    PROVE  Demanding' = Demanding /\ \A a : Arrival(a)' = Arrival(a)
<1>1. \A a : Bookings(a)' = Bookings(a)
  BY DEF Bookings
<1>2. \A a : Arrival(a)' = Arrival(a)
  BY DEF Arrival, Bookings
<1>3. \A a : BusyTime(a)' = BusyTime(a)
  <2>1. \A a : BusyTime(a) = SumOf(Times(a))
    BY BusySum
  <2>2. (\A a : BusyTime(a) = SumOf(Times(a)))'
    BY BusySum, PTL
  <2>3. \A a : SumOf(Times(a))' = SumOf(Times(a))
    BY DEF SumOf, Times, Bookings, Sums, Pick
  <2> QED BY <2>1, <2>2, <2>3
<1>4. \A a : Energy(a)' = Energy(a)
  BY <1>3 DEF Energy
<1>5. Used' = Used
  BY DEF Used
<1>6. Demanding' = Demanding
  BY <1>4, <1>5 DEF Demanding
<1> QED BY <1>2, <1>6

LEMMA QueueEmpty ==
    ASSUME sessions' = <<>>
    PROVE  SessionsOk' /\ InTurn(sessions') /\ Behind(sessions') /\ Later(sessions)' /\ AllTaken(sessions')
<1>1. IsSeq(sessions') /\ DOMAIN sessions' = {}
  BY NoElements
<1> QED BY <1>1 DEF SessionsOk, InTurn, Behind, Later, AllTaken

LEMMA QueueStays ==
    ASSUME Queue, UNCHANGED <<plan, fleet, sessions>>, stage \in {"charge", "published"}
    PROVE  SessionsOk' /\ InTurn(sessions') /\ Behind(sessions') /\ Later(sessions)' /\ AllTaken(sessions')
<1>1. Demanding' = Demanding /\ \A a : Arrival(a)' = Arrival(a)
  BY DemandKept
<1>2. SessionsOk'
  BY <1>1 DEF Queue, SessionsOk, SessionOk
<1>3. Later(sessions)'
  BY <1>1 DEF Queue, Later, Waiting
<1> QED BY <1>2, <1>3 DEF Queue

LEMMA QueueGrows ==
    ASSUME Core, Queue, ChargeNext
    PROVE  Queue'
<1>1. /\ stage = "charge" /\ stage' = stage /\ plan' = plan /\ fleet' = fleet
      /\ SessionsOk /\ InTurn(sessions) /\ Behind(sessions) /\ Later(sessions) /\ AllTaken(sessions)
  <2>1. stage = "charge" /\ stage' = stage /\ plan' = plan /\ fleet' = fleet
    BY DEF ChargeNext
  <2> QED BY <2>1 DEF Queue
<1>2. PICK s : Next1(s) /\ sessions' = Append(sessions, s)
  BY <1>1, Charges
<1>3. Extends(sessions, sessions', s) /\ IsSeq(sessions')
  BY <1>1, <1>2, AppendExtends DEF SessionsOk
<1>4. InTurn(sessions') /\ Behind(sessions') /\ Later(sessions') /\ AllTaken(sessions')
  BY <1>1, <1>2, <1>3, TurnExtends, TakenExtends
<1>5. Demanding' = Demanding /\ \A a : Arrival(a)' = Arrival(a)
  BY <1>1, DemandKept
<1>6. Later(sessions)'
  BY <1>4, <1>5 DEF Later, Waiting
<1>7. ASSUME NEW k \in DOMAIN sessions' PROVE SessionOk(sessions'[k])
  <2>1. CASE k \in DOMAIN sessions
    BY <1>1, <1>3, <2>1 DEF Extends, SessionsOk
  <2>2. CASE k \notin DOMAIN sessions
    BY <1>2, <1>3, <2>2 DEF Extends, Next1
  <2> QED BY <2>1, <2>2
<1>8. SessionsOk'
  BY <1>3, <1>5, <1>7 DEF SessionsOk, SessionOk
<1> QED BY <1>1, <1>4, <1>6, <1>8 DEF Queue

LEMMA QueueHolds == Spec => []Queue
<1>1. Init => Queue
  BY DEF Init, AerialInit, Queue
<1>2. Core /\ Queue /\ [Next]_<<vars, diffVars>> => Queue'
  <2> SUFFICES ASSUME Core, Queue, [Next]_<<vars, diffVars>> PROVE Queue'
    OBVIOUS
  <2>1. \/ ChargeNext
        \/ stage' \in {"solved", "colour", "hold", "charge"} /\ stage \notin {"charge", "published"} /\ sessions' = sessions
        \/ stage' = "solved" /\ sessions' = <<>>
        \/ UNCHANGED <<plan, fleet, sessions>> /\ stage' \in {stage, "published"} /\ (stage' = "published" => stage \in {"charge", "published"})
    BY DEF Next, AerialNext, RunRevisionDiff, Reschedule, RescheduleFails, UpdateRow, DetectConflicts,
           AssignCorridor, CorridorsDone, HoldFlight, Dispatch, SolveFirst, Replan, Begin, Publish, vars
  <2>2. CASE ChargeNext
    BY <2>2, QueueGrows
  <2>3. CASE \/ /\ stage' \in {"solved", "colour", "hold", "charge"}
                /\ stage \notin {"charge", "published"} /\ sessions' = sessions
             \/ stage' = "solved" /\ sessions' = <<>>
    <3>1. sessions' = <<>>
      BY <2>3 DEF Queue
    <3> QED BY <3>1, QueueEmpty DEF Queue
  <2>4. CASE /\ UNCHANGED <<plan, fleet, sessions>> /\ stage' \in {stage, "published"}
             /\ (stage' = "published" => stage \in {"charge", "published"})
    <3>1. CASE stage \in {"charge", "published"}
      BY <2>4, <3>1, QueueStays DEF Queue
    <3>2. CASE stage \notin {"charge", "published"}
      BY <2>4, <3>2 DEF Queue
    <3> QED BY <3>1, <3>2
  <2> QED BY SMTT(60), <2>1, <2>2, <2>3, <2>4
<1> QED BY <1>1, <1>2, CoreHolds, PTL DEF Spec

LEMMA BaysWellRunHolds ==
    ASSUME Core, Queue
    PROVE  BaysWellRun
<1> SUFFICES ASSUME stage = "published"
             PROVE  /\ \A k \in DOMAIN sessions : \A t \in Bookings(sessions[k].asset) : plan[t].finish <= sessions[k].start
                    /\ \A j, k \in DOMAIN sessions :
                        sessions[j].hub = sessions[k].hub /\ j < k =>
                            /\ sessions[j].start <= sessions[k].start
                            /\ sessions[j].bay = sessions[k].bay => sessions[j].end <= sessions[k].start
                    /\ \A k \in DOMAIN sessions : \A i \in sessions[k].arrival .. sessions[k].start - 1 :
                        Cardinality({j \in Scheduled(sessions[k].hub) : sessions[j].start <= i /\ i < sessions[j].end})
                            = Slots(sessions[k].hub)
  BY DEF BaysWellRun
<1>1. SessionsOk /\ InTurn(sessions) /\ AllTaken(sessions)
  BY DEF Queue
<1>2. ASSUME NEW k \in DOMAIN sessions, NEW t \in Bookings(sessions[k].asset)
      PROVE  plan[t].finish <= sessions[k].start
  <2> DEFINE a == sessions[k].asset
  <2>1. /\ a \in Demanding /\ sessions[k].arrival = Arrival(a) /\ sessions[k].arrival <= sessions[k].start
        /\ sessions[k].start \in Nat
    BY <1>1 DEF SessionsOk, SessionOk
  <2>2. Arrival(a) \in Nat /\ plan[t].finish <= Arrival(a)
    BY <2>1, DemandFacts
  <2>3. plan[t].finish \in Nat
    BY DEF Bookings, Core, PlanOk, FlightOk, FlightType
  <2> QED BY <2>1, <2>2, <2>3
<1>3. \A h, i : {j \in Scheduled(h) : sessions[j].start <= i /\ i < sessions[j].end} = TakenBy(sessions, h, i)
  BY DEF Scheduled, TakenBy
<1> QED BY <1>1, <1>2, <1>3 DEF InTurn, AllTaken

-----------------------------------------------------------------------------
(* Peaks *)

\* Spans of time, each from its first to its second instant.
SpansOk(spans) ==
    /\ IsFiniteSet(DOMAIN spans)
    /\ \A k \in DOMAIN spans : spans[k][1] \in Int /\ spans[k][2] \in Int /\ spans[k][1] <= spans[k][2]
Begun(spans, i) == {k \in DOMAIN spans : spans[k][1] <= i}
BegunBefore(spans, i) == {k \in DOMAIN spans : spans[k][1] < i}
Over(spans, i) == {k \in DOMAIN spans : spans[k][2] <= i}
During(spans, i) == {k \in DOMAIN spans : spans[k][1] <= i /\ i < spans[k][2]}

LEMMA Tagged ==
    ASSUME NEW T, IsFiniteSet(T), NEW c, NEW U, U = {<<j, c>> : j \in T}
    PROVE  IsFiniteSet(U) /\ Cardinality(U) = Cardinality(T)
<1> DEFINE f == [j \in T |-> <<j, c>>]
<1>1. f \in [T -> U] /\ (\A y \in U : \E j \in T : f[j] = y) /\ \A j, k \in T : f[j] = f[k] => j = k
  OBVIOUS
<1> HIDE DEF f
<1>2. f \in Surjection(T, U) /\ f \in Injection(T, U)
  BY <1>1 DEF Surjection, Injection, IsInjective
<1> QED BY <1>2, FS_Surjection

LEMMA Counts ==
    ASSUME NEW spans, SpansOk(spans), NEW i \in Int
    PROVE  /\ IsFiniteSet(Begun(spans, i)) /\ IsFiniteSet(BegunBefore(spans, i)) /\ IsFiniteSet(Over(spans, i))
           /\ Present(spans, i) = Cardinality(During(spans, i)) /\ IsFiniteSet(During(spans, i))
           /\ Present(spans, i) \in Nat
           /\ Cardinality(Begun(spans, i)) - Cardinality(Over(spans, i)) = Present(spans, i)
           /\ Cardinality(BegunBefore(spans, i)) - Cardinality(Over(spans, i)) \in Int
           /\ Cardinality(BegunBefore(spans, i)) - Cardinality(Over(spans, i)) <= Present(spans, i)
<1> DEFINE B == Begun(spans, i)
           C == BegunBefore(spans, i)
           O == Over(spans, i)
           D == During(spans, i)
<1>1. /\ IsFiniteSet(DOMAIN spans)
      /\ \A k \in DOMAIN spans : spans[k][1] \in Int /\ spans[k][2] \in Int /\ spans[k][1] <= spans[k][2]
  BY DEF SpansOk
<1>2. B \in SUBSET DOMAIN spans /\ C \in SUBSET B /\ O \in SUBSET B /\ D = B \ O /\ D \in SUBSET DOMAIN spans
      /\ O \in SUBSET DOMAIN spans
  BY <1>1 DEF Begun, BegunBefore, Over, During
<1>3. Present(spans, i) = Cardinality(D)
  BY DEF Present, During
<1> HIDE DEF B, C, O, D
<1>4. IsFiniteSet(B) /\ IsFiniteSet(O) /\ IsFiniteSet(D)
  BY <1>1, <1>2, FS_Subset
<1>5. IsFiniteSet(C) /\ Cardinality(C) <= Cardinality(B)
  BY <1>2, <1>4, FS_Subset
<1>6. /\ Cardinality(B) \in Nat /\ Cardinality(C) \in Nat /\ Cardinality(O) \in Nat /\ Cardinality(D) \in Nat
  BY <1>4, <1>5, FS_CardinalityType
<1>7. Cardinality(D) = Cardinality(B) - Cardinality(O)
  <2>1. B \cap O = O
    BY <1>2
  <2> QED BY <1>2, <1>4, <2>1, FS_Difference
<1>8. Cardinality(C) - Cardinality(O) \in Int /\ Cardinality(C) - Cardinality(O) <= Cardinality(D)
  BY <1>5, <1>6, <1>7
<1> QED BY <1>3, <1>4, <1>5, <1>6, <1>7, <1>8 DEF B, C, O, D

\* HighestOf is the greatest number present at any instant.
LEMMA HighestFacts ==
    ASSUME NEW spans, SpansOk(spans)
    PROVE  /\ HighestOf(spans) \in Int /\ HighestOf(spans) >= 0
           /\ \A k \in DOMAIN spans : Present(spans, spans[k][1]) <= HighestOf(spans)
           /\ HighestOf(spans) = 0 \/ \E k \in DOMAIN spans : HighestOf(spans) = Present(spans, spans[k][1])
<1> DEFINE S == DOMAIN spans
           f == [k \in S |-> Present(spans, spans[k][1])]
           T == {Present(spans, spans[k][1]) : k \in S}
           top == Max({0} \cup T)
<1>1. T = {f[k] : k \in S} /\ HighestOf(spans) = top /\ \A k \in S : f[k] = Present(spans, spans[k][1])
  BY DEF HighestOf
<1>2. \A k \in S : f[k] \in Int
  BY <1>1, Counts DEF SpansOk
<1>3. TopOf(top, 0, S, f)
  <2>1. IsFiniteSet(S) /\ 0 \in Int
    BY DEF SpansOk
  <2> HIDE DEF S, f, T
  <2> QED BY <1>1, <1>2, <2>1, MaxOver
<1> HIDE DEF f, T, top
<1> QED BY <1>1, <1>2, <1>3 DEF TopOf

LEMMA PresentBelow ==
    ASSUME NEW spans, SpansOk(spans), NEW i \in Int
    PROVE  Present(spans, i) <= HighestOf(spans)
<1> DEFINE D == During(spans, i)
<1>1. Present(spans, i) = Cardinality(D) /\ IsFiniteSet(D) /\ D \in SUBSET DOMAIN spans
  BY Counts DEF During
<1>2. CASE D = {}
  BY <1>1, <1>2, FS_EmptySet, HighestFacts
<1>3. CASE D # {}
  <2> DEFINE f == [k \in D |-> spans[k][1]]
             T == {spans[k][1] : k \in D}
  <2>1. T = {f[k] : k \in D} /\ T # {} /\ T \in SUBSET Int
    BY <1>1, <1>3 DEF SpansOk
  <2>2. Max(T) \in T /\ \A y \in T : Max(T) >= y
    <3> HIDE DEF D, f, T
    <3>1. IsFiniteSet(T)
      BY <1>1, <2>1, ImageFinite
    <3> QED BY <2>1, <3>1, MaxIs
  <2>3. PICK m \in D : Max(T) = spans[m][1]
    BY <2>2
  <2> DEFINE at == spans[m][1]
  <2>4. at \in Int /\ at <= i /\ m \in DOMAIN spans /\ \A k \in D : spans[k][1] <= at
    <3>1. \A k \in D : spans[k][1] \in T
      OBVIOUS
    <3> QED BY <2>2, <2>3, <3>1 DEF During, SpansOk
  <2>5. D \in SUBSET During(spans, at)
    BY <2>4 DEF During, SpansOk
  <2>6. /\ IsFiniteSet(During(spans, at)) /\ Present(spans, at) = Cardinality(During(spans, at))
        /\ Present(spans, at) \in Nat
    BY <2>4, Counts
  <2>7. Cardinality(D) <= Present(spans, at)
    BY <2>5, <2>6, FS_Subset
  <2>8. Present(spans, at) <= HighestOf(spans) /\ HighestOf(spans) \in Int
    BY <2>4, HighestFacts
  <2>9. Cardinality(D) \in Nat
    BY <1>1, FS_CardinalityType
  <2> HIDE DEF D, at
  <2> QED BY <1>1, <2>6, <2>7, <2>8, <2>9
<1> QED BY <1>2, <1>3

\* The sweep finds it.
LEMMA PeakIsHighest ==
    ASSUME NEW spans, SpansOk(spans)
    PROVE  Peak(spans) = HighestOf(spans)
<1> DEFINE S == DOMAIN spans
           all == {<<k, 1>> : k \in S} \cup {<<k, 2>> : k \in S}
           At(e) == spans[e[1]][e[2]]
           Seen(e) == {f \in all : At(f) < At(e) \/ (At(f) = At(e) /\ (f[2] = 2 \/ e[2] = 1))}
           V(e) == Cardinality({f \in Seen(e) : f[2] = 1}) - Cardinality({f \in Seen(e) : f[2] = 2})
           v == [e \in all |-> V(e)]
           T == {V(e) : e \in all}
           top == Max({0} \cup T)
<1>1. Peak(spans) = top
  BY DEF Peak
<1>2. ASSUME NEW k \in S
      PROVE  V(<<k, 1>>) = Present(spans, spans[k][1])
  <2> DEFINE i == spans[k][1]
             e == <<k, 1>>
  <2>1. i \in Int /\ \A j \in S : spans[j][1] \in Int /\ spans[j][2] \in Int
    BY DEF SpansOk
  <2>2. {f \in Seen(e) : f[2] = 1} = {<<j, 1>> : j \in Begun(spans, i)}
    BY <2>1 DEF Begun
  <2>3. {f \in Seen(e) : f[2] = 2} = {<<j, 2>> : j \in Over(spans, i)}
    BY <2>1 DEF Over
  <2>4. /\ Cardinality({f \in Seen(e) : f[2] = 1}) = Cardinality(Begun(spans, i))
        /\ Cardinality({f \in Seen(e) : f[2] = 2}) = Cardinality(Over(spans, i))
    <3> DEFINE U == {f \in Seen(e) : f[2] = 1}
               W == {f \in Seen(e) : f[2] = 2}
    <3>1. IsFiniteSet(Begun(spans, i)) /\ IsFiniteSet(Over(spans, i))
      BY <2>1, Counts
    <3>2. U = {<<j, 1>> : j \in Begun(spans, i)} /\ W = {<<j, 2>> : j \in Over(spans, i)}
      BY <2>2, <2>3
    <3> DEFINE begun == Begun(spans, i)
               over == Over(spans, i)
    <3>3. /\ IsFiniteSet(begun) /\ U = {<<j, 1>> : j \in begun}
          /\ IsFiniteSet(over) /\ W = {<<j, 2>> : j \in over}
      BY <3>1, <3>2
    <3> HIDE DEF U, W, begun, over
    <3>4. Cardinality(U) = Cardinality(begun)
      BY <3>3, Tagged
    <3>5. Cardinality(W) = Cardinality(over)
      BY <3>3, Tagged
    <3> QED BY <3>4, <3>5 DEF U, W, begun, over
  <2> QED BY <2>1, <2>4, Counts
<1>3. ASSUME NEW k \in S
      PROVE  V(<<k, 2>>) \in Int /\ V(<<k, 2>>) <= Present(spans, spans[k][2])
  <2> DEFINE i == spans[k][2]
             e == <<k, 2>>
  <2>1. i \in Int /\ \A j \in S : spans[j][1] \in Int /\ spans[j][2] \in Int
    BY DEF SpansOk
  <2>2. {f \in Seen(e) : f[2] = 1} = {<<j, 1>> : j \in BegunBefore(spans, i)}
    BY <2>1 DEF BegunBefore
  <2>3. {f \in Seen(e) : f[2] = 2} = {<<j, 2>> : j \in Over(spans, i)}
    BY <2>1 DEF Over
  <2>4. /\ Cardinality({f \in Seen(e) : f[2] = 1}) = Cardinality(BegunBefore(spans, i))
        /\ Cardinality({f \in Seen(e) : f[2] = 2}) = Cardinality(Over(spans, i))
    <3> DEFINE U == {f \in Seen(e) : f[2] = 1}
               W == {f \in Seen(e) : f[2] = 2}
    <3>1. IsFiniteSet(BegunBefore(spans, i)) /\ IsFiniteSet(Over(spans, i))
      BY <2>1, Counts
    <3>2. U = {<<j, 1>> : j \in BegunBefore(spans, i)} /\ W = {<<j, 2>> : j \in Over(spans, i)}
      BY <2>2, <2>3
    <3> DEFINE begun == BegunBefore(spans, i)
               over == Over(spans, i)
    <3>3. /\ IsFiniteSet(begun) /\ U = {<<j, 1>> : j \in begun}
          /\ IsFiniteSet(over) /\ W = {<<j, 2>> : j \in over}
      BY <3>1, <3>2
    <3> HIDE DEF U, W, begun, over
    <3>4. Cardinality(U) = Cardinality(begun)
      BY <3>3, Tagged
    <3>5. Cardinality(W) = Cardinality(over)
      BY <3>3, Tagged
    <3> QED BY <3>4, <3>5 DEF U, W, begun, over
  <2> QED BY <2>1, <2>4, Counts
<1>4. IsFiniteSet(all)
  <2> DEFINE U == {<<k, 1>> : k \in S}
             W == {<<k, 2>> : k \in S}
  <2>1. IsFiniteSet(S) /\ U = {<<k, 1>> : k \in S} /\ W = {<<k, 2>> : k \in S} /\ all = U \cup W
    BY DEF SpansOk
  <2> HIDE DEF U, W, S, all
  <2>2. IsFiniteSet(U) /\ IsFiniteSet(W)
    BY <2>1, Tagged
  <2> QED BY <2>1, <2>2, FS_Union
<1>5. \A e \in all : v[e] = V(e) /\ \E k \in S : e = <<k, 1>> \/ e = <<k, 2>>
  OBVIOUS
<1>6. T = {v[e] : e \in all} /\ \A k \in S : <<k, 1>> \in all
  OBVIOUS
<1> HIDE DEF V, T, v, all
<1>7. \A k \in S : Present(spans, spans[k][1]) \in Nat /\ Present(spans, spans[k][2]) \in Nat
                   /\ spans[k][2] \in Int
  BY Counts DEF SpansOk
<1>8. \A e \in all : v[e] \in Int /\ v[e] <= HighestOf(spans)
  <2> SUFFICES ASSUME NEW e \in all PROVE v[e] \in Int /\ v[e] <= HighestOf(spans)
    OBVIOUS
  <2>1. PICK k \in S : e = <<k, 1>> \/ e = <<k, 2>>
    BY <1>5
  <2>2. HighestOf(spans) \in Int /\ Present(spans, spans[k][1]) <= HighestOf(spans)
        /\ Present(spans, spans[k][2]) <= HighestOf(spans)
    BY <1>7, HighestFacts, PresentBelow
  <2>3. CASE e = <<k, 1>>
    BY <1>2, <1>5, <1>7, <2>2, <2>3
  <2>4. CASE e = <<k, 2>>
    <3>1. v[e] = V(<<k, 2>>) /\ V(<<k, 2>>) \in Int /\ V(<<k, 2>>) <= Present(spans, spans[k][2])
      BY <1>3, <1>5, <2>4
    <3> QED BY <1>7, <2>2, <3>1
  <2> QED BY <2>1, <2>3, <2>4
<1>9. TopOf(top, 0, all, v)
  <2>1. 0 \in Int /\ \A e \in all : v[e] \in Int
    BY <1>8
  <2> QED BY <1>4, <1>6, <2>1, MaxOver
<1> HIDE DEF top
<1>10. top <= HighestOf(spans) /\ top \in Int
  BY <1>8, <1>9, HighestFacts DEF TopOf
<1>11. HighestOf(spans) <= top
  <2>1. CASE HighestOf(spans) = 0
    BY <1>9, <2>1 DEF TopOf
  <2>2. CASE HighestOf(spans) # 0
    <3>1. PICK k \in S : HighestOf(spans) = Present(spans, spans[k][1])
      BY <2>2, HighestFacts
    <3>2. <<k, 1>> \in all /\ v[<<k, 1>>] = HighestOf(spans)
      BY <1>2, <1>5, <1>6, <3>1
    <3>3. top >= v[<<k, 1>>]
      BY <1>9, <3>2 DEF TopOf
    <3> QED BY <1>10, <3>2, <3>3, HighestFacts
  <2> QED BY <2>1, <2>2
<1> QED BY <1>1, <1>10, <1>11, HighestFacts

\* Spans of no length do not count.
LEMMA HighestOfWaits ==
    ASSUME NEW f, NEW g, SpansOk(f), SpansOk(g), DOMAIN f \in SUBSET DOMAIN g,
           \A k \in DOMAIN f : f[k] = g[k], \A k \in DOMAIN g \ DOMAIN f : g[k][1] = g[k][2]
    PROVE  HighestOf(f) = HighestOf(g)
<1>1. \A i \in Int : Present(f, i) = Present(g, i)
  <2> SUFFICES ASSUME NEW i \in Int PROVE Present(f, i) = Present(g, i)
    OBVIOUS
  <2>1. During(f, i) = During(g, i)
    BY DEF During, SpansOk
  <2> QED BY <2>1, Counts
<1>2. HighestOf(f) <= HighestOf(g)
  <2>1. HighestOf(f) = 0 \/ \E k \in DOMAIN f : HighestOf(f) = Present(f, f[k][1]) /\ f[k][1] \in Int
    BY HighestFacts DEF SpansOk
  <2> QED BY <1>1, <2>1, HighestFacts, PresentBelow
<1>3. HighestOf(g) <= HighestOf(f)
  <2>1. HighestOf(g) = 0 \/ \E k \in DOMAIN g : HighestOf(g) = Present(g, g[k][1]) /\ g[k][1] \in Int
    BY HighestFacts DEF SpansOk
  <2> QED BY <1>1, <2>1, HighestFacts, PresentBelow
<1> QED BY <1>2, <1>3, HighestFacts

\* The spans the report counts, and that it counts them.
Shifted == [t \in Flights(solved) |-> <<Entry(solved, t) + delay[t], EffExit(t)>>]
Charging == [k \in DOMAIN sessions |-> <<sessions[k].start, sessions[k].end>>]
Queued(h) == [k \in Scheduled(h) |-> <<sessions[k].arrival, sessions[k].start>>]
Depth == Max({0} \cup {Peak(HubQueue(h)) : h \in DOMAIN Hubs})
PeaksReported ==
    stage = "published" =>
        /\ Newest.airspace.peak = Peak(Shifted)
        /\ Newest.charging.concurrent = Peak(Charging) /\ Newest.charging.depth = Depth

LEMMA PeaksKept ==
    ASSUME UNCHANGED <<menu, known, fleet, solved, delay, sessions>>
    PROVE  Shifted' = Shifted /\ Charging' = Charging /\ Depth' = Depth
<1>1. Flights(solved)' = Flights(solved) /\ \A t : Entry(solved, t)' = Entry(solved, t)
  BY FlightsKept
<1>2. Shifted' = Shifted
  BY <1>1 DEF Shifted, EffExit
<1>3. Charging' = Charging
  BY DEF Charging
<1>4. \A h : HubQueue(h)' = HubQueue(h)
  BY DEF HubQueue, Scheduled
<1>5. Depth' = Depth
  BY <1>4 DEF Depth
<1> QED BY <1>2, <1>3, <1>5

LEMMA PeaksReportedHolds == Spec => []PeaksReported
<1>1. Init => PeaksReported
  BY DEF Init, AerialInit, PeaksReported
<1>2. Core /\ PeaksReported /\ [Next]_<<vars, diffVars>> => PeaksReported'
  <2> SUFFICES ASSUME Core, PeaksReported, [Next]_<<vars, diffVars>> PROVE PeaksReported'
    OBVIOUS
  <2>1. \/ Publish
        \/ UNCHANGED vars
        \/ stage' # "published"
    BY DEF Next, AerialNext, RunRevisionDiff, Reschedule, RescheduleFails, UpdateRow, DetectConflicts,
           AssignCorridor, CorridorsDone, HoldFlight, Dispatch, ChargeNext, SolveFirst, Replan, Begin, vars
  <2>2. CASE Publish
    <3>1. /\ UNCHANGED <<menu, known, fleet, solved, delay, sessions>>
          /\ Newest'.airspace = AirspaceReport /\ Newest'.charging = ChargingReport
      BY <2>2, Publishes DEF Newest
    <3>2. AirspaceReport.peak = Peak(Shifted)
      BY DEF AirspaceReport, Shifted
    <3>3. ChargingReport.concurrent = Peak(Charging) /\ ChargingReport.depth = Depth
      BY DEF ChargingReport, Charging, Depth
    <3> QED BY <3>1, <3>2, <3>3, PeaksKept DEF PeaksReported
  <2>3. CASE UNCHANGED vars
    <3>1. Newest' = Newest /\ stage' = stage
      BY <2>3 DEF vars, Newest
    <3>2. Shifted' = Shifted /\ Charging' = Charging /\ Depth' = Depth
      BY <2>3, PeaksKept DEF vars
    <3> QED BY <3>1, <3>2 DEF PeaksReported
  <2>4. CASE stage' # "published"
    BY <2>4 DEF PeaksReported
  <2> QED BY <2>1, <2>2, <2>3, <2>4
<1> QED BY <1>1, <1>2, CoreHolds, PTL DEF Spec

\* The flights in the air, as they were dispatched.
LEMMA FlightSpans ==
    ASSUME Core, stage = "published"
    PROVE  /\ [t \in Flights(plan) |-> <<Entry(plan, t), plan[t].finish>>] = Shifted
           /\ SpansOk(Shifted)
<1>1. World /\ PlanOk(menu, plan) /\ DOMAIN plan = DOMAIN solved
      /\ \A t \in DOMAIN solved : plan[t].asset = solved[t].asset
  BY RetimedOk DEF Core, Held
<1>2. Flights(plan) = Flights(solved)
  BY <1>1 DEF Flights
<1>3. \A t \in Flights(solved) : Entry(plan, t) = Entry(solved, t) + delay[t] /\ plan[t].finish = EffExit(t)
                                 /\ t \in DOMAIN plan
  BY AsDispatched
<1>4. [t \in Flights(plan) |-> <<Entry(plan, t), plan[t].finish>>] = Shifted
  BY <1>2, <1>3 DEF Shifted
<1>5. ASSUME NEW t \in Flights(solved)
      PROVE  Entry(plan, t) \in Int /\ plan[t].finish \in Int /\ Entry(plan, t) <= plan[t].finish
  <2>1. t \in DOMAIN plan
    BY <1>3
  <2>2. plan[t].start \in Nat /\ plan[t].finish \in Nat /\ plan[t].start <= plan[t].finish
    BY <1>1, <2>1 DEF PlanOk, FlightOk, FlightType
  <2>3. Entry(plan, t) \in Int /\ Entry(plan, t) <= plan[t].start
    BY <1>1, <2>1, FlightTimes
  <2> QED BY <2>2, <2>3
<1>6. IsFiniteSet(Flights(solved))
  <2>1. Flights(solved) \in SUBSET DOMAIN solved /\ IsFiniteSet(DOMAIN solved)
    BY <1>1, FiniteTasks DEF World, Flights
  <2> QED BY <2>1, FS_Subset
<1>7. DOMAIN Shifted = Flights(solved)
      /\ \A t \in Flights(solved) : Shifted[t][1] = Entry(plan, t) /\ Shifted[t][2] = plan[t].finish
  BY <1>3 DEF Shifted
<1> QED BY <1>4, <1>5, <1>6, <1>7 DEF SpansOk

\* The bays in use, and what waits at a hub.
LEMMA SessionSpans ==
    ASSUME SessionsOk
    PROVE  /\ SpansOk(Charging)
           /\ \A h : /\ SpansOk(HubQueue(h)) /\ SpansOk(Queued(h))
                     /\ HighestOf(HubQueue(h)) = HighestOf(Queued(h))
<1>1. IsFiniteSet(DOMAIN sessions)
  <2>1. DOMAIN sessions = 1 .. Len(sessions) /\ Len(sessions) \in Nat
    BY Appended DEF SessionsOk
  <2> QED BY <2>1, FS_Interval
<1>2. \A k \in DOMAIN sessions :
        /\ sessions[k].arrival \in Nat /\ sessions[k].start \in Nat /\ sessions[k].end \in Nat
        /\ sessions[k].arrival <= sessions[k].start /\ sessions[k].start <= sessions[k].end
  BY DEF SessionsOk, SessionOk
<1>3. SpansOk(Charging)
  BY <1>1, <1>2 DEF Charging, SpansOk
<1>4. ASSUME NEW h
      PROVE  SpansOk(HubQueue(h)) /\ SpansOk(Queued(h)) /\ HighestOf(HubQueue(h)) = HighestOf(Queued(h))
  <2> DEFINE f == HubQueue(h)
             g == Queued(h)
  <2>1. /\ DOMAIN f = {j \in Scheduled(h) : sessions[j].start > sessions[j].arrival} /\ DOMAIN g = Scheduled(h)
        /\ \A k \in DOMAIN f : f[k] = <<sessions[k].arrival, sessions[k].start>>
        /\ \A k \in DOMAIN g : g[k] = <<sessions[k].arrival, sessions[k].start>>
    BY DEF HubQueue, Queued
  <2> HIDE DEF f, g
  <2>2. DOMAIN g \in SUBSET DOMAIN sessions /\ DOMAIN f \in SUBSET DOMAIN g
    BY <2>1 DEF Scheduled
  <2>3. IsFiniteSet(DOMAIN f) /\ IsFiniteSet(DOMAIN g)
    BY <1>1, <2>2, FS_Subset
  <2>4. SpansOk(f) /\ SpansOk(g)
    BY <1>2, <2>1, <2>2, <2>3 DEF SpansOk
  <2>5. \A k \in DOMAIN f : f[k] = g[k]
    BY <2>1, <2>2
  <2>6. \A k \in DOMAIN g \ DOMAIN f : g[k][1] = g[k][2]
    BY <1>2, <2>1, <2>2
  <2>7. HighestOf(f) = HighestOf(g)
    BY <2>2, <2>4, <2>5, <2>6, HighestOfWaits
  <2> QED BY <2>4, <2>7 DEF f, g
<1> QED BY <1>3, <1>4

LEMMA PeaksExactHolds ==
    ASSUME Core, Queue, PeaksReported
    PROVE  PeaksExact
<1> SUFFICES ASSUME stage = "published"
             PROVE  /\ Peak(Shifted) = HighestOf([t \in Flights(plan) |-> <<Entry(plan, t), plan[t].finish>>])
                    /\ Peak(Charging) = HighestOf(Charging)
                    /\ Depth = Max({0} \cup {HighestOf(Queued(h)) : h \in DOMAIN Hubs})
  BY DEF PeaksExact, PeaksReported, Charging, Queued
<1>1. Peak(Shifted) = HighestOf([t \in Flights(plan) |-> <<Entry(plan, t), plan[t].finish>>])
  BY FlightSpans, PeakIsHighest
<1>2. SessionsOk
  BY DEF Queue
<1>3. Peak(Charging) = HighestOf(Charging)
  BY <1>2, SessionSpans, PeakIsHighest
<1>4. \A h : Peak(HubQueue(h)) = HighestOf(Queued(h))
  BY <1>2, SessionSpans, PeakIsHighest
<1>5. Depth = Max({0} \cup {HighestOf(Queued(h)) : h \in DOMAIN Hubs})
  BY <1>4 DEF Depth
<1> QED BY <1>1, <1>3, <1>5

(* Whatever fleet, hubs, bays and power: no bay is used twice at a time,   *)
(* no asset charges before its last flight is over, a hub serves in order  *)
(* of arrival and lets nobody wait beside a free bay, and the peaks of the *)
(* report are those of the published plan.  (_schedule_hub,                *)
(* _max_concurrent, _peak_queue_depth)                                     *)
THEOREM HubsCanRun == Spec => []HubsRunAsReported
<1>1. Core /\ Queue /\ PeaksReported => HubsRunAsReported
  BY BaysWellRunHolds, PeaksExactHolds DEF HubsRunAsReported
<1> QED BY <1>1, CoreHolds, QueueHolds, PeaksReportedHolds, PTL
=============================================================================
