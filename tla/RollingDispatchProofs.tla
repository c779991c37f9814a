------------------------ MODULE RollingDispatchProofs ------------------------
(***************************************************************************)
(* Proofs about RollingDispatch for every set of tasks, assets and         *)
(* durations, every freeze window and every order of event times: what a   *)
(* revision keeps of the previous one and how the re-solved rest fits it.  *)
(***************************************************************************)
EXTENDS RollingDispatch, TLAPS

-----------------------------------------------------------------------------
(* The shape of one revision *)

\* A task's place in the partition decides its assembled assignment.
LEMMA AssembledShape ==
    ASSUME TypeOK, NEW now \in 0..MaxTime,
           NEW f \in [Resolve(now) -> Bookings(now) \cup {None}],
           NEW t \in Tasks
    PROVE  /\ Assembled(f, now) \in [Tasks -> AllBookings \cup {None}]
           /\ t \in KeptFrozen(now) \cap Assigned =>
                Assembled(f, now)[t] = [asg[t] EXCEPT !.frozen = TRUE]
           /\ t \in Carried(now) =>
                Assembled(f, now)[t] = [asg[t] EXCEPT !.frozen = FALSE]
           /\ t \in Resolve(now) => Assembled(f, now)[t] = f[t]
           /\ t \notin (KeptFrozen(now) \cap Assigned) \cup Carried(now) \cup Resolve(now)
                => Assembled(f, now)[t] = None
<1>1. Carried(now) \cap KeptFrozen(now) = {} /\ Resolve(now) \cap Preserved(now) = {}
  BY DEF Carried, Resolve
<1>2. ASSUME NEW u \in Assigned
      PROVE /\ [asg[u] EXCEPT !.frozen = TRUE] \in AllBookings
            /\ [asg[u] EXCEPT !.frozen = FALSE] \in AllBookings
  BY DEF Assigned, TypeOK, AllBookings
<1>3. Bookings(now) \subseteq AllBookings
  <2> SUFFICES ASSUME NEW s \in now..MaxTime, NEW d \in Durations,
                      NEW v \in Vehicles \cap avail, NEW i \in Implements \cap avail,
                      NEW o \in (Operators \cap avail) \cup {NoOperator}
               PROVE  [start |-> s, finish |-> s + d, vehicle |-> v, implement |-> i,
                       operator |-> o, frozen |-> FALSE] \in AllBookings
    BY DEF Bookings
  <2>1. s \in Nat /\ s + d \in Nat
    BY RollingAssumption
  <2> QED BY <2>1 DEF AllBookings
<1>4. Assembled(f, now) \in [Tasks -> AllBookings \cup {None}]
  BY <1>2, <1>3 DEF Assembled, Carried
<1> QED BY <1>1, <1>4 DEF Assembled, Preserved

\* A hold moves the window of an assignment and nothing else, and only that
\* of a flight that is not frozen.
LEMMA RetimedShape ==
    ASSUME NEW A \in [Tasks -> AllBookings \cup {None}], NEW h \in HoldsOf(A),
           NEW t \in Tasks
    PROVE  /\ Retimed(A, h) \in [Tasks -> AllBookings \cup {None}]
           /\ Retimed(A, h)[t] = None <=> A[t] = None
           /\ A[t] # None =>
                /\ Retimed(A, h)[t].vehicle = A[t].vehicle
                /\ Retimed(A, h)[t].implement = A[t].implement
                /\ Retimed(A, h)[t].operator = A[t].operator
                /\ Retimed(A, h)[t].frozen = A[t].frozen
                /\ h[t] = 0 => Retimed(A, h)[t] = A[t]
                /\ A[t].frozen \/ t \notin Aerial => h[t] = 0
<1>1. h \in [Tasks -> Nat]
  BY RollingAssumption DEF HoldsOf
<1>2. ASSUME NEW u \in Tasks, A[u] # None
      PROVE /\ [A[u] EXCEPT !.start = @ + h[u], !.finish = @ + h[u]] \in AllBookings
            /\ h[u] = 0 =>
                [A[u] EXCEPT !.start = @ + h[u], !.finish = @ + h[u]] = A[u]
  <2> DEFINE b == A[u]
  <2>1. /\ b \in AllBookings /\ h[u] \in Nat
        /\ b.start + h[u] \in Nat /\ b.finish + h[u] \in Nat
    BY <1>1, <1>2 DEF AllBookings
  <2>2. [b EXCEPT !.start = b.start + h[u], !.finish = b.finish + h[u]] \in AllBookings
    <3> HIDE DEF b
    <3>1. [b EXCEPT !.start = b.start + h[u]] \in AllBookings
      BY <2>1 DEF AllBookings
    <3>2. ASSUME NEW c \in AllBookings
          PROVE [c EXCEPT !.finish = b.finish + h[u]] \in AllBookings
      BY <2>1 DEF AllBookings
    <3> QED BY <3>1, <3>2
  <2>3. ASSUME h[u] = 0
        PROVE [b EXCEPT !.start = b.start + h[u], !.finish = b.finish + h[u]] = b
    <3> HIDE DEF b
    <3>1. b.start + h[u] = b.start /\ b.finish + h[u] = b.finish
      BY <2>1, <2>3 DEF AllBookings
    <3> QED BY <3>1, <2>1 DEF AllBookings
  <2> QED BY <2>2, <2>3
<1>3. Retimed(A, h) \in [Tasks -> AllBookings \cup {None}]
  BY <1>2 DEF Retimed
<1>4. Retimed(A, h)[t] = None <=> A[t] = None
  BY <1>2, RollingAssumption DEF Retimed
<1>5. ASSUME A[t] # None
      PROVE /\ Retimed(A, h)[t].vehicle = A[t].vehicle
            /\ Retimed(A, h)[t].implement = A[t].implement
            /\ Retimed(A, h)[t].operator = A[t].operator
            /\ Retimed(A, h)[t].frozen = A[t].frozen
  BY <1>5 DEF Retimed, AllBookings
<1>6. /\ A[t] # None /\ h[t] = 0 => Retimed(A, h)[t] = A[t]
      /\ A[t].frozen \/ t \notin Aerial => h[t] = 0
  <2>1. A[t].frozen \/ t \notin Aerial => h[t] = 0
    BY <1>1 DEF HoldsOf, Flights
  <2> QED BY <2>1, <1>2 DEF Retimed
<1> QED BY <1>3, <1>4, <1>5, <1>6

\* What a revision makes of task t.
RevisionOf(t, f, now) ==
    /\ asg'[t] = None <=> Assembled(f, now)[t] = None
    /\ asg'[t] # None =>
        /\ asg'[t].vehicle = Assembled(f, now)[t].vehicle
        /\ asg'[t].implement = Assembled(f, now)[t].implement
        /\ asg'[t].operator = Assembled(f, now)[t].operator
        /\ asg'[t].frozen = Assembled(f, now)[t].frozen
        /\ Assembled(f, now)[t].frozen \/ t \notin Aerial
             => asg'[t] = Assembled(f, now)[t]

\* A replan is a chain outcome for the tasks to re-solve, assembled with the
\* preserved ones and retimed.
LEMMA ReplanShape ==
    ASSUME TypeOK, NEW now \in 0..MaxTime, Replan(now)
    PROVE  \E f \in [Resolve(now) -> Bookings(now) \cup {None}],
              adm \in SUBSET (Resolve(now) \cap Demanding) :
             /\ ChainOutcome(f, adm, Resolve(now), Preserved(now), now)
             /\ asg' \in [Tasks -> AllBookings \cup {None}]
             /\ \A t \in Tasks : RevisionOf(t, f, now)
             /\ unassigned' = {t \in Resolve(now) : f[t] = None}
             /\ reserved' = Reservations(f, adm, now)
<1>1. PICK f \in [Resolve(now) -> Bookings(now) \cup {None}],
           adm \in SUBSET (Resolve(now) \cap Demanding) :
        /\ ChainOutcome(f, adm, Resolve(now), Preserved(now), now)
        /\ \E h \in HoldsOf(Assembled(f, now)) : asg' = Retimed(Assembled(f, now), h)
        /\ unassigned' = {t \in Resolve(now) : f[t] = None}
        /\ reserved' = Reservations(f, adm, now)
  BY DEF Replan
<1>2. PICK h \in HoldsOf(Assembled(f, now)) : asg' = Retimed(Assembled(f, now), h)
  BY <1>1
<1>3. Assembled(f, now) \in [Tasks -> AllBookings \cup {None}]
  <2>1. CASE Tasks = {}
    BY <2>1 DEF Assembled
  <2>2. CASE Tasks # {}
    BY <2>2, AssembledShape
  <2> QED BY <2>1, <2>2
<1>4. asg' \in [Tasks -> AllBookings \cup {None}]
  <2>1. CASE Tasks = {}
    BY <2>1, <1>2 DEF Retimed
  <2>2. CASE Tasks # {}
    BY <2>2, <1>2, <1>3, RetimedShape
  <2> QED BY <2>1, <2>2
<1>5. ASSUME NEW t \in Tasks PROVE RevisionOf(t, f, now)
  BY <1>2, <1>3, RetimedShape DEF RevisionOf
<1> QED BY <1>1, <1>4, <1>5

-----------------------------------------------------------------------------
(* The inductive invariant *)

\* What a revision leaves behind, but for the booking windows, which follow.
RollingInv ==
    /\ TypeOK /\ NoDeadBundle /\ Accounted /\ ReservationsMatch
    /\ DepartedOnlyFrozen

\* Init: no revision, no assignment and no reservation.
LEMMA InitRolling == Init => RollingInv /\ NoDoubleBooking
<1> SUFFICES ASSUME Init PROVE RollingInv /\ NoDoubleBooking
  OBVIOUS
<1>1. TypeOK
  <2>1. asg \in [Tasks -> AllBookings \cup {None}] /\ repairs \in [Tasks -> 0..2]
    BY DEF Init
  <2>2. reasons \in [Services -> ServiceStatus]
    BY DEF Init, ServiceStatus
  <2> QED BY <2>1, <2>2 DEF Init, TypeOK
<1>2. NoDeadBundle /\ Accounted /\ DepartedOnlyFrozen
  BY DEF Init, NoDeadBundle, Accounted, DepartedOnlyFrozen
<1>3. Assigned = {}
  BY DEF Init, Assigned
<1>4. ReservationsMatch
  BY <1>3 DEF Init, ReservationsMatch
<1>5. NoDoubleBooking
  BY <1>3 DEF NoDoubleBooking
<1> QED BY <1>1, <1>2, <1>4, <1>5 DEF RollingInv

\* An event changes the working data, never the plan, and makes the plan
\* stale.
LEMMA EventKeepsRolling ==
    ASSUME RollingInv, ApplyEvent
    PROVE  RollingInv' /\ (NoDoubleBooking => NoDoubleBooking')
<1>1. dirty' = TRUE /\ UNCHANGED plan
  BY DEF ApplyEvent
<1>2. status' \in Statuses /\ avail' \subseteq Assets
  <2>0. status \in Statuses /\ avail \subseteq Assets
    BY DEF RollingInv, TypeOK
  <2>1. CASE \E t \in Orders : OrderCreated(t) \/ TaskStarted(t) \/ TaskRemoved(t)
    <3>1. PICK t \in Orders : OrderCreated(t) \/ TaskStarted(t) \/ TaskRemoved(t)
      BY <2>1
    <3>2. /\ \E s \in OrderStatus : status' = [status EXCEPT ![t] = s]
          /\ avail' = avail
      BY <2>0, <3>1 DEF OrderCreated, TaskStarted, TaskRemoved, OrderStatus, Statuses, Tasks
    <3> QED BY <2>0, <3>2, RollingAssumption DEF Statuses, Tasks
  <2>2. CASE \E a \in Assets : AssetUnavailable(a) \/ AssetCorrected(a)
    BY <2>0, <2>2 DEF AssetUnavailable, AssetCorrected
  <2>3. CASE \E t \in Services, s \in ServiceStatus : ObservationRecorded(t, s)
    BY <2>0, <2>3, RollingAssumption DEF ObservationRecorded, Statuses, Tasks
  <2> QED BY <2>1, <2>2, <2>3 DEF ApplyEvent
<1>3. TypeOK'
  BY <1>1, <1>2 DEF RollingInv, TypeOK, plan
<1>4. NoDeadBundle' /\ Accounted' /\ DepartedOnlyFrozen'
  BY <1>1 DEF NoDeadBundle, Accounted, DepartedOnlyFrozen
<1>5. Assigned' = Assigned
  BY <1>1 DEF Assigned, plan
<1>6. ReservationsMatch'
  BY <1>1, <1>5 DEF RollingInv, ReservationsMatch, plan
<1>7. NoDoubleBooking => NoDoubleBooking'
  BY <1>1, <1>5 DEF NoDoubleBooking, plan
<1> QED BY <1>3, <1>4, <1>6, <1>7 DEF RollingInv

\* A revision keeps the invariant.
LEMMA ReplanKeepsRolling ==
    ASSUME RollingInv, NEW now \in 0..MaxTime, Replan(now)
    PROVE  RollingInv'
<1>0. TypeOK
  BY DEF RollingInv
<1>1. PICK f \in [Resolve(now) -> Bookings(now) \cup {None}],
           adm \in SUBSET (Resolve(now) \cap Demanding) :
        /\ ChainOutcome(f, adm, Resolve(now), Preserved(now), now)
        /\ asg' \in [Tasks -> AllBookings \cup {None}]
        /\ \A t \in Tasks : RevisionOf(t, f, now)
        /\ unassigned' = {t \in Resolve(now) : f[t] = None}
        /\ reserved' = Reservations(f, adm, now)
  BY <1>0, ReplanShape
<1> DEFINE A == Assembled(f, now)
<1>2. /\ status' = status /\ avail' = avail /\ planned' = TRUE /\ dirty' = FALSE
      /\ repairs' = RepairActions(now) /\ withdrawn' = WithdrawnServices
      /\ raised' = NewlyEscalated /\ reasons' = [t \in Services |-> status[t]]
  BY DEF Replan, data
<1>3. Current' = Current
  BY <1>2 DEF Current
<1>4. ASSUME NEW t \in Tasks
      PROVE /\ A \in [Tasks -> AllBookings \cup {None}]
            /\ t \in KeptFrozen(now) \cap Assigned => A[t] = [asg[t] EXCEPT !.frozen = TRUE]
            /\ t \in Carried(now) => A[t] = [asg[t] EXCEPT !.frozen = FALSE]
            /\ t \in Resolve(now) => A[t] = f[t]
            /\ t \notin (KeptFrozen(now) \cap Assigned) \cup Carried(now) \cup Resolve(now)
                 => A[t] = None
  BY <1>0, AssembledShape
<1>5. ASSUME NEW t \in Tasks PROVE RevisionOf(t, f, now)
  BY <1>1
<1>6. Assigned \subseteq Tasks /\ Carried(now) \subseteq Assigned \cap Current
  BY DEF Assigned, Carried
<1>7. ASSUME NEW t \in Assigned
      PROVE /\ asg[t] \in AllBookings /\ asg[t] # None
            /\ [asg[t] EXCEPT !.frozen = TRUE] # None
            /\ [asg[t] EXCEPT !.frozen = FALSE] # None
  BY <1>0, RollingAssumption DEF Assigned, TypeOK, AllBookings
<1>8. ASSUME NEW t \in Tasks
      PROVE asg'[t] # None <=> \/ t \in (KeptFrozen(now) \cap Assigned) \cup Carried(now)
                               \/ t \in Resolve(now) /\ f[t] # None
  <2> HIDE DEF A
  <2>1. Resolve(now) \cap (KeptFrozen(now) \cup Carried(now)) = {}
    BY DEF Resolve, Preserved
  <2>2. asg'[t] = None <=> A[t] = None
    BY <1>5 DEF RevisionOf, A
  <2> QED BY <2>1, <2>2, <1>4, <1>6, <1>7
<1>9. TypeOK'
  <2>1. unassigned' \subseteq Tasks
    BY <1>1 DEF Resolve, Current
  <2>2. reserved' \in [Tasks -> {"none", "confirmed", "released"}]
    BY <1>0, <1>1 DEF Reservations, TypeOK
  <2>3. repairs' \in [Tasks -> 0..2]
    BY <1>2 DEF RepairActions
  <2>4. withdrawn' \subseteq Services /\ raised' \subseteq Services
    BY <1>2 DEF WithdrawnServices, NewlyEscalated
  <2>5. reasons' \in [Services -> ServiceStatus]
    BY <1>0, <1>2 DEF TypeOK, Statuses, Tasks
  <2> QED BY <1>0, <1>1, <1>2, <2>1, <2>2, <2>3, <2>4, <2>5 DEF TypeOK
<1>10. NoDeadBundle'
  <2> SUFFICES ASSUME NEW t \in Tasks, t \in Current, asg'[t] # None
               PROVE  asg'[t].vehicle \in avail /\ asg'[t].implement \in avail
    BY <1>2, <1>3 DEF NoDeadBundle, Whole, Assigned
  <2>1. asg'[t].vehicle = A[t].vehicle /\ asg'[t].implement = A[t].implement
    BY <1>5 DEF RevisionOf
  <2>2. CASE t \in KeptFrozen(now) \cap Assigned
    <3>1. ~Lost(t)
      BY <2>2 DEF KeptFrozen, Released
    <3> QED BY <3>1, <2>1, <2>2, <1>4, <1>7 DEF Lost, BundleAssets, AllBookings
  <2>3. CASE t \in Carried(now)
    <3>1. ~Lost(t)
      BY <2>3 DEF Carried
    <3> QED BY <3>1, <2>1, <2>3, <1>4, <1>6, <1>7 DEF Lost, BundleAssets, AllBookings
  <2>4. CASE t \in Resolve(now) /\ f[t] # None
    <3>1. A[t] \in Bookings(now)
      BY <2>4, <1>4
    <3> QED BY <3>1, <2>1 DEF Bookings
  <2> QED BY <2>2, <2>3, <2>4, <1>8
<1>11. Accounted'
  <2>1. unassigned' \subseteq Current'
    BY <1>1, <1>3 DEF Resolve
  <2>2. unassigned' \cap Assigned' = {}
    <3> SUFFICES ASSUME NEW t \in unassigned' PROVE asg'[t] = None
      BY DEF Assigned
    <3>1. t \in Tasks /\ t \in Resolve(now) /\ f[t] = None
      BY <1>1 DEF Resolve, Current
    <3>2. t \notin KeptFrozen(now) \cup Carried(now)
      BY <3>1 DEF Resolve, Preserved
    <3> QED BY <3>1, <3>2, <1>8
  <2>3. ASSUME NEW t \in Current, status[t] # "started"
        PROVE t \in Assigned' \cup unassigned'
    <3>0. t \in Tasks
      BY DEF Current
    <3>1. CASE t \in Resolve(now)
      BY <3>0, <3>1, <1>1, <1>8 DEF Assigned
    <3>2. CASE t \in Carried(now)
      BY <3>0, <3>2, <1>8 DEF Assigned
    <3>3. CASE t \in KeptFrozen(now)
      <4>1. t \in Assigned
        BY <2>3, <3>3 DEF KeptFrozen, Frozen
      <4> QED BY <3>0, <3>3, <4>1, <1>8 DEF Assigned
    <3> QED BY <3>1, <3>2, <3>3 DEF Resolve, Preserved
  <2> QED BY <2>1, <2>2, <2>3, <1>2, <1>3 DEF Accounted
<1>12. ReservationsMatch'
  <2> SUFFICES ASSUME NEW t \in Tasks
               PROVE  reserved'[t] = "confirmed" <=> asg'[t] # None /\ t \in Demanding
    BY DEF ReservationsMatch, Assigned
  <2>1. CASE t \in Preserved(now)
    <3>1. reserved'[t] = reserved[t]
      BY <2>1, <1>1 DEF Reservations
    <3>2. t \notin Resolve(now)
      BY <2>1 DEF Resolve
    <3>3. asg'[t] # None <=> t \in Assigned
      BY <2>1, <3>2, <1>6, <1>8 DEF Preserved
    <3> QED BY <3>1, <3>3 DEF RollingInv, ReservationsMatch
  <2>2. CASE t \notin Preserved(now)
    <3>1. reserved'[t] = "confirmed" <=> t \in adm /\ f[t] # None
      BY <2>2, <1>1 DEF Reservations
    <3>2. t \in adm => t \in Resolve(now) /\ t \in Demanding
      OBVIOUS
    <3>3. t \in Resolve(now) /\ f[t] # None /\ t \in Demanding => t \in adm
      BY <1>1 DEF ChainOutcome
    <3>4. asg'[t] # None <=> t \in Resolve(now) /\ f[t] # None
      BY <2>2, <1>8 DEF Preserved
    <3> QED BY <3>1, <3>2, <3>3, <3>4
  <2> QED BY <2>1, <2>2
<1>13. DepartedOnlyFrozen'
  <2> SUFFICES ASSUME NEW t \in Tasks, asg'[t] # None, t \notin Current
               PROVE  asg'[t].frozen
    BY <1>2, <1>3 DEF DepartedOnlyFrozen, Assigned
  <2>1. t \in KeptFrozen(now) \cap Assigned
    BY <1>6, <1>8 DEF Resolve
  <2>2. asg'[t].frozen = A[t].frozen
    BY <1>5 DEF RevisionOf
  <2>3. A[t] = [asg[t] EXCEPT !.frozen = TRUE] /\ asg[t] \in AllBookings
    BY <2>1, <1>4, <1>7
  <2> HIDE DEF A
  <2> QED BY <2>2, <2>3 DEF AllBookings
<1> QED BY <1>9, <1>10, <1>11, <1>12, <1>13 DEF RollingInv

\* Before the airspace pass no two tasks share an implement or an operator at
\* one time: preserved work keeps its windows, re-solved work is clear of them
\* and of itself.
LEMMA AssembledSerialised ==
    ASSUME TypeOK, NEW now \in 0..MaxTime,
           NEW f \in [Resolve(now) -> Bookings(now) \cup {None}],
           NEW adm \in SUBSET (Resolve(now) \cap Demanding),
           ChainOutcome(f, adm, Resolve(now), Preserved(now), now),
           NEW t \in Tasks, NEW u \in Tasks, t # u,
           t \in Assigned /\ u \in Assigned => Serialised(asg[t], asg[u]),
           Assembled(f, now)[t] # None, Assembled(f, now)[u] # None
    PROVE  Serialised(Assembled(f, now)[t], Assembled(f, now)[u])
<1> DEFINE A == Assembled(f, now)
           Kept == (KeptFrozen(now) \cap Assigned) \cup Carried(now)
<1>2. ASSUME NEW v \in Tasks, A[v] # None
      PROVE \/ /\ v \in Assigned /\ v \in Preserved(now)
               /\ \E b \in BOOLEAN : A[v] = [asg[v] EXCEPT !.frozen = b]
            \/ v \in Resolve(now) /\ A[v] = f[v] /\ f[v] # None
  <2>2. Carried(now) \subseteq Assigned
    BY DEF Carried
  <2>3. /\ v \in KeptFrozen(now) \cap Assigned => A[v] = [asg[v] EXCEPT !.frozen = TRUE]
        /\ v \in Carried(now) => A[v] = [asg[v] EXCEPT !.frozen = FALSE]
        /\ v \in Resolve(now) => A[v] = f[v]
        /\ v \notin (KeptFrozen(now) \cap Assigned) \cup Carried(now) \cup Resolve(now)
             => A[v] = None
    BY AssembledShape
  <2> HIDE DEF A
  <2>5. CASE v \in KeptFrozen(now) \cap Assigned
    BY <2>3, <2>5 DEF Preserved
  <2>6. CASE v \in Carried(now)
    BY <2>2, <2>3, <2>6 DEF Preserved
  <2>7. CASE v \in Resolve(now)
    BY <1>2, <2>3, <2>7
  <2> QED BY <1>2, <2>3, <2>5, <2>6, <2>7
<1>3. ASSUME NEW v \in Assigned, NEW b \in BOOLEAN
      PROVE /\ asg[v] \in AllBookings
            /\ [asg[v] EXCEPT !.frozen = b].start = asg[v].start
            /\ [asg[v] EXCEPT !.frozen = b].finish = asg[v].finish
            /\ [asg[v] EXCEPT !.frozen = b].vehicle = asg[v].vehicle
            /\ [asg[v] EXCEPT !.frozen = b].implement = asg[v].implement
            /\ [asg[v] EXCEPT !.frozen = b].operator = asg[v].operator
  BY DEF TypeOK, Assigned, AllBookings
<1>4. ASSUME NEW v \in Resolve(now), NEW w \in Assigned, w \in Preserved(now), f[v] # None
      PROVE Serialised(f[v], asg[w]) /\ Serialised(asg[w], f[v])
  <2>1. ClearOf(f[v], asg[w])
    BY <1>4 DEF ChainOutcome, Assigned
  <2> QED BY <2>1 DEF ClearOf, Serialised, SameOperator, Overlaps
<1>7. A[t] # None /\ A[u] # None
  OBVIOUS
<1> SUFFICES Serialised(A[t], A[u])
  OBVIOUS
<1> HIDE DEF A
<1>5. CASE t \in Resolve(now) /\ A[t] = f[t] /\ f[t] # None
  <2>1. CASE u \in Resolve(now) /\ A[u] = f[u] /\ f[u] # None
    BY <1>5, <2>1 DEF ChainOutcome
  <2>2. CASE /\ u \in Assigned /\ u \in Preserved(now)
             /\ \E b \in BOOLEAN : A[u] = [asg[u] EXCEPT !.frozen = b]
    <3>1. Serialised(f[t], asg[u])
      BY <1>4, <1>5, <2>2
    <3> QED BY <3>1, <1>3, <1>5, <2>2 DEF Serialised, SameOperator, Overlaps
  <2> QED BY <1>2, <1>7, <2>1, <2>2
<1>6. CASE /\ t \in Assigned /\ t \in Preserved(now)
           /\ \E b \in BOOLEAN : A[t] = [asg[t] EXCEPT !.frozen = b]
  <2>1. CASE u \in Resolve(now) /\ A[u] = f[u] /\ f[u] # None
    <3>1. Serialised(asg[t], f[u])
      BY <1>4, <1>6, <2>1
    <3> QED BY <3>1, <1>3, <1>6, <2>1 DEF Serialised, SameOperator, Overlaps
  <2>2. CASE /\ u \in Assigned /\ u \in Preserved(now)
             /\ \E b \in BOOLEAN : A[u] = [asg[u] EXCEPT !.frozen = b]
    BY <1>3, <1>6, <2>2 DEF Serialised, SameOperator, Overlaps
  <2> QED BY <1>2, <1>7, <2>1, <2>2
<1> QED BY <1>2, <1>5, <1>6, <1>7

\* A hold is a delay behind an overlapping flight, so of two bookings that
\* share an implement or an operator only a third flight can delay one.
LEMMA HoldsKeepSerial ==
    ASSUME NEW A \in [Tasks -> AllBookings \cup {None}], NEW h \in HoldsOf(A),
           NEW t \in Tasks, NEW u \in Tasks, t # u,
           Aerial \subseteq {t, u} \/ Aerial \cap {t, u} = {},
           A[t] # None, A[u] # None, Serialised(A[t], A[u])
    PROVE  Serialised(Retimed(A, h)[t], Retimed(A, h)[u])
<1>1. ASSUME NEW v \in Tasks, A[v] # None
      PROVE /\ Retimed(A, h)[v].implement = A[v].implement
            /\ Retimed(A, h)[v].operator = A[v].operator
            /\ h[v] = 0 => Retimed(A, h)[v] = A[v]
            /\ v \notin Aerial => h[v] = 0
  BY <1>1, RetimedShape
<1>2. ASSUME ~(h[t] = 0 /\ h[u] = 0) PROVE Overlaps(A[t], A[u])
  <2>1. h \in [Tasks -> Nat]
    BY RollingAssumption DEF HoldsOf
  <2>2. Aerial \subseteq {t, u}
    BY <1>1, <1>2
  <2>3. ASSUME NEW v \in {t, u}, h[v] # 0
        PROVE  \E w \in Flights(A) \ {v} : Overlaps(A[w], A[v])
    BY <2>1, <2>3 DEF HoldsOf
  <2> QED BY <1>2, <2>2, <2>3 DEF Flights, Overlaps
<1> QED BY <1>1, <1>2 DEF Serialised, SameOperator

\* A revision keeps the booking windows of implements and operators apart.
LEMMA ReplanSerialises ==
    ASSUME TypeOK, NoDoubleBooking, NEW now \in 0..MaxTime, Replan(now)
    PROVE  NoDoubleBooking'
<1>1. PICK f \in [Resolve(now) -> Bookings(now) \cup {None}],
           adm \in SUBSET (Resolve(now) \cap Demanding) :
        /\ ChainOutcome(f, adm, Resolve(now), Preserved(now), now)
        /\ \E h \in HoldsOf(Assembled(f, now)) : asg' = Retimed(Assembled(f, now), h)
  BY DEF Replan
<1>2. PICK h \in HoldsOf(Assembled(f, now)) : asg' = Retimed(Assembled(f, now), h)
  BY <1>1
<1> SUFFICES ASSUME NEW t \in Tasks, NEW u \in Tasks, t # u,
                    Aerial \subseteq {t, u} \/ Aerial \cap {t, u} = {},
                    asg'[t] # None, asg'[u] # None
             PROVE  Serialised(asg'[t], asg'[u])
  BY DEF NoDoubleBooking, Assigned
<1>3. Assembled(f, now) \in [Tasks -> AllBookings \cup {None}]
  BY AssembledShape
<1>4. Assembled(f, now)[t] # None /\ Assembled(f, now)[u] # None
  BY <1>2, <1>3, RetimedShape
<1>5. t \in Assigned /\ u \in Assigned => Serialised(asg[t], asg[u])
  BY DEF NoDoubleBooking
<1>6. Serialised(Assembled(f, now)[t], Assembled(f, now)[u])
  BY <1>1, <1>4, <1>5, AssembledSerialised
<1> QED BY <1>2, <1>3, <1>4, <1>6, HoldsKeepSerial

\* A revision marks started work frozen and changes nothing else of it.
LEMMA StartedStays ==
    ASSUME TypeOK, NEW now \in 0..MaxTime, Replan(now),
           NEW t \in Tasks, t \in Assigned, status[t] = "started", Whole(t)
    PROVE  Unmoved(t)
<1>1. PICK f \in [Resolve(now) -> Bookings(now) \cup {None}] : RevisionOf(t, f, now)
  BY ReplanShape
<1>2. t \in KeptFrozen(now) \cap Assigned
  BY DEF KeptFrozen, Frozen, Released, Lost, BundleAssets, Whole, Current
<1> DEFINE b == [asg[t] EXCEPT !.frozen = TRUE]
<1>3. Assembled(f, now)[t] = b
  <2> DEFINE A == Assembled(f, now)
  <2>1. /\ t \in KeptFrozen(now) \cap Assigned => A[t] = [asg[t] EXCEPT !.frozen = TRUE]
        /\ t \in Carried(now) => A[t] = [asg[t] EXCEPT !.frozen = FALSE]
    BY AssembledShape
  <2> HIDE DEF A
  <2> QED BY <1>2, <2>1 DEF A
<1>4. b.frozen = TRUE /\ b # None
  BY RollingAssumption DEF Assigned, TypeOK, AllBookings
<1> HIDE DEF b
<1>5. asg'[t] = b /\ asg'[t] # None /\ asg'[t].frozen = TRUE
  BY <1>1, <1>3, <1>4 DEF RevisionOf
<1> QED BY <1>5 DEF Unmoved, b

\* A revision that finds a task current, whole and not escalated keeps its
\* assignment, or the airspace pass delays it.
LEMMA MoveExplained ==
    ASSUME TypeOK, NEW now \in 0..MaxTime, Replan(now),
           NEW t \in Tasks, t \in Assigned, t \in Current
    PROVE  Unmoved(t) \/ HeldBack(t) \/ ~Whole(t) \/ status[t] = "escalated"
<1> SUFFICES ASSUME Whole(t), status[t] # "escalated"
             PROVE  Unmoved(t) \/ HeldBack(t)
  OBVIOUS
<1>0. PICK f \in [Resolve(now) -> Bookings(now) \cup {None}] :
             \E h \in HoldsOf(Assembled(f, now)) : asg' = Retimed(Assembled(f, now), h)
  BY DEF Replan
<1>1. PICK h \in HoldsOf(Assembled(f, now)) : asg' = Retimed(Assembled(f, now), h)
  BY <1>0
<1> DEFINE A == Assembled(f, now)
<1>2. /\ A \in [Tasks -> AllBookings \cup {None}]
      /\ t \in KeptFrozen(now) \cap Assigned => A[t] = [asg[t] EXCEPT !.frozen = TRUE]
      /\ t \in Carried(now) => A[t] = [asg[t] EXCEPT !.frozen = FALSE]
  BY AssembledShape
<1>3. t \in KeptFrozen(now) \/ (t \in Carried(now) /\ status[t] # "started")
  <2>1. ~Lost(t) /\ t \notin ForceResolve
    BY DEF Lost, BundleAssets, Whole, ForceResolve
  <2>2. status[t] = "started" => t \in Frozen(now)
    BY DEF Frozen
  <2>3. t \in Frozen(now) => t \in KeptFrozen(now)
    BY <2>1 DEF KeptFrozen, Released
  <2>4. t \in KeptFrozen(now) \/ t \in Carried(now)
    BY <2>1, Zenon DEF Carried
  <2> QED BY <2>2, <2>3, <2>4
<1>4. /\ asg[t] \in AllBookings /\ h \in [Tasks -> 0..MaxHold]
      /\ [asg[t] EXCEPT !.frozen = TRUE] # None /\ [asg[t] EXCEPT !.frozen = TRUE].frozen = TRUE
      /\ [asg[t] EXCEPT !.frozen = FALSE] # None /\ [asg[t] EXCEPT !.frozen = FALSE].frozen = FALSE
  BY RollingAssumption DEF Assigned, TypeOK, AllBookings, HoldsOf
<1> HIDE DEF A
<1>5. \A v \in Tasks : Retimed(A, h)[v] = None <=> A[v] = None
  BY <1>1, <1>2, RetimedShape DEF A
<1>6. A[t] # None => /\ h[t] = 0 => asg'[t] = A[t]
                     /\ A[t].frozen \/ t \notin Aerial => h[t] = 0
  BY <1>1, <1>2, RetimedShape DEF A
<1>7. CASE t \in KeptFrozen(now)
  BY <1>2, <1>4, <1>6, <1>7 DEF Unmoved
<1>8. CASE t \in Carried(now) /\ status[t] # "started" /\ h[t] = 0
  BY <1>2, <1>4, <1>6, <1>8 DEF Unmoved
<1>9. CASE t \in Carried(now) /\ status[t] # "started" /\ h[t] # 0
  <2>1. h[t] \in 1..MaxHold /\ t \in Aerial
    BY <1>2, <1>4, <1>6, <1>9, RollingAssumption
  <2>2. \E u \in Flights(A) \ {t} : TRUE
    BY <1>1, <2>1 DEF HoldsOf, A
  <2>3. \E u \in (Aerial \cap Current) \ {t} : asg'[u] # None
    BY <1>1, <1>5, <2>2 DEF Flights, Tasks, Current, A
  <2>4. asg'[t] = [A[t] EXCEPT !.start = @ + h[t], !.finish = @ + h[t]]
    BY <1>1, <1>2, <1>4, <1>9 DEF Retimed, A
  <2>5. asg'[t] = [asg[t] EXCEPT !.start = @ + h[t], !.finish = @ + h[t], !.frozen = FALSE]
    BY <1>2, <1>4, <1>9, <2>4 DEF AllBookings
  <2> QED BY <1>9, <2>1, <2>3, <2>5 DEF HeldBack
<1> QED BY <1>3, <1>7, <1>8, <1>9

-----------------------------------------------------------------------------
(* Theorems *)

\* RollingInv holds in every state of the rolling re-planner.
THEOREM RollingInvariant == Spec => []RollingInv
<1>1. Init => RollingInv
  BY InitRolling
<1>2. RollingInv /\ [Next]_vars => RollingInv'
  <2> SUFFICES ASSUME RollingInv, [Next]_vars PROVE RollingInv'
    OBVIOUS
  <2>1. CASE ApplyEvent
    BY <2>1, EventKeepsRolling
  <2>2. CASE \E now \in 0..MaxTime : Replan(now)
    BY <2>2, ReplanKeepsRolling
  <2>3. CASE UNCHANGED vars
    BY <2>3 DEF vars, data, plan, RollingInv, TypeOK, NoDeadBundle, Whole, Accounted,
       ReservationsMatch, DepartedOnlyFrozen, Assigned, Current
  <2> QED BY <2>1, <2>2, <2>3 DEF Next
<1> QED BY <1>1, <1>2, PTL DEF Spec

\* Type correctness of the re-planner.
THEOREM RollingTypeCorrect == Spec => []TypeOK
<1>1. RollingInv => TypeOK
  BY DEF RollingInv
<1> QED BY <1>1, RollingInvariant, PTL

\* A revision binds no current task to a vehicle or an implement that is
\* gone (release_lost_asset_assignments, _carried_forward_assignments).
THEOREM BundlesAlive == Spec => []NoDeadBundle
<1>1. RollingInv => NoDeadBundle
  BY DEF RollingInv
<1> QED BY <1>1, RollingInvariant, PTL

\* Every current task that has not started is assigned or reported, never
\* both (compile_rolling_state's partition).
THEOREM TasksAccounted == Spec => []Accounted
<1>1. RollingInv => Accounted
  BY DEF RollingInv
<1> QED BY <1>1, RollingInvariant, PTL

\* Material reservations follow the assignments through freezing, carrying
\* and re-solving (finalize_material_reservations).
THEOREM ReservationsFollow == Spec => []ReservationsMatch
<1>1. RollingInv => ReservationsMatch
  BY DEF RollingInv
<1> QED BY <1>1, RollingInvariant, PTL

\* No implement and no operator is ever booked twice, a third flight's delay
\* apart: held windows reach every re-solve (_held_asset_windows).
THEOREM NoDoubleBooked == Spec => []NoDoubleBooking
<1>1. Init => NoDoubleBooking
  BY InitRolling
<1>2. RollingInv /\ NoDoubleBooking /\ [Next]_vars => NoDoubleBooking'
  <2> SUFFICES ASSUME RollingInv, NoDoubleBooking, [Next]_vars PROVE NoDoubleBooking'
    OBVIOUS
  <2>1. CASE ApplyEvent
    BY <2>1, EventKeepsRolling
  <2>2. CASE \E now \in 0..MaxTime : Replan(now)
    BY <2>2, ReplanSerialises DEF RollingInv
  <2>3. CASE UNCHANGED vars
    BY <2>3 DEF vars, plan, NoDoubleBooking, Assigned
  <2> QED BY <2>1, <2>2, <2>3 DEF Next
<1> QED BY <1>1, <1>2, RollingInvariant, PTL DEF Spec

\* What a revision books can be driven: no implement or operator is wanted
\* twice, no vehicle or implement is gone.
THEOREM BookingsAreSound == Spec => []BookingsSound
<1>1. NoDeadBundle /\ NoDoubleBooking => BookingsSound
  BY DEF BookingsSound
<1> QED BY <1>1, BundlesAlive, NoDoubleBooked, PTL

\* Every task is planned or reported, a departed one at most frozen, and
\* exactly the planned demands hold material.
THEOREM TasksAreSettled == Spec => []TasksSettled
<1>1. RollingInv => TasksSettled
  BY DEF RollingInv, TasksSettled
<1> QED BY <1>1, RollingInvariant, PTL

\* Started work that keeps its vehicle and implement is never moved or
\* dropped, also not by an airspace hold (frozen_task_ids, is_frozen).
THEOREM StartedNeverMoved == Spec => StartedKept
<1>1. RollingInv /\ [Next]_vars =>
        [\A t \in Assigned : status[t] = "started" /\ Whole(t) => Unmoved(t)]_vars
  <2> SUFFICES ASSUME RollingInv, [Next]_vars, ~UNCHANGED vars,
                      NEW t \in Assigned, status[t] = "started", Whole(t)
               PROVE  Unmoved(t)
    OBVIOUS
  <2>0. TypeOK /\ t \in Tasks /\ asg[t] \in AllBookings /\ asg[t] # None
    BY DEF RollingInv, TypeOK, Assigned
  <2>1. CASE ApplyEvent
    <3>1. asg' = asg
      BY <2>1 DEF ApplyEvent, plan
    <3> QED BY <3>1, <2>0 DEF Unmoved, AllBookings
  <2>2. CASE \E now \in 0..MaxTime : Replan(now)
    BY <2>0, <2>2, StartedStays
  <2> QED BY <2>1, <2>2 DEF Next
<1> QED BY <1>1, RollingInvariant, PTL DEF Spec, StartedKept

\* Every move has its reason and every loss of an asset is on record
\* (release_lost_asset_assignments, carried_asset_loss_actions, airspace.py).
THEOREM MovesAreExplained == Spec => MovesExplained
<1> DEFINE Reason(t) == Unmoved(t) \/ HeldBack(t) \/ ~Whole(t) \/ status[t] = "escalated"
           Record(t) == repairs'[t] > 0 <=> t \in Assigned \cap Current /\ ~Whole(t)
<1>1. RollingInv /\ [Next]_vars => [\A t \in Assigned \cap Current : Reason(t)]_vars
  <2> SUFFICES ASSUME RollingInv, [Next]_vars, ~UNCHANGED vars,
                      NEW t \in Assigned \cap Current
               PROVE  Reason(t)
    OBVIOUS
  <2>0. TypeOK /\ t \in Tasks /\ asg[t] \in AllBookings /\ asg[t] # None
    BY DEF RollingInv, TypeOK, Assigned
  <2>1. CASE ApplyEvent
    <3>1. asg' = asg
      BY <2>1 DEF ApplyEvent, plan
    <3> QED BY <3>1, <2>0 DEF Unmoved, AllBookings
  <2>2. CASE \E now \in 0..MaxTime : Replan(now)
    BY <2>0, <2>2, MoveExplained
  <2> QED BY <2>1, <2>2 DEF Next
<1>2. [Next]_vars => [~dirty' /\ dirty => \A t \in Tasks : Record(t)]_vars
  <2> SUFFICES ASSUME [Next]_vars, ~UNCHANGED vars, ~dirty', dirty, NEW t \in Tasks
               PROVE  Record(t)
    OBVIOUS
  <2>1. PICK now \in 0..MaxTime : Replan(now)
    BY DEF Next, ApplyEvent
  <2>2. repairs'[t] > 0 <=> t \in Released(now) \/ t \in CarriedLosses(now)
    BY <2>1 DEF Replan, RepairActions
  <2>3. ~Whole(t) <=> Lost(t)
    BY DEF Whole, Lost, BundleAssets
  <2> QED BY <2>2, <2>3 DEF Released, CarriedLosses, KeptFrozen
<1>3. RollingInv /\ [Next]_vars =>
        [/\ \A t \in Assigned \cap Current : Reason(t)
         /\ ~dirty' /\ dirty => \A t \in Tasks : Record(t)]_vars
  BY <1>1, <1>2
<1> QED BY <1>3, RollingInvariant, PTL DEF Spec, MovesExplained

=============================================================================
