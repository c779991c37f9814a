-------------------------- MODULE SolverChainProofs --------------------------
(***************************************************************************)
(* Proofs about SolverChain for every planning input, every choice of the  *)
(* filters and of the routing, and every pool outcome: precedence is kept, *)
(* tasks and alternatives are accounted for, and reservations match the    *)
(* dispatch.                                                               *)
(***************************************************************************)
EXTENDS SolverChain, FiniteSetTheorems, WellFoundedInduction, TLAPS

-----------------------------------------------------------------------------
(* The inductive invariant *)

Filtering == pc \in {"weather", "window", "restriction", "dependency"}

BeforeClusters == Filtering \/ pc = "cluster"

BeforePool == BeforeClusters \/ pc \in {"operators", "material"}

Settled == pc \in {"collapse", "reserve", "done"}

\* What each stage has, and what it has not yet touched.
StageSound ==
    /\ BeforeClusters => live = {} /\ uncharged = {} /\ \A t \in Tasks : res[t] = "none"
    /\ BeforePool => unsolved = {} /\ lost = {} /\ out = {}
    /\ pc = "operators" => uncharged = {} /\ \A t \in Tasks : res[t] = "none"
    /\ pc \notin {"operators", "material"} => uncharged = {}
    /\ pc # "pool" => unsolved = {}
    /\ pc # "done" => \A t \in Tasks : res[t] \in {"none", "provisional"}

\* Clusters hold tasks that passed the filters, alternatives together; what
\* is dispatched came from a cluster whose result is in.
ClusterSound ==
    /\ live \subseteq kept \cap inp.sited
    /\ ~BeforeClusters => \A t \in kept \cap inp.sited :
        /\ cluster[t] \in Clusters
        /\ \A u \in kept \cap inp.sited :
            (inp.alt[t] # NoGroup /\ inp.alt[t] = inp.alt[u]) => cluster[t] = cluster[u]
    /\ out \subseteq live
    /\ \A t \in out : cluster[t] \notin unsolved \cup lost
    /\ unsolved \cap lost = {}

PrecedenceSound ==
    /\ ~Filtering => Orphans = {}
    /\ Settled => Violating = {}

\* A task is charged exactly when it is in a cluster and consumes material.
MaterialSound ==
    /\ uncharged \subseteq live
    /\ \A t \in uncharged : inp.need[t] > 0 /\ res[t] = "none"
    /\ pc # "done" => \A t \in Tasks :
        res[t] = "provisional" => t \in live /\ inp.need[t] > 0
    /\ ~BeforeClusters /\ pc \notin {"operators", "done"} => \A t \in live \ uncharged :
        inp.need[t] > 0 => res[t] = "provisional"
    /\ ReservationsMatch

\* Nothing is decided about t, or it is forgotten.
Open(t) ==
    /\ t \in kept
    /\ \/ BeforeClusters
       \/ t \notin inp.sited
       \/ t \in live /\ (BeforePool \/ cluster[t] \in unsolved \cup lost)

RecordSound ==
    \A t \in Tasks : inp.alt[t] = NoGroup =>
        IF Open(t) \/ t \in out THEN records[t] = 0 ELSE records[t] > 0

\* A variant that is decided and not dispatched has left a record of its own
\* or of its group, unless a sibling is dispatched.
GroupSound ==
    /\ \A g \in Groups : \A t, u \in Variants(g) \cap out : t = u
    /\ pc \notin {"reserve", "done"} => \A g \in Groups : \A t \in Variants(g) :
        (~Open(t) /\ Variants(g) \cap out = {}) => \E l \in Variants(g) \cup {g} : records[l] > 0
    /\ pc \in {"reserve", "done"} => \A g \in Groups :
        /\ \A t \in Variants(g) : records[t] = 0
        /\ Variants(g) \cap out # {} => records[g] = 0
        /\ \A t \in Variants(g) : (~Open(t) /\ Variants(g) \cap out = {}) => records[g] = 1

ChainInv ==
    /\ TypeOK /\ StageSound /\ ClusterSound /\ PrecedenceSound
    /\ MaterialSound /\ RecordSound /\ GroupSound

-----------------------------------------------------------------------------
(* Facts the steps share *)

LEMMA InputFacts ==
    ASSUME TypeOK
    PROVE  /\ \A t \in Tasks : inp.need[t] \in Nat /\ inp.alt[t] \in Groups \cup {NoGroup}
           /\ \A t \in Tasks : inp.pred[t] \in Tasks \cup {NoTask}
           /\ inp.sited \subseteq Tasks
BY ChainAssumption DEF TypeOK, InputType

LEMMA RecordFacts ==
    ASSUME TypeOK, NEW L, L \subseteq Labels, Record(L)
    PROVE  /\ records' \in [Labels -> Nat]
           /\ \A l \in L : records'[l] > 0
           /\ \A l \in Labels : l \notin L => records'[l] = records[l]
           /\ \A l \in Labels : records[l] > 0 => records'[l] > 0
BY DEF Record, TypeOK

LEMMA InitChain == Init => ChainInv
<1> SUFFICES ASSUME Init PROVE ChainInv
  OBVIOUS
<1> USE DEF Init, BeforeClusters, BeforePool, Filtering, Settled
<1>1. TypeOK
  BY ChainAssumption DEF TypeOK, Stages
<1>2. StageSound /\ ClusterSound /\ PrecedenceSound
  BY DEF StageSound, ClusterSound, PrecedenceSound
<1>3. MaterialSound
  BY DEF MaterialSound, ReservationsMatch
<1>4. \A t \in Tasks : Open(t) /\ records[t] = 0
  BY DEF Open, Labels
<1>5. RecordSound
  BY <1>4 DEF RecordSound
<1>6. GroupSound
  BY <1>4 DEF GroupSound, Variants
<1> QED BY <1>1, <1>2, <1>3, <1>5, <1>6 DEF ChainInv

\* A filter drops the orders S with a record each, before there are clusters.
LEMMA DropStep ==
    ASSUME ChainInv, Filtering, NEW S, S \subseteq kept, kept' = kept \ S, Record(S),
           pc' \in {"weather", "window", "restriction", "dependency"},
           UNCHANGED <<inp, cluster, live, uncharged, remaining, res, unsolved, lost, out>>
    PROVE  ChainInv'
<1> USE DEF ChainInv, BeforeClusters, BeforePool, Filtering, Settled
<1>1. /\ S \subseteq Labels /\ kept \subseteq Tasks /\ Tasks \subseteq Labels
      /\ live = {} /\ out = {} /\ uncharged = {}
      /\ BeforeClusters /\ BeforeClusters'
  BY DEF TypeOK, Labels, StageSound
<1>2. /\ records' \in [Labels -> Nat]
      /\ \A l \in S : records'[l] > 0
      /\ \A l \in Labels : l \notin S => records'[l] = records[l]
      /\ \A l \in Labels : records[l] > 0 => records'[l] > 0
  BY <1>1, RecordFacts
<1>3. TypeOK'
  BY <1>1, <1>2 DEF TypeOK, Stages
<1>4. StageSound' /\ ClusterSound' /\ PrecedenceSound'
  BY <1>1 DEF StageSound, ClusterSound, PrecedenceSound
<1>5. MaterialSound'
  BY <1>1 DEF MaterialSound, ReservationsMatch
<1>6. \A t \in Tasks : /\ Open(t) <=> t \in kept
                       /\ Open(t)' <=> t \in kept \ S
  BY <1>1 DEF Open
<1>7. RecordSound'
  BY <1>1, <1>2, <1>6 DEF RecordSound
<1>8. GroupSound'
  <2> SUFFICES ASSUME NEW g \in Groups, NEW t \in Variants(g), ~Open(t)'
               PROVE  \E l \in Variants(g) \cup {g} : records'[l] > 0
    BY <1>1 DEF GroupSound, Variants
  <2>1. t \in Tasks /\ Variants(g) \cup {g} \subseteq Labels
    BY DEF Variants, Labels
  <2>2. CASE t \in S
    BY <1>2, <2>2
  <2>3. CASE t \notin S
    <3>1. ~Open(t)
      BY <1>6, <2>1, <2>3
    <3>2. \E l \in Variants(g) \cup {g} : records[l] > 0
      BY <1>1, <3>1 DEF GroupSound
    <3> QED BY <1>2, <2>1, <3>2
  <2> QED BY <2>2, <2>3
<1> QED BY <1>3, <1>4, <1>5, <1>7, <1>8

LEMMA FilteringSteps ==
    ASSUME ChainInv, FilterStep PROVE ChainInv'
<1>1. ASSUME NEW S \in SUBSET kept,
             ApplyWeatherFilter(S) \/ ApplyTimeWindowFilter(S) \/ ApplyLocationRestrictions(S)
      PROVE  ChainInv'
  BY <1>1, DropStep
  DEF ApplyWeatherFilter, ApplyTimeWindowFilter, ApplyLocationRestrictions, Filter, Filtering
<1>2. ASSUME NEW t \in kept, ExcludeDependent(t) PROVE ChainInv'
  BY <1>2, DropStep DEF ExcludeDependent, Filtering
<1>3. CASE EndDependency
  <2> USE DEF ChainInv, BeforeClusters, BeforePool, Filtering, Settled
  <2>1. /\ pc = "dependency" /\ pc' = "cluster" /\ Orphans = {} /\ UNCHANGED records
        /\ UNCHANGED <<inp, kept, cluster, live, uncharged, remaining, res, unsolved, lost, out>>
    BY <1>3 DEF EndDependency
  <2>2. TypeOK'
    BY <2>1 DEF TypeOK, Stages
  <2>3. StageSound' /\ ClusterSound'
    BY <2>1 DEF StageSound, ClusterSound
  <2>4. PrecedenceSound'
    BY <2>1 DEF PrecedenceSound, Orphans
  <2>5. MaterialSound'
    BY <2>1 DEF MaterialSound, ReservationsMatch
  <2>6. \A t \in Tasks : Open(t)' <=> Open(t)
    BY <2>1 DEF Open
  <2>7. RecordSound'
    BY <2>1, <2>6 DEF RecordSound
  <2>8. \A g : Variants(g)' = Variants(g)
    BY <2>1 DEF Variants
  <2>9. GroupSound'
    BY <2>1, <2>6, <2>8 DEF GroupSound, Variants
  <2> QED BY <2>2, <2>3, <2>4, <2>5, <2>7, <2>9
<1> QED BY <1>1, <1>2, <1>3 DEF FilterStep

-----------------------------------------------------------------------------
(* Clustering and admission *)

\* A clustering keeps alternatives in one cluster.
LEMMA ClusteringFacts ==
    ASSUME TypeOK, NEW f \in Clusterings
    PROVE  \A t \in kept \cap inp.sited :
              /\ f[t] \in Clusters
              /\ \A u \in kept \cap inp.sited :
                    (inp.alt[t] # NoGroup /\ inp.alt[t] = inp.alt[u]) => f[t] = f[u]
<1> SUFFICES ASSUME NEW t \in kept \cap inp.sited
             PROVE  /\ f[t] \in Clusters
                    /\ \A u \in kept \cap inp.sited :
                        (inp.alt[t] # NoGroup /\ inp.alt[t] = inp.alt[u]) => f[t] = f[u]
  OBVIOUS
<1>1. t \in Tasks /\ f[t] \in Clusters
  BY DEF Clusterings, TypeOK
<1>2. ASSUME NEW u \in kept \cap inp.sited, inp.alt[t] # NoGroup, inp.alt[t] = inp.alt[u]
      PROVE  f[t] = f[u]
  <2>1. Together(t, u)
    BY <1>2 DEF Together
  <2>2. u \in UnitOf(t)
    BY <2>1 DEF UnitOf
  <2> QED BY <2>2 DEF Clusterings
<1> QED BY <1>1, <1>2

LEMMA ClusterStep ==
    ASSUME ChainInv, NEW f \in [Tasks -> Clusters \cup {NoCluster}], BuildClusterSpecs(f)
    PROVE  ChainInv'
<1> USE DEF ChainInv, BeforeClusters, BeforePool, Filtering, Settled
<1>1. /\ pc = "cluster" /\ pc' = "operators" /\ cluster' = f /\ f \in Clusterings
      /\ live' = kept \cap inp.sited
      /\ UNCHANGED <<inp, kept, records, uncharged, remaining, res, unsolved, lost, out>>
  BY DEF BuildClusterSpecs
<1>2. kept \subseteq Tasks /\ out = {} /\ unsolved = {} /\ lost = {} /\ uncharged = {}
      /\ \A t \in Tasks : res[t] = "none"
  BY <1>1 DEF TypeOK, StageSound
<1>3. TypeOK'
  BY <1>1, <1>2 DEF TypeOK, Stages
<1>4. StageSound'
  BY <1>1, <1>2 DEF StageSound
<1>5. ClusterSound'
  BY <1>1, <1>2, ClusteringFacts DEF ClusterSound
<1>6. PrecedenceSound'
  BY <1>1 DEF PrecedenceSound, Orphans
<1>7. MaterialSound'
  BY <1>1, <1>2 DEF MaterialSound, ReservationsMatch
<1>8. \A t \in Tasks : Open(t)' <=> Open(t)
  BY <1>1 DEF Open
<1>9. RecordSound'
  BY <1>1, <1>8 DEF RecordSound
<1>10. GroupSound'
  BY <1>1, <1>8 DEF GroupSound, Variants
<1> QED BY <1>3, <1>4, <1>5, <1>6, <1>7, <1>9, <1>10

\* Admission drops the tasks S of the clusters with a record each.
LEMMA AdmissionDrop ==
    ASSUME ChainInv, pc \in {"operators", "material"}, pc' = "material", NEW S,
           S \subseteq live, live' = live \ S, Record(S),
           UNCHANGED <<inp, kept, cluster, unsolved, lost, out>>
    PROVE  ClusterSound' /\ PrecedenceSound' /\ RecordSound' /\ GroupSound'
           /\ records' \in [Labels -> Nat]
<1> USE DEF ChainInv, BeforeClusters, BeforePool, Filtering, Settled
<1>1. /\ S \subseteq Labels /\ live \subseteq kept \cap inp.sited /\ kept \subseteq Tasks
      /\ Tasks \subseteq Labels /\ out = {} /\ unsolved = {} /\ lost = {}
      /\ ~BeforeClusters /\ ~BeforeClusters' /\ BeforePool /\ BeforePool'
  BY DEF TypeOK, Labels, StageSound, ClusterSound
<1>2. /\ records' \in [Labels -> Nat]
      /\ \A l \in S : records'[l] > 0
      /\ \A l \in Labels : l \notin S => records'[l] = records[l]
      /\ \A l \in Labels : records[l] > 0 => records'[l] > 0
  BY <1>1, RecordFacts
<1>3. ClusterSound'
  BY <1>1 DEF ClusterSound
<1>4. PrecedenceSound'
  BY <1>1 DEF PrecedenceSound, Orphans
<1>5. \A t \in Tasks : Open(t)' <=> (Open(t) /\ t \notin S)
  BY <1>1 DEF Open
<1>6. RecordSound'
  BY <1>1, <1>2, <1>5 DEF RecordSound
<1>7. GroupSound'
  <2> SUFFICES ASSUME NEW g \in Groups, NEW t \in Variants(g), ~Open(t)'
               PROVE  \E l \in Variants(g) \cup {g} : records'[l] > 0
    BY <1>1 DEF GroupSound, Variants
  <2>1. t \in Tasks /\ Variants(g) \cup {g} \subseteq Labels
    BY DEF Variants, Labels
  <2>2. CASE t \in S
    BY <1>2, <2>2
  <2>3. CASE t \notin S
    <3>1. \E l \in Variants(g) \cup {g} : records[l] > 0
      BY <1>1, <1>5, <2>1, <2>3 DEF GroupSound
    <3> QED BY <1>2, <2>1, <3>1
  <2> QED BY <2>2, <2>3
<1> QED BY <1>2, <1>3, <1>4, <1>6, <1>7

LEMMA QualifyStep ==
    ASSUME ChainInv, NEW S \in SUBSET live, QualifyOperators(S) PROVE ChainInv'
<1> USE DEF ChainInv, BeforeClusters, BeforePool, Filtering, Settled
<1>1. /\ pc = "operators" /\ pc' = "material" /\ live' = live \ S /\ Record(S)
      /\ uncharged' = {t \in live \ S : inp.need[t] > 0}
      /\ UNCHANGED <<inp, kept, cluster, remaining, res, unsolved, lost, out>>
  BY DEF QualifyOperators
<1>2. ClusterSound' /\ PrecedenceSound' /\ RecordSound' /\ GroupSound'
      /\ records' \in [Labels -> Nat]
  BY <1>1, AdmissionDrop
<1>3. live \subseteq Tasks /\ \A t \in Tasks : res[t] = "none"
  BY <1>1 DEF TypeOK, StageSound
<1>4. TypeOK'
  BY <1>1, <1>2 DEF TypeOK, Stages
<1>5. StageSound'
  BY <1>1, <1>3 DEF StageSound
<1>6. MaterialSound'
  BY <1>1, <1>3 DEF MaterialSound, ReservationsMatch
<1> QED BY <1>2, <1>4, <1>5, <1>6

LEMMA ChargeStep ==
    ASSUME ChainInv, NEW t \in uncharged, ChargeMaterial(t) PROVE ChainInv'
<1> USE DEF ChainInv, BeforeClusters, BeforePool, Filtering, Settled
<1>1. /\ pc = "material" /\ pc' = "material" /\ uncharged' = uncharged \ {t}
      /\ UNCHANGED <<inp, kept, cluster, unsolved, lost, out>>
  BY DEF ChargeMaterial
<1>2. /\ t \in live /\ t \in Tasks /\ live \subseteq kept \cap inp.sited
      /\ inp.need[t] \in Nat /\ inp.need[t] > 0 /\ res[t] = "none"
      /\ DepotFor(t) \in Depots
  <2>1. t \in live /\ inp.need[t] > 0 /\ res[t] = "none"
    BY DEF MaterialSound
  <2>2. t \in Tasks /\ live \subseteq kept \cap inp.sited
    BY <2>1 DEF TypeOK, ClusterSound
  <2>3. cluster[t] \in Clusters
    BY <1>1, <2>1, <2>2 DEF ClusterSound
  <2> QED BY <2>1, <2>2, <2>3, InputFacts, ChainAssumption DEF DepotFor
<1>3. CASE inp.need[t] <= remaining[DepotFor(t)]
  <2>1. /\ remaining' = [remaining EXCEPT ![DepotFor(t)] = @ - inp.need[t]]
        /\ res' = [res EXCEPT ![t] = "provisional"] /\ UNCHANGED <<live, records>>
    BY <1>3 DEF ChargeMaterial
  <2>2. remaining' \in [Depots -> Nat]
    <3>1. remaining \in [Depots -> Nat]
      BY DEF TypeOK
    <3>2. remaining[DepotFor(t)] - inp.need[t] \in Nat
      BY <1>2, <1>3, <3>1
    <3> QED BY <1>2, <2>1, <3>1, <3>2
  <2>3. TypeOK'
    BY <1>1, <2>1, <2>2 DEF TypeOK
  <2>4. /\ res'[t] = "provisional" /\ \A u \in Tasks : u # t => res'[u] = res[u]
    BY <1>2, <2>1 DEF TypeOK
  <2>5. StageSound'
    BY <1>1, <2>1, <2>4 DEF StageSound
  <2>6. ClusterSound' /\ PrecedenceSound'
    BY <1>1, <2>1 DEF ClusterSound, PrecedenceSound, Orphans
  <2>7. MaterialSound'
    BY <1>1, <1>2, <2>1, <2>4 DEF MaterialSound, ReservationsMatch, TypeOK
  <2>8. \A u \in Tasks : Open(u)' <=> Open(u)
    BY <1>1, <2>1 DEF Open
  <2>9. RecordSound'
    BY <1>1, <2>1, <2>8 DEF RecordSound
  <2>10. GroupSound'
    BY <1>1, <2>1, <2>8 DEF GroupSound, Variants
  <2> QED BY <2>3, <2>5, <2>6, <2>7, <2>9, <2>10
<1>4. CASE ~(inp.need[t] <= remaining[DepotFor(t)])
  <2>1. live' = live \ {t} /\ Record({t}) /\ UNCHANGED <<remaining, res>>
    BY <1>4 DEF ChargeMaterial
  <2>2. ClusterSound' /\ PrecedenceSound' /\ RecordSound' /\ GroupSound'
        /\ records' \in [Labels -> Nat]
    BY <1>1, <1>2, <2>1, AdmissionDrop
  <2>3. TypeOK'
    BY <1>1, <2>1, <2>2 DEF TypeOK
  <2>4. StageSound'
    BY <1>1, <2>1 DEF StageSound
  <2>5. MaterialSound'
    BY <1>1, <1>2, <2>1 DEF MaterialSound, ReservationsMatch
  <2> QED BY <2>2, <2>3, <2>4, <2>5
<1> QED BY <1>3, <1>4

LEMMA AdmissionSteps ==
    ASSUME ChainInv, AdmissionStep PROVE ChainInv'
<1>1. CASE EndMaterial
  <2> USE DEF ChainInv, BeforeClusters, BeforePool, Filtering, Settled
  <2>1. /\ pc = "material" /\ pc' = "pool" /\ uncharged = {}
        /\ unsolved' = {cluster[t] : t \in live}
        /\ UNCHANGED <<inp, kept, records, cluster, live, uncharged, remaining, res, lost, out>>
    BY <1>1 DEF EndMaterial
  <2>2. out = {} /\ lost = {} /\ live \subseteq kept \cap inp.sited /\ live \subseteq Tasks
    BY <2>1 DEF StageSound, ClusterSound, TypeOK
  <2>3. unsolved' \subseteq Clusters
    BY <2>1, <2>2 DEF ClusterSound
  <2>4. TypeOK'
    BY <2>1, <2>3 DEF TypeOK, Stages
  <2>5. StageSound'
    BY <2>1 DEF StageSound
  <2>6. ClusterSound' /\ PrecedenceSound'
    BY <2>1, <2>2 DEF ClusterSound, PrecedenceSound, Orphans
  <2>7. MaterialSound'
    BY <2>1 DEF MaterialSound, ReservationsMatch
  <2>8. \A t \in Tasks : Open(t)' <=> Open(t)
    BY <2>1, <2>2 DEF Open
  <2>9. RecordSound'
    BY <2>1, <2>8 DEF RecordSound
  <2>10. GroupSound'
    BY <2>1, <2>8 DEF GroupSound, Variants
  <2> QED BY <2>4, <2>5, <2>6, <2>7, <2>9, <2>10
<1> QED BY <1>1, ClusterStep, QualifyStep, ChargeStep DEF AdmissionStep

-----------------------------------------------------------------------------
(* The pool *)

\* The result of cluster c dispatches S and leaves a record for every other
\* task of the cluster, or for its group.
LEMMA ResultStep ==
    ASSUME ChainInv, pc = "pool", NEW c \in unsolved, NEW S, S \subseteq TasksIn(c),
           OneVariant(S), unsolved' = unsolved \ {c}, out' = out \cup S,
           UNCHANGED <<inp, pc, kept, cluster, live, uncharged, remaining, res, lost>>,
           records' \in [Labels -> Nat],
           \A l \in Labels : records[l] > 0 => records'[l] > 0,
           \A t \in Tasks : (inp.alt[t] = NoGroup /\ t \notin TasksIn(c) \ S)
               => records'[t] = records[t],
           \A t \in TasksIn(c) \ S : inp.alt[t] = NoGroup => records'[t] > 0,
           \A t \in TasksIn(c) : \A g \in Groups :
               (inp.alt[t] = g /\ \A u \in S : inp.alt[u] # g)
                   => \E l \in Variants(g) \cup {g} : records'[l] > 0
    PROVE  ChainInv'
<1> USE DEF ChainInv, BeforeClusters, BeforePool, Filtering, Settled
<1>1. /\ S \subseteq live /\ live \subseteq kept \cap inp.sited /\ live \subseteq Tasks
      /\ \A t \in S : cluster[t] = c
      /\ out \subseteq live /\ c \notin lost
  BY DEF TasksIn, ClusterSound, TypeOK
<1>2. TypeOK'
  BY <1>1 DEF TypeOK, Stages
<1>3. StageSound'
  BY DEF StageSound
<1>4. ClusterSound'
  BY <1>1 DEF ClusterSound
<1>5. PrecedenceSound'
  BY DEF PrecedenceSound, Orphans
<1>6. MaterialSound'
  BY DEF MaterialSound, ReservationsMatch
<1>7. \A t \in Tasks : Open(t)' <=> (Open(t) /\ t \notin TasksIn(c))
  BY <1>1 DEF Open, TasksIn
<1>8. \A t \in TasksIn(c) : t \in Tasks /\ Open(t) /\ t \notin out
  BY <1>1 DEF Open, TasksIn, ClusterSound
<1>9. RecordSound'
  <2> SUFFICES ASSUME NEW t \in Tasks, inp.alt[t] = NoGroup
               PROVE  IF Open(t)' \/ t \in out' THEN records'[t] = 0 ELSE records'[t] > 0
    BY DEF RecordSound
  <2>1. IF Open(t) \/ t \in out THEN records[t] = 0 ELSE records[t] > 0
    BY DEF RecordSound
  <2>2. CASE t \in TasksIn(c)
    BY <1>7, <1>8, <2>1, <2>2
  <2>3. CASE t \notin TasksIn(c)
    BY <1>7, <2>1, <2>3
  <2> QED BY <2>2, <2>3
<1>10. ASSUME NEW g \in Groups, NEW t \in Variants(g) \cap out', NEW u \in Variants(g) \cap out'
       PROVE  t = u
  <2>1. t \in Tasks /\ u \in Tasks /\ inp.alt[t] = g /\ inp.alt[u] = g /\ g # NoGroup
    BY <1>10, ChainAssumption DEF Variants
  <2>2. CASE t \in out /\ u \in out
    BY <2>2 DEF GroupSound
  <2>3. CASE t \in S /\ u \in S
    BY <2>1, <2>3 DEF OneVariant
  <2>4. CASE (t \in out /\ u \in S) \/ (t \in S /\ u \in out)
    <3>1. t \in live /\ u \in live
      BY <1>1, <2>4
    <3>2. cluster[t] = cluster[u] /\ cluster[u] = cluster[t]
      BY <1>1, <2>1, <3>1 DEF ClusterSound
    <3> QED BY <1>1, <2>4, <3>2 DEF ClusterSound
  <2> QED BY <2>2, <2>3, <2>4
<1>11. ASSUME NEW g \in Groups, NEW t \in Variants(g), ~Open(t)', Variants(g) \cap out' = {}
       PROVE  \E l \in Variants(g) \cup {g} : records'[l] > 0
  <2>1. t \in Tasks /\ inp.alt[t] = g /\ Variants(g) \cup {g} \subseteq Labels
    BY DEF Variants, Labels
  <2>2. CASE t \in TasksIn(c)
    <3>1. \A u \in S : inp.alt[u] # g
      BY <1>1, <1>11 DEF Variants
    <3> QED BY <2>1, <2>2, <3>1
  <2>3. CASE t \notin TasksIn(c)
    <3>1. ~Open(t) /\ Variants(g) \cap out = {}
      BY <1>7, <1>11, <2>1, <2>3
    <3>2. \E l \in Variants(g) \cup {g} : records[l] > 0
      BY <3>1 DEF GroupSound
    <3> QED BY <2>1, <3>2
  <2> QED BY <2>2, <2>3
<1>12. \A g : Variants(g)' = Variants(g)
  BY DEF Variants
<1>13. GroupSound'
  BY <1>10, <1>11, <1>12 DEF GroupSound
<1> QED BY <1>2, <1>3, <1>4, <1>5, <1>6, <1>9, <1>13

LEMMA SolveStep ==
    ASSUME ChainInv, NEW c \in unsolved, NEW P \in SUBSET TasksIn(c),
           NEW S \in SUBSET TasksIn(c), SolveCluster(c, P, S)
    PROVE  ChainInv'
<1> DEFINE given == TasksIn(c) \ P
           L == P \cup Unserved(given, S)
<1>1. /\ pc = "pool" /\ S \subseteq given /\ OneVariant(S) /\ Record(L)
      /\ unsolved' = unsolved \ {c} /\ out' = out \cup S
      /\ UNCHANGED <<inp, pc, kept, cluster, live, uncharged, remaining, res, lost>>
  BY DEF SolveCluster
<1>2. TypeOK /\ TasksIn(c) \subseteq Tasks /\ TasksIn(c) \subseteq Labels /\ Groups \subseteq Labels
  BY DEF ChainInv, TypeOK, TasksIn, Labels
<1>3. L \subseteq Labels
  BY <1>2 DEF Unserved
<1>4. /\ records' \in [Labels -> Nat]
      /\ \A l \in L : records'[l] > 0
      /\ \A l \in Labels : l \notin L => records'[l] = records[l]
      /\ \A l \in Labels : records[l] > 0 => records'[l] > 0
  <2> HIDE DEF L
  <2> QED BY <1>1, <1>2, <1>3, RecordFacts
<1>5. ASSUME NEW t \in Tasks, inp.alt[t] = NoGroup, t \notin TasksIn(c) \ S
      PROVE  records'[t] = records[t]
  <2>1. t \notin Groups /\ t \in Labels
    BY ChainAssumption DEF Labels
  <2>2. t \notin L
    BY <1>1, <1>5, <2>1 DEF Unserved
  <2> QED BY <1>4, <2>1, <2>2
<1>6. ASSUME NEW t \in TasksIn(c) \ S, inp.alt[t] = NoGroup PROVE records'[t] > 0
  <2>1. t \in L
    BY <1>6 DEF Unserved
  <2> QED BY <1>4, <2>1
<1>7. ASSUME NEW t \in TasksIn(c), NEW g \in Groups, inp.alt[t] = g, \A u \in S : inp.alt[u] # g
      PROVE  \E l \in Variants(g) \cup {g} : records'[l] > 0
  <2>1. t \in Variants(g)
    BY <1>2, <1>7 DEF Variants
  <2>2. t \in L \/ g \in L
    BY <1>7 DEF Unserved
  <2> QED BY <1>4, <2>1, <2>2
<1>8. S \subseteq TasksIn(c)
  OBVIOUS
<1> HIDE DEF L, given
<1> QED BY <1>1, <1>4, <1>5, <1>6, <1>7, <1>8, ResultStep

\* A cluster without dispatch: every task of it has a record.
LEMMA EmptyResultStep ==
    ASSUME ChainInv, pc = "pool", NEW c \in unsolved, unsolved' = unsolved \ {c},
           UNCHANGED <<inp, pc, kept, cluster, live, uncharged, remaining, res, lost, out>>,
           records' \in [Labels -> Nat],
           \A l \in Labels : records[l] > 0 => records'[l] > 0,
           \A l \in Labels : l \notin TasksIn(c) => records'[l] = records[l],
           \A l \in TasksIn(c) : records'[l] > 0
    PROVE  ChainInv'
<1>1. TasksIn(c) \subseteq Tasks /\ Tasks \subseteq Labels
  BY DEF ChainInv, TypeOK, TasksIn, Labels
<1>2. {} \subseteq TasksIn(c) /\ OneVariant({}) /\ out' = out \cup {}
  BY DEF OneVariant
<1>3. \A t \in Tasks : (inp.alt[t] = NoGroup /\ t \notin TasksIn(c) \ {})
         => records'[t] = records[t]
  BY <1>1
<1>4. \A t \in TasksIn(c) \ {} : inp.alt[t] = NoGroup => records'[t] > 0
  OBVIOUS
<1>5. \A t \in TasksIn(c) : \A g \in Groups :
          (inp.alt[t] = g /\ \A u \in {} : inp.alt[u] # g)
              => \E l \in Variants(g) \cup {g} : records'[l] > 0
  BY <1>1 DEF Variants
<1> QED BY <1>2, <1>3, <1>4, <1>5, ResultStep

LEMMA LoseStep ==
    ASSUME ChainInv, NEW c \in unsolved, LoseCluster(c) PROVE ChainInv'
<1> USE DEF ChainInv, BeforeClusters, BeforePool, Filtering, Settled
<1>1. /\ pc = "pool" /\ unsolved' = unsolved \ {c} /\ lost' = lost \cup {c}
      /\ UNCHANGED <<inp, pc, kept, records, cluster, live, uncharged, remaining, res, out>>
  BY DEF LoseCluster
<1>2. TypeOK'
  BY <1>1 DEF TypeOK
<1>3. StageSound' /\ ClusterSound'
  BY <1>1 DEF StageSound, ClusterSound
<1>4. PrecedenceSound' /\ MaterialSound'
  BY <1>1 DEF PrecedenceSound, Orphans, MaterialSound, ReservationsMatch
<1>5. \A t \in Tasks : Open(t)' <=> Open(t)
  BY <1>1 DEF Open
<1>6. RecordSound'
  BY <1>1, <1>5 DEF RecordSound
<1>7. GroupSound'
  BY <1>1, <1>5 DEF GroupSound, Variants
<1> QED BY <1>2, <1>3, <1>4, <1>6, <1>7

LEMMA PoolSteps ==
    ASSUME ChainInv, PoolStep PROVE ChainInv'
<1>0. TypeOK /\ Tasks \subseteq Labels
  BY DEF ChainInv, Labels
<1>1. ASSUME NEW c \in unsolved, FailCluster(c) PROVE ChainInv'
  <2>1. /\ pc = "pool" /\ unsolved' = unsolved \ {c} /\ Record(TasksIn(c))
        /\ UNCHANGED <<inp, pc, kept, cluster, live, uncharged, remaining, res, lost, out>>
    BY <1>1 DEF FailCluster
  <2>2. TasksIn(c) \subseteq Labels
    BY <1>0 DEF TypeOK, TasksIn
  <2>3. /\ records' \in [Labels -> Nat]
        /\ \A l \in TasksIn(c) : records'[l] > 0
        /\ \A l \in Labels : l \notin TasksIn(c) => records'[l] = records[l]
        /\ \A l \in Labels : records[l] > 0 => records'[l] > 0
    BY <1>0, <2>1, <2>2, RecordFacts
  <2> QED BY <2>1, <2>3, EmptyResultStep
<1>2. ASSUME NEW c \in unsolved, NEW P \in SUBSET TasksIn(c), NoSolution(c, P) PROVE ChainInv'
  <2>1. /\ pc = "pool" /\ unsolved' = unsolved \ {c}
        /\ records' = [l \in Labels |->
              records[l] + (IF l \in P THEN 1 ELSE 0) + (IF l \in TasksIn(c) THEN 1 ELSE 0)]
        /\ UNCHANGED <<inp, pc, kept, cluster, live, uncharged, remaining, res, lost, out>>
    BY <1>2 DEF NoSolution
  <2>2. TasksIn(c) \subseteq Labels /\ records \in [Labels -> Nat]
    BY <1>0 DEF TypeOK, TasksIn
  <2>3. /\ records' \in [Labels -> Nat]
        /\ \A l \in TasksIn(c) : records'[l] > 0
        /\ \A l \in Labels : l \notin TasksIn(c) => records'[l] = records[l]
        /\ \A l \in Labels : records[l] > 0 => records'[l] > 0
    BY <2>1, <2>2
  <2> QED BY <2>1, <2>3, EmptyResultStep
<1>3. CASE EndPool
  <2> USE DEF ChainInv, BeforeClusters, BeforePool, Filtering, Settled
  <2>1. /\ pc = "pool" /\ pc' = "outcomes" /\ unsolved = {}
        /\ UNCHANGED <<inp, kept, records, cluster, live, uncharged, remaining, res, unsolved, lost, out>>
    BY <1>3 DEF EndPool
  <2>2. TypeOK'
    BY <2>1 DEF TypeOK, Stages
  <2>3. StageSound' /\ ClusterSound'
    BY <2>1 DEF StageSound, ClusterSound
  <2>4. PrecedenceSound' /\ MaterialSound'
    BY <2>1 DEF PrecedenceSound, Orphans, MaterialSound, ReservationsMatch
  <2>5. \A t \in Tasks : Open(t)' <=> Open(t)
    BY <2>1 DEF Open
  <2>6. RecordSound'
    BY <2>1, <2>5 DEF RecordSound
  <2>7. GroupSound'
    BY <2>1, <2>5 DEF GroupSound, Variants
  <2> QED BY <2>2, <2>3, <2>4, <2>6, <2>7
<1> QED BY <1>1, <1>2, <1>3, SolveStep, LoseStep DEF PoolStep

-----------------------------------------------------------------------------
(* Settling *)

LEMMA WithdrawStep ==
    ASSUME ChainInv, NEW t \in out, Withdraw(t) PROVE ChainInv'
<1> USE DEF ChainInv, BeforeClusters, BeforePool, Filtering, Settled
<1>1. /\ pc = "outcomes" /\ out' = out \ {t} /\ Record({t})
      /\ UNCHANGED <<inp, pc, kept, cluster, live, uncharged, remaining, res, unsolved, lost>>
  BY DEF Withdraw
<1>2. /\ t \in Tasks /\ Tasks \subseteq Labels /\ t \in live
      /\ live \subseteq kept \cap inp.sited /\ ~Open(t)
  BY <1>1 DEF TypeOK, Labels, ClusterSound, Open
<1>3. /\ records' \in [Labels -> Nat]
      /\ records'[t] > 0
      /\ \A l \in Labels : l # t => records'[l] = records[l]
      /\ \A l \in Labels : records[l] > 0 => records'[l] > 0
  BY <1>1, <1>2, RecordFacts
<1>4. TypeOK'
  BY <1>1, <1>3 DEF TypeOK
<1>5. StageSound' /\ ClusterSound'
  BY <1>1 DEF StageSound, ClusterSound
<1>6. PrecedenceSound' /\ MaterialSound'
  BY <1>1 DEF PrecedenceSound, Orphans, MaterialSound, ReservationsMatch
<1>7. \A u \in Tasks : Open(u)' <=> Open(u)
  BY <1>1 DEF Open
<1>8. RecordSound'
  BY <1>1, <1>2, <1>3, <1>7 DEF RecordSound
<1>9. ASSUME NEW g \in Groups, NEW u \in Variants(g), ~Open(u)', Variants(g) \cap out' = {}
      PROVE  \E l \in Variants(g) \cup {g} : records'[l] > 0
  <2>1. u \in Tasks /\ Variants(g) \cup {g} \subseteq Labels
    BY DEF Variants, Labels
  <2>2. CASE t \in Variants(g)
    BY <1>3, <2>2
  <2>3. CASE t \notin Variants(g)
    <3>1. ~Open(u) /\ Variants(g) \cap out = {}
      BY <1>1, <1>7, <1>9, <2>1, <2>3
    <3>2. \E l \in Variants(g) \cup {g} : records[l] > 0
      BY <1>1, <3>1 DEF GroupSound
    <3> QED BY <1>3, <2>1, <3>2
  <2> QED BY <2>2, <2>3
<1>10. \A g : Variants(g)' = Variants(g)
  BY <1>1 DEF Variants
<1>11. GroupSound'
  BY <1>1, <1>9, <1>10 DEF GroupSound
<1> QED BY <1>4, <1>5, <1>6, <1>8, <1>11

LEMMA CollapseStep ==
    ASSUME ChainInv, CollapseAlternatives PROVE ChainInv'
<1> USE DEF ChainInv, BeforeClusters, BeforePool, Filtering, Settled
<1>1. /\ pc = "collapse" /\ pc' = "reserve"
      /\ records' = [l \in Labels |->
            IF l \in Groups THEN (IF l \in FailedGroups THEN 1 ELSE 0)
            ELSE IF inp.alt[l] # NoGroup THEN 0 ELSE records[l]]
      /\ UNCHANGED <<inp, kept, cluster, live, uncharged, remaining, res, unsolved, lost, out>>
  BY DEF CollapseAlternatives
<1>2. /\ \A g \in Groups : records'[g] = IF g \in FailedGroups THEN 1 ELSE 0
      /\ \A t \in Tasks : records'[t] = IF inp.alt[t] # NoGroup THEN 0 ELSE records[t]
  BY <1>1, ChainAssumption DEF Labels
<1>3. TypeOK'
  <2>1. records' \in [Labels -> Nat]
    BY <1>1 DEF TypeOK
  <2> QED BY <1>1, <2>1 DEF TypeOK, Stages
<1>4. StageSound' /\ ClusterSound'
  BY <1>1 DEF StageSound, ClusterSound
<1>5. PrecedenceSound'
  BY <1>1 DEF PrecedenceSound, Orphans, Violating
<1>6. MaterialSound'
  BY <1>1 DEF MaterialSound, ReservationsMatch
<1>7. \A t \in Tasks : Open(t)' <=> Open(t)
  BY <1>1 DEF Open
<1>8. RecordSound'
  BY <1>1, <1>2, <1>7 DEF RecordSound
<1>9. \A g : Variants(g)' = Variants(g)
  BY <1>1 DEF Variants
<1>10. ASSUME NEW g \in Groups
       PROVE  /\ \A t \in Variants(g) : records'[t] = 0
              /\ Variants(g) \cap out # {} => records'[g] = 0
              /\ \A t \in Variants(g) :
                    (~Open(t)' /\ Variants(g) \cap out = {}) => records'[g] = 1
  <2>1. \A t \in Variants(g) : t \in Tasks /\ inp.alt[t] # NoGroup
    BY <1>10, ChainAssumption DEF Variants
  <2>2. Variants(g) \cap out # {} => g \notin FailedGroups
    BY DEF FailedGroups
  <2>3. ASSUME NEW t \in Variants(g), ~Open(t)', Variants(g) \cap out = {}
        PROVE  g \in FailedGroups
    <3>1. \E l \in Variants(g) \cup {g} : records[l] > 0
      BY <1>1, <1>7, <2>1, <2>3 DEF GroupSound
    <3> QED BY <2>3, <3>1 DEF FailedGroups
  <2> QED BY <1>2, <2>1, <2>2, <2>3
<1>11. GroupSound'
  <2>1. \A g \in Groups : \A t, u \in Variants(g)' \cap out' : t = u
    BY <1>1, <1>9 DEF GroupSound
  <2> QED BY <1>1, <1>9, <1>10, <2>1 DEF GroupSound
<1> QED BY <1>3, <1>4, <1>5, <1>6, <1>8, <1>11

LEMMA FinalizeStep ==
    ASSUME ChainInv, FinalizeReservations PROVE ChainInv'
<1> USE DEF ChainInv, BeforeClusters, BeforePool, Filtering, Settled
<1>1. /\ pc = "reserve" /\ pc' = "done"
      /\ res' = [t \in Tasks |->
            IF res[t] = "provisional" THEN (IF t \in out THEN "confirmed" ELSE "released")
            ELSE res[t]]
      /\ UNCHANGED <<inp, kept, records, cluster, live, uncharged, remaining, unsolved, lost, out>>
  BY DEF FinalizeReservations
<1>2. /\ out \subseteq live /\ uncharged = {}
      /\ \A t \in Tasks : res[t] \in {"none", "provisional"}
  BY <1>1 DEF ClusterSound, StageSound
<1>3. TypeOK'
  BY <1>1 DEF TypeOK, Stages
<1>4. StageSound' /\ ClusterSound'
  BY <1>1 DEF StageSound, ClusterSound
<1>5. PrecedenceSound'
  BY <1>1 DEF PrecedenceSound, Orphans, Violating
<1>6. \A t \in Tasks : res[t] = "provisional" => t \in live /\ inp.need[t] > 0
  BY <1>1 DEF MaterialSound
<1>7. \A t \in out : inp.need[t] > 0 => res[t] = "provisional"
  BY <1>1, <1>2 DEF MaterialSound
<1>8. ReservationsMatch'
  BY <1>1, <1>2, <1>6, <1>7 DEF ReservationsMatch
<1>9. MaterialSound'
  BY <1>1, <1>2, <1>8 DEF MaterialSound
<1>10. \A t \in Tasks : Open(t)' <=> Open(t)
  BY <1>1 DEF Open
<1>11. RecordSound'
  BY <1>1, <1>10 DEF RecordSound
<1>12. GroupSound'
  BY <1>1, <1>10 DEF GroupSound, Variants
<1> QED BY <1>3, <1>4, <1>5, <1>9, <1>11, <1>12

LEMMA SettleSteps ==
    ASSUME ChainInv, SettleStep PROVE ChainInv'
<1>1. CASE EndOutcomes
  <2> USE DEF ChainInv, BeforeClusters, BeforePool, Filtering, Settled
  <2>1. /\ pc = "outcomes" /\ pc' = "collapse" /\ Violating = {}
        /\ UNCHANGED <<inp, kept, records, cluster, live, uncharged, remaining, res, unsolved, lost, out>>
    BY <1>1 DEF EndOutcomes
  <2>2. TypeOK'
    BY <2>1 DEF TypeOK, Stages
  <2>3. StageSound' /\ ClusterSound'
    BY <2>1 DEF StageSound, ClusterSound
  <2>4. PrecedenceSound'
    BY <2>1 DEF PrecedenceSound, Orphans, Violating
  <2>5. MaterialSound'
    BY <2>1 DEF MaterialSound, ReservationsMatch
  <2>6. \A t \in Tasks : Open(t)' <=> Open(t)
    BY <2>1 DEF Open
  <2>7. RecordSound'
    BY <2>1, <2>6 DEF RecordSound
  <2>8. GroupSound'
    BY <2>1, <2>6 DEF GroupSound, Variants
  <2> QED BY <2>2, <2>3, <2>4, <2>5, <2>7, <2>8
<1> QED BY <1>1, WithdrawStep, CollapseStep, FinalizeStep DEF SettleStep

-----------------------------------------------------------------------------
(* Theorems *)

LEMMA ChainStutter ==
    ASSUME ChainInv, UNCHANGED vars PROVE ChainInv'
<1> USE DEF ChainInv, BeforeClusters, BeforePool, Filtering, Settled, vars
<1>1. TypeOK' /\ StageSound' /\ ClusterSound'
  BY DEF TypeOK, StageSound, ClusterSound
<1>2. PrecedenceSound' /\ MaterialSound'
  BY DEF PrecedenceSound, Orphans, Violating, MaterialSound, ReservationsMatch
<1>3. \A t \in Tasks : Open(t)' <=> Open(t)
  BY DEF Open
<1>4. RecordSound' /\ GroupSound'
  BY <1>3 DEF RecordSound, GroupSound, Variants
<1> QED BY <1>1, <1>2, <1>4

\* The inductive invariant holds in every state of run_solver_chain.
THEOREM ChainInvariant == Spec => []ChainInv
<1>1. Init => ChainInv
  BY InitChain
<1>2. ChainInv /\ [Next]_vars => ChainInv'
  BY FilteringSteps, AdmissionSteps, PoolSteps, SettleSteps, ChainStutter DEF Next
<1> QED BY <1>1, <1>2, PTL DEF Spec

\* The state of the chain keeps its type: in particular no record count and
\* no depot's remaining material turns negative.
THEOREM ChainTypeCorrect == Spec => []TypeOK
<1>1. ChainInv => TypeOK
  BY DEF ChainInv
<1> QED BY <1>1, ChainInvariant, PTL

\* Wherever a predecessor is lost (apply_dependency_filter before the
\* clusters, enforce_dependency_outcomes after the pool), no dependent of it
\* stays dispatched.
THEOREM PrecedenceKept == Spec => []PredecessorServed
<1>1. ChainInv => PredecessorServed
  <2> SUFFICES ASSUME ChainInv, pc = "done", NEW t \in out, inp.pred[t] \in Tasks
               PROVE  inp.pred[t] \in out
    BY DEF PredecessorServed
  <2>1. t \in kept
    BY DEF ChainInv, ClusterSound
  <2>2. inp.pred[t] \in kept
    BY <2>1 DEF ChainInv, PrecedenceSound, Orphans, Filtering
  <2> QED BY <2>2 DEF ChainInv, PrecedenceSound, Violating, Settled
<1> QED BY <1>1, ChainInvariant, PTL

\* A task without alternatives ends dispatched or reported, never both; only
\* a task without a location or of a lost cluster ends with neither.
THEOREM TasksAccountedFor == Spec => []Accounted
<1>1. ChainInv => Accounted
  <2> SUFFICES ASSUME ChainInv, pc = "done", NEW t \in Tasks, inp.alt[t] = NoGroup
               PROVE  /\ t \in out => records[t] = 0
                      /\ t \notin out => (records[t] > 0 <=> t \notin Forgotten)
    BY DEF Accounted
  <2>1. Open(t) <=> t \in Forgotten
    BY DEF Open, Forgotten, ChainInv, StageSound, BeforeClusters, BeforePool, Filtering
  <2>2. IF Open(t) \/ t \in out THEN records[t] = 0 ELSE records[t] > 0
    BY DEF ChainInv, RecordSound
  <2> QED BY <2>1, <2>2
<1> QED BY <1>1, ChainInvariant, PTL

\* Of a group of delivery alternatives at most one variant is dispatched, and
\* _collapse_alternative_infeasible leaves one record for a group that
\* failed and none for a group that was served.
THEOREM AlternativesServedOnce == Spec => []GroupServedOnce
<1>1. ChainInv => GroupServedOnce
  <2> SUFFICES ASSUME ChainInv, pc = "done", NEW g \in Groups
               PROVE  /\ \A t, u \in Variants(g) \cap out : t = u
                      /\ \A t \in Variants(g) : records[t] = 0
                      /\ Variants(g) \cap out # {} => records[g] = 0
                      /\ (Variants(g) \cap out = {} /\ Variants(g) \ Forgotten # {})
                            => records[g] = 1
    BY DEF GroupServedOnce
  <2>1. \A t \in Variants(g) : Open(t) <=> t \in Forgotten
    BY DEF Open, Forgotten, ChainInv, StageSound, BeforeClusters, BeforePool, Filtering
  <2>2. /\ \A t, u \in Variants(g) \cap out : t = u
        /\ \A t \in Variants(g) : records[t] = 0
        /\ Variants(g) \cap out # {} => records[g] = 0
        /\ \A t \in Variants(g) : (~Open(t) /\ Variants(g) \cap out = {}) => records[g] = 1
    BY DEF ChainInv, GroupSound
  <2> QED BY <2>1, <2>2
<1> QED BY <1>1, ChainInvariant, PTL

\* After finalize_material_reservations a reservation is confirmed exactly
\* for the dispatched tasks that consume material.
THEOREM ReservationsSettled == Spec => []ReservationsMatch
<1>1. ChainInv => ReservationsMatch
  BY DEF ChainInv, MaterialSound
<1> QED BY <1>1, ChainInvariant, PTL

-----------------------------------------------------------------------------
(* Chains and clusters *)

\* Once the clusters are built, a task whose chain has a root is in the
\* cluster of its predecessor.
ChainsTogether ==
    ~BeforeClusters => \A t \in kept \cap inp.sited :
        (inp.pred[t] \in kept \cap inp.sited /\ Roots(t) # {}) => cluster[t] = cluster[inp.pred[t]]

\* A task and its predecessor have the same roots.
LEMMA SameRoots ==
    ASSUME TypeOK, NEW t \in kept, inp.pred[t] \in kept, inp.pred[t] # t
    PROVE  Roots(t) = Roots(inp.pred[t])
<1> DEFINE p == inp.pred[t]
<1>1. Parent(t) = p /\ p # NoTask /\ p \in kept
  BY ChainAssumption DEF Parent, TypeOK
<1>2. ASSUME NEW r \in Roots(t)
      PROVE  r \in Roots(p)
  <2>1. r \in kept /\ Parent(r) = NoTask /\ r # t
    BY <1>1, <1>2 DEF Roots, Ancestors
  <2>2. ASSUME NEW S \in SUBSET kept, p \in S, \A x \in S : Parent(x) # NoTask => Parent(x) \in S
        PROVE  r \in S
    <3>1. S \cup {t} \in SUBSET kept
      OBVIOUS
    <3>2. \A x \in S \cup {t} : Parent(x) # NoTask => Parent(x) \in S \cup {t}
      BY <1>1, <2>2
    <3>3. r \in S \cup {t}
      BY <1>2, <3>1, <3>2 DEF Roots, Ancestors
    <3> QED BY <2>1, <3>3
  <2> QED BY <2>1, <2>2 DEF Roots, Ancestors
<1>3. ASSUME NEW r \in Roots(p)
      PROVE  r \in Roots(t)
  <2>1. r \in kept /\ Parent(r) = NoTask
    BY <1>3 DEF Roots, Ancestors
  <2>2. ASSUME NEW S \in SUBSET kept, t \in S, \A x \in S : Parent(x) # NoTask => Parent(x) \in S
        PROVE  r \in S
    <3>1. p \in S
      BY <1>1, <2>2
    <3> QED BY <1>3, <2>2, <3>1 DEF Roots, Ancestors
  <2> QED BY <2>1, <2>2 DEF Roots, Ancestors
<1> QED BY <1>2, <1>3

\* A clustering keeps chains together.
LEMMA ClusteringKeepsChains ==
    ASSUME TypeOK, NEW f \in Clusterings, NEW t \in kept \cap inp.sited,
           inp.pred[t] \in kept \cap inp.sited, Roots(t) # {}
    PROVE  f[t] = f[inp.pred[t]]
<1> DEFINE p == inp.pred[t]
<1>1. CASE p = t
  BY <1>1
<1>2. CASE p # t
  <2>1. Roots(t) = Roots(p)
    BY <1>2, SameRoots
  <2>2. Together(t, p)
    BY <2>1 DEF Together, RootOf
  <2>3. p \in UnitOf(t)
    BY <2>2 DEF UnitOf
  <2> QED BY <2>3 DEF Clusterings
<1> QED BY <1>1, <1>2

\* Only the clustering decides clusters; the filters precede it.
LEMMA OtherSteps ==
    ASSUME [Next]_vars, ~\E f \in [Tasks -> Clusters \cup {NoCluster}] : BuildClusterSpecs(f)
    PROVE  BeforeClusters' \/ (~BeforeClusters /\ UNCHANGED <<inp, kept, cluster>>)
<1> USE DEF BeforeClusters, Filtering
<1>1. CASE FilterStep
  BY <1>1 DEF FilterStep, ApplyWeatherFilter, ApplyTimeWindowFilter, ApplyLocationRestrictions,
              Filter, ExcludeDependent, EndDependency
<1>2. CASE AdmissionStep
  BY <1>2 DEF AdmissionStep, QualifyOperators, ChargeMaterial, EndMaterial
<1>3. CASE PoolStep
  <2>1. ASSUME NEW c \in unsolved, NEW P \in SUBSET TasksIn(c), NEW S \in SUBSET TasksIn(c),
               SolveCluster(c, P, S)
        PROVE  pc = "pool" /\ pc' = "pool" /\ UNCHANGED <<inp, kept, cluster>>
    BY <2>1 DEF SolveCluster
  <2>2. ASSUME NEW c \in unsolved, NEW P \in SUBSET TasksIn(c), NoSolution(c, P)
        PROVE  pc = "pool" /\ pc' = "pool" /\ UNCHANGED <<inp, kept, cluster>>
    BY <2>2 DEF NoSolution
  <2>3. ASSUME NEW c \in unsolved, FailCluster(c) \/ LoseCluster(c)
        PROVE  pc = "pool" /\ pc' = "pool" /\ UNCHANGED <<inp, kept, cluster>>
    BY <2>3 DEF FailCluster, LoseCluster
  <2>4. CASE EndPool
    BY <2>4 DEF EndPool
  <2>5. pc = "pool" /\ pc' \in {"pool", "outcomes"} /\ UNCHANGED <<inp, kept, cluster>>
    BY <1>3, <2>1, <2>2, <2>3, <2>4 DEF PoolStep, EndPool
  <2> QED BY <2>5
<1>4. CASE SettleStep
  BY <1>4 DEF SettleStep, Withdraw, EndOutcomes, CollapseAlternatives, FinalizeReservations
<1>5. CASE UNCHANGED vars
  BY <1>5 DEF vars
<1> QED BY <1>1, <1>2, <1>3, <1>4, <1>5 DEF Next

\* The chains stay together to the end of the solver chain.
THEOREM ChainsKept == Spec => []ChainsTogether
<1>1. Init => ChainsTogether
  BY DEF Init, ChainsTogether, BeforeClusters, Filtering
<1>2. ChainInv /\ ChainsTogether /\ [Next]_vars => ChainsTogether'
  <2> SUFFICES ASSUME ChainInv, ChainsTogether, [Next]_vars PROVE ChainsTogether'
    OBVIOUS
  <2>1. ASSUME NEW f \in [Tasks -> Clusters \cup {NoCluster}], BuildClusterSpecs(f)
        PROVE  ChainsTogether'
    <3>1. UNCHANGED <<inp, kept>> /\ cluster' = f /\ f \in Clusterings
      BY <2>1 DEF BuildClusterSpecs
    <3>2. \A t : Roots(t)' = Roots(t)
      BY <3>1 DEF Roots, Ancestors, Parent
    <3> QED BY <3>1, <3>2, ClusteringKeepsChains DEF ChainsTogether, ChainInv
  <2>2. CASE ~\E f \in [Tasks -> Clusters \cup {NoCluster}] : BuildClusterSpecs(f)
    <3>1. CASE BeforeClusters'
      BY <3>1 DEF ChainsTogether
    <3>2. CASE ~BeforeClusters /\ UNCHANGED <<inp, kept, cluster>>
      <4>1. \A t : Roots(t)' = Roots(t)
        BY <3>2 DEF Roots, Ancestors, Parent
      <4> QED BY <3>2, <4>1 DEF ChainsTogether
    <3> QED BY <2>2, <3>1, <3>2, OtherSteps
  <2> QED BY <2>1, <2>2
<1> QED BY <1>1, <1>2, ChainInvariant, PTL DEF Spec

\* Relations between tasks hold in the plan: _merge_alternative_units and
\* _dependency_units keep related tasks in one cluster, and what the routing
\* or a lost cluster breaks is withdrawn.
THEOREM RelationsKept == Spec => []RelationsServed
<1>1. ChainInv /\ ChainsTogether => ChainInOneCluster
  BY DEF ChainInv, ClusterSound, ChainsTogether, ChainInOneCluster, BeforeClusters, Filtering
<1> QED BY <1>1, ChainInvariant, ChainsKept, AlternativesServedOnce, PrecedenceKept, PTL
        DEF RelationsServed

-----------------------------------------------------------------------------
(* Sums over finite sets *)

\* A non-empty set of naturals has a least element.
LEMMA LeastNumber ==
    ASSUME NEW T \in SUBSET Nat, T # {}
    PROVE  \E x \in T : \A y \in T : x <= y
<1> DEFINE R == {ss \in Nat \X Nat : ss[1] < ss[2]}
<1>1. IsWellFoundedOn(R, Nat)
  BY NatLessThanWellFounded, Zenon DEF OpToRel
<1>2. \E x \in T : \A y \in T : ~ (<<y, x>> \in R)
  <2> HIDE DEF R
  <2> QED BY <1>1, WFMin, Zenon
<1>3. PICK x \in T : \A y \in T : ~ (<<y, x>> \in R)
  BY <1>2
<1>4. ASSUME NEW y \in T PROVE x <= y
  <2>1. <<y, x>> \notin R
    BY <1>3
  <2> QED BY <2>1
<1> QED BY <1>4

\* Of the subsets of a finite set for which something fails, one has no such
\* smaller subset.
LEMMA SmallestSubset ==
    ASSUME NEW T, IsFiniteSet(T), NEW Bad \in SUBSET SUBSET T, Bad # {}
    PROVE  \E s \in Bad : IsFiniteSet(s) /\ \A x \in s : s \ {x} \notin Bad
<1>1. \A s \in SUBSET T : IsFiniteSet(s) /\ Cardinality(s) \in Nat
  BY FS_Subset, FS_CardinalityType
<1> DEFINE N == {Cardinality(s) : s \in Bad}
<1>2. PICK n \in N : \A m \in N : n <= m
  <2>1. N \in SUBSET Nat /\ N # {}
    BY <1>1
  <2> HIDE DEF N
  <2> QED BY <2>1, LeastNumber
<1>3. PICK s \in Bad : n = Cardinality(s)
  OBVIOUS
<1>4. ASSUME NEW x \in s, s \ {x} \in Bad PROVE FALSE
  <2>1. Cardinality(s \ {x}) = Cardinality(s) - 1 /\ Cardinality(s) \in Nat
    BY <1>1, FS_RemoveElement
  <2>2. Cardinality(s) <= Cardinality(s \ {x})
    BY <1>2, <1>3, <1>4
  <2> QED BY <2>1, <2>2
<1> QED BY <1>1, <1>4

\* The recursion by which the library sums f over the subsets of S.
Pick(s) == CHOOSE x \in s : TRUE

Sums(h, f, S) ==
    h = [s \in SUBSET S |-> IF s = {} THEN 0 ELSE f[Pick(s)] + h[s \ {Pick(s)}]]

LEMMA PickIn == \A s : s # {} => Pick(s) \in s
BY DEF Pick

LEMMA SumsExist ==
    ASSUME NEW S, IsFiniteSet(S), NEW f
    PROVE  \E h : Sums(h, f, S)
<1> DEFINE Step(h, s) == IF s = {} THEN 0 ELSE f[Pick(s)] + h[s \ {Pick(s)}]
           Upto(n) == {s \in SUBSET S : Cardinality(s) <= n}
           Done(n) == \E h : \A s \in Upto(n) : h[s] = Step(h, s)
           Missing == {n \in Nat : ~Done(n)}
<1>1. \A s \in SUBSET S : IsFiniteSet(s) /\ Cardinality(s) \in Nat /\ (Cardinality(s) = 0 <=> s = {})
  BY FS_Subset, FS_CardinalityType, FS_EmptySet
<1>2. Done(0)
  <2>1. \A s \in Upto(0) : s = {} /\ [r \in SUBSET S |-> 0][s] = 0
    BY <1>1
  <2> QED BY <2>1
<1>3. ASSUME NEW n \in Nat, Done(n) PROVE Done(n + 1)
  <2>1. PICK h : \A s \in Upto(n) : h[s] = Step(h, s)
    BY <1>3
  <2> DEFINE g == [s \in SUBSET S |-> Step(h, s)]
  <2>2. ASSUME NEW s \in Upto(n + 1) PROVE g[s] = Step(g, s)
    <3>1. CASE s = {}
      BY <3>1
    <3>2. CASE s # {}
      <4> DEFINE y == Pick(s)
                 r == s \ {y}
      <4>1. y \in s /\ Cardinality(r) = Cardinality(s) - 1 /\ r \in SUBSET S
        BY <1>1, <3>2, PickIn, FS_RemoveElement
      <4>2. r \in Upto(n)
        BY <1>1, <4>1
      <4>3. g[r] = h[r]
        BY <2>1, <4>2
      <4>4. s \in SUBSET S
        OBVIOUS
      <4>5. g[s] = f[y] + h[r] /\ Step(g, s) = f[y] + g[r]
        BY <3>2, <4>4
      <4> QED BY <4>3, <4>5
    <3> QED BY <3>1, <3>2
  <2> HIDE DEF g
  <2> QED BY <2>2
<1>4. Missing = {}
  <2> HIDE DEF Done
  <2> SUFFICES ASSUME Missing # {} PROVE FALSE
    OBVIOUS
  <2>1. PICK n \in Missing : \A m \in Missing : n <= m
    <3>1. Missing \in SUBSET Nat
      OBVIOUS
    <3> HIDE DEF Missing
    <3> QED BY <3>1, LeastNumber
  <2>2. n \in Nat /\ ~Done(n) /\ n # 0
    BY <1>2
  <2>3. n - 1 \in Nat /\ (n - 1) + 1 = n
    BY <2>2
  <2>4. Done(n - 1)
    <3>1. n - 1 \notin Missing
      <4>1. ~(n <= n - 1)
        BY <2>2
      <4> QED BY <2>1, <4>1, Zenon
    <3> QED BY <2>3, <3>1
  <2> QED BY <1>3, <2>2, <2>3, <2>4
<1>5. Done(Cardinality(S))
  <2>1. Cardinality(S) \in Nat
    BY <1>1
  <2> HIDE DEF Done
  <2> QED BY <1>4, <2>1
<1>6. PICK h : \A s \in Upto(Cardinality(S)) : h[s] = Step(h, s)
  BY <1>5
<1>7. \A s \in SUBSET S : s \in Upto(Cardinality(S)) /\ (s # {} => s \ {Pick(s)} \in SUBSET S)
  BY FS_Subset
<1> DEFINE g == [s \in SUBSET S |-> h[s]]
<1>8. \A s \in SUBSET S : g[s] = Step(g, s)
  BY <1>6, <1>7
<1>9. g = [s \in SUBSET S |-> Step(g, s)]
  <2>1. g = [s \in SUBSET S |-> g[s]]
    OBVIOUS
  <2> HIDE DEF g
  <2> QED BY <1>8, <2>1
<1> QED BY <1>9, Zenon DEF Sums

LEMMA SumsValue ==
    ASSUME NEW h, NEW f, NEW S, Sums(h, f, S)
    PROVE  /\ h[{}] = 0
           /\ \A s \in SUBSET S : s # {} => h[s] = f[Pick(s)] + h[s \ {Pick(s)}]
BY DEF Sums

\* The sum over a subset does not depend on the set it is a subset of.
LEMMA SumsAgree ==
    ASSUME NEW T, IsFiniteSet(T), NEW S \in SUBSET T, NEW f, NEW h, NEW k,
           Sums(h, f, T), Sums(k, f, S)
    PROVE  \A s \in SUBSET S : h[s] = k[s]
<1> DEFINE Bad == {s \in SUBSET S : h[s] # k[s]}
<1> SUFFICES ASSUME Bad # {} PROVE FALSE
  OBVIOUS
<1>1. IsFiniteSet(S)
  BY FS_Subset
<1>2. PICK s \in Bad : \A x \in s : s \ {x} \notin Bad
  <2>1. Bad \in SUBSET SUBSET S
    OBVIOUS
  <2> HIDE DEF Bad
  <2> QED BY <1>1, <2>1, SmallestSubset
<1>3. s \in SUBSET S /\ s \in SUBSET T /\ h[s] # k[s]
  OBVIOUS
<1>4. s # {}
  BY <1>3, SumsValue
<1> DEFINE y == Pick(s)
<1>5. y \in s
  BY <1>4, PickIn
<1>6. h[s \ {y}] = k[s \ {y}]
  BY <1>2, <1>3, <1>5
<1>7. h[s] = f[y] + h[s \ {y}]
  BY <1>3, <1>4, SumsValue
<1>8. k[s] = f[y] + k[s \ {y}]
  BY <1>3, <1>4, SumsValue
<1> HIDE DEF Bad, y
<1> QED BY <1>3, <1>6, <1>7, <1>8

\* Whichever element comes first, the sum is its value and the sum of the rest.
AnyOrder(h, f, T) ==
    /\ \A s \in SUBSET T : h[s] \in Nat
    /\ \A s \in SUBSET T : \A x \in s : h[s] = f[x] + h[s \ {x}]

LEMMA SumsAnyOrder ==
    ASSUME NEW T, IsFiniteSet(T), NEW f \in [T -> Nat], NEW h, Sums(h, f, T)
    PROVE  AnyOrder(h, f, T)
<1>0. /\ h[{}] = 0
      /\ \A s \in SUBSET T : s # {} => h[s] = f[Pick(s)] + h[s \ {Pick(s)}]
  BY SumsValue, Zenon
<1>1. \A s \in SUBSET T : h[s] \in Nat
  <2> DEFINE Bad == {s \in SUBSET T : h[s] \notin Nat}
  <2> SUFFICES ASSUME Bad # {} PROVE FALSE
    OBVIOUS
  <2>1. PICK s \in Bad : \A x \in s : s \ {x} \notin Bad
    <3>1. Bad \in SUBSET SUBSET T
      OBVIOUS
    <3> HIDE DEF Bad
    <3> QED BY <3>1, SmallestSubset
  <2>2. s \in SUBSET T /\ h[s] \notin Nat
    OBVIOUS
  <2>3. s # {}
    <3> SUFFICES ASSUME s = {} PROVE h[s] \in Nat
      BY <2>2
    <3>1. h[s] = 0
      BY <1>0, Zenon
    <3> QED BY <3>1
  <2> DEFINE y == Pick(s)
  <2>4. y \in s
    BY <2>3, PickIn
  <2>5. h[s \ {y}] \in Nat /\ f[y] \in Nat
    BY <2>1, <2>2, <2>4
  <2>6. h[s] = f[y] + h[s \ {y}]
    BY <2>2, <2>3, <1>0
  <2> HIDE DEF y
  <2> QED BY <2>2, <2>5, <2>6
<1>2. \A s \in SUBSET T : \A x \in s : h[s] = f[x] + h[s \ {x}]
  <2> DEFINE Bad == {s \in SUBSET T : \E x \in s : h[s] # f[x] + h[s \ {x}]}
  <2> SUFFICES ASSUME Bad # {} PROVE FALSE
    OBVIOUS
  <2>1. PICK s \in Bad : \A x \in s : s \ {x} \notin Bad
    <3>1. Bad \in SUBSET SUBSET T
      OBVIOUS
    <3> HIDE DEF Bad
    <3> QED BY <3>1, SmallestSubset
  <2>2. PICK x \in s : h[s] # f[x] + h[s \ {x}]
    OBVIOUS
  <2> DEFINE y == Pick(s)
  <2>3. y \in s /\ s \in SUBSET T /\ s # {}
    BY PickIn
  <2>4. h[s] = f[y] + h[s \ {y}]
    BY <2>3, <1>0
  <2> HIDE DEF y
  <2>5. x # y
    BY <2>2, <2>4
  <2>6. /\ h[s \ {y}] = f[x] + h[(s \ {y}) \ {x}]
        /\ h[s \ {x}] = f[y] + h[(s \ {x}) \ {y}]
    <3>1. s \ {y} \notin Bad /\ s \ {x} \notin Bad
      BY <2>1, <2>3
    <3>2. x \in s \ {y} /\ y \in s \ {x} /\ s \ {y} \in SUBSET T /\ s \ {x} \in SUBSET T
      BY <2>3, <2>5
    <3> QED BY <3>1, <3>2
  <2>7. h[(s \ {y}) \ {x}] = h[(s \ {x}) \ {y}]
    <3>1. (s \ {y}) \ {x} = (s \ {x}) \ {y}
      OBVIOUS
    <3> QED BY <3>1
  <2>8. h[(s \ {x}) \ {y}] \in Nat /\ f[x] \in Nat /\ f[y] \in Nat
    BY <1>1, <2>3
  <2> DEFINE m == h[(s \ {x}) \ {y}]
  <2>9. /\ h[s] = f[y] + (f[x] + m) /\ h[s \ {x}] = f[y] + m
        /\ m \in Nat /\ f[x] \in Nat /\ f[y] \in Nat
    BY <2>4, <2>6, <2>7, <2>8
  <2> HIDE DEF Bad, m
  <2> QED BY <2>2, <2>9
<1> QED BY <1>1, <1>2 DEF AnyOrder

\* The sum of f over the subsets of a finite set.
LEMMA TotalFacts ==
    ASSUME NEW T, IsFiniteSet(T), NEW f \in [T -> Nat]
    PROVE  /\ Total(f, {}) = 0
           /\ \A S \in SUBSET T : Total(f, S) \in Nat
           /\ \A S \in SUBSET T : \A x \in S : Total(f, S) = f[x] + Total(f, S \ {x})
<1>1. ASSUME NEW S \in SUBSET T
      PROVE  \E k : Sums(k, f, S) /\ Total(f, S) = k[S]
  <2> DEFINE k == CHOOSE h : Sums(h, f, S)
  <2>1. IsFiniteSet(S)
    BY FS_Subset
  <2>2. Sums(k, f, S)
    BY <2>1, SumsExist
  <2>3. Total(f, S) = k[S]
    BY Zenon DEF Total, MapThenSumSet, MapThenFoldSet, Sums, Pick
  <2> QED BY <2>2, <2>3
<1>2. PICK h : Sums(h, f, T)
  BY SumsExist
<1>3. \A S \in SUBSET T : Total(f, S) = h[S]
  <2> SUFFICES ASSUME NEW S \in SUBSET T PROVE Total(f, S) = h[S]
    OBVIOUS
  <2>1. PICK k : Sums(k, f, S) /\ Total(f, S) = k[S]
    BY <1>1
  <2> QED BY <1>2, <2>1, SumsAgree
<1>4. h[{}] = 0
  BY <1>2, SumsValue
<1>5. \A S \in SUBSET T : \A x \in S : S \ {x} \in SUBSET T
  OBVIOUS
<1>6. AnyOrder(h, f, T)
  BY <1>2, SumsAnyOrder
<1>7. Total(f, {}) = 0
  BY <1>3, <1>4
<1>8. \A S \in SUBSET T : Total(f, S) \in Nat
  BY <1>3, <1>6 DEF AnyOrder
<1>9. ASSUME NEW S \in SUBSET T, NEW x \in S PROVE Total(f, S) = f[x] + Total(f, S \ {x})
  <2>1. Total(f, S) = h[S] /\ Total(f, S \ {x}) = h[S \ {x}]
    BY <1>3, <1>5
  <2> QED BY <1>6, <2>1, Zenon DEF AnyOrder
<1> QED BY <1>7, <1>8, <1>9

-----------------------------------------------------------------------------
(* Material *)

\* Only charging changes what is charged.
LEMMA MaterialQuiet ==
    ASSUME ChainInv, [Next]_vars, ~\E t \in uncharged : ChargeMaterial(t)
    PROVE  /\ UNCHANGED <<inp, remaining>>
           /\ \/ UNCHANGED <<cluster, res>>
              \/ /\ \A t \in Tasks : res[t] = "none" /\ res'[t] = "none"
              \/ /\ UNCHANGED cluster
                 /\ \A t \in Tasks :
                       res'[t] # "none" <=> res[t] # "none"
<1> DEFINE Quiet == /\ UNCHANGED <<inp, remaining>>
                    /\ \/ UNCHANGED <<cluster, res>>
                       \/ /\ \A t \in Tasks : res[t] = "none" /\ res'[t] = "none"
                       \/ /\ UNCHANGED cluster
                          /\ \A t \in Tasks :
                                res'[t] # "none" <=> res[t] # "none"
<1>1. CASE FilterStep
  BY <1>1 DEF FilterStep, ApplyWeatherFilter, ApplyTimeWindowFilter, ApplyLocationRestrictions,
              Filter, ExcludeDependent, EndDependency
<1>2. CASE AdmissionStep
  <2>1. ASSUME NEW f \in [Tasks -> Clusters \cup {NoCluster}], BuildClusterSpecs(f) PROVE Quiet
    <3>1. UNCHANGED <<inp, remaining, res>> /\ pc = "cluster"
      BY <2>1 DEF BuildClusterSpecs
    <3>2. \A t \in Tasks : res[t] = "none"
      BY <3>1 DEF ChainInv, StageSound, BeforeClusters
    <3> QED BY <3>1, <3>2
  <2>2. ASSUME NEW S \in SUBSET live, QualifyOperators(S) PROVE Quiet
    BY <2>2 DEF QualifyOperators
  <2>3. CASE EndMaterial
    BY <2>3 DEF EndMaterial
  <2> QED BY <1>2, <2>1, <2>2, <2>3 DEF AdmissionStep
<1>3. CASE PoolStep
  <2>1. ASSUME NEW c \in unsolved, NEW P \in SUBSET TasksIn(c), NEW S \in SUBSET TasksIn(c),
               SolveCluster(c, P, S)
        PROVE  Quiet
    BY <2>1 DEF SolveCluster
  <2>2. ASSUME NEW c \in unsolved, NEW P \in SUBSET TasksIn(c), NoSolution(c, P) PROVE Quiet
    BY <2>2 DEF NoSolution
  <2>3. ASSUME NEW c \in unsolved, FailCluster(c) \/ LoseCluster(c) PROVE Quiet
    BY <2>3 DEF FailCluster, LoseCluster
  <2>4. CASE EndPool
    BY <2>4 DEF EndPool
  <2> QED BY <1>3, <2>1, <2>2, <2>3, <2>4 DEF PoolStep
<1>4. CASE SettleStep
  <2>1. CASE FinalizeReservations
    <3>1. /\ UNCHANGED <<inp, remaining, cluster>>
          /\ \A t \in Tasks : res'[t] = IF res[t] = "provisional"
                                        THEN (IF t \in out THEN "confirmed" ELSE "released")
                                        ELSE res[t]
      BY <2>1 DEF FinalizeReservations
    <3> QED BY <3>1
  <2>2. CASE ~FinalizeReservations
    BY <1>4, <2>2 DEF SettleStep, Withdraw, EndOutcomes, CollapseAlternatives
  <2> QED BY <2>1, <2>2
<1>5. CASE UNCHANGED vars
  BY <1>5 DEF vars
<1> QED BY <1>1, <1>2, <1>3, <1>4, <1>5 DEF Next

\* The task that is charged adds its need to the sum of its depot, and only there.
LEMMA MaterialCharge ==
    ASSUME ChainInv, ChargesAddUp, NEW t \in uncharged, ChargeMaterial(t)
    PROVE  ChargesAddUp'
<1>1. /\ t \in Tasks /\ t \in live /\ res[t] = "none" /\ pc = "material"
      /\ inp.need \in [Tasks -> Nat] /\ IsFiniteSet(Tasks)
      /\ remaining \in [Depots -> Nat] /\ res \in [Tasks -> {"none", "provisional", "confirmed", "released"}]
  BY ChainAssumption DEF ChainInv, TypeOK, InputType, MaterialSound, ChargeMaterial
<1>2. cluster[t] # NoCluster /\ DepotFor(t) \in Depots
  <2>1. cluster[t] \in Clusters
    BY <1>1 DEF ChainInv, ClusterSound, BeforeClusters, Filtering
  <2> QED BY <2>1, ChainAssumption DEF DepotFor
<1>3. UNCHANGED <<inp, cluster>> /\ \A u : DepotFor(u)' = DepotFor(u)
  BY DEF ChargeMaterial, DepotFor
<1>4. CASE UNCHANGED <<remaining, res>>
  <2>1. ASSUME NEW x \in Depots PROVE ChargedAt(x)' = ChargedAt(x)
    BY <1>3, <1>4 DEF ChargedAt
  <2> QED BY <1>3, <1>4, <2>1 DEF ChargesAddUp
<1>5. CASE ~UNCHANGED <<remaining, res>>
  <2>1. /\ inp.need[t] <= remaining[DepotFor(t)]
        /\ remaining' = [remaining EXCEPT ![DepotFor(t)] = @ - inp.need[t]]
        /\ res' = [res EXCEPT ![t] = "provisional"]
    BY <1>5 DEF ChargeMaterial
  <2>2. \A u \in Tasks : res'[u] = IF u = t THEN "provisional" ELSE res[u]
    BY <1>1, <2>1
  <2> SUFFICES ASSUME NEW x \in Depots
               PROVE  Total(inp.need, ChargedAt(x))' + remaining'[x] = Inventory[x]
    BY DEF ChargesAddUp
  <2> DEFINE before == ChargedAt(x)
             after == ChargedAt(x)'
  <2>3. /\ Total(inp.need, before) + remaining[x] = Inventory[x]
        /\ Total(inp.need, ChargedAt(x))' = Total(inp.need, after)
    BY <1>3 DEF ChargesAddUp
  <2>4. before \in SUBSET Tasks /\ after \in SUBSET Tasks
    BY DEF ChargedAt
  <2>5. CASE x = DepotFor(t)
    <3>1. t \in after /\ after \ {t} = before
      BY <1>1, <1>2, <1>3, <2>2, <2>5 DEF ChargedAt
    <3>2. Total(inp.need, after) = inp.need[t] + Total(inp.need, before)
      <4> HIDE DEF before, after
      <4> QED BY <1>1, <2>4, <3>1, TotalFacts
    <3>3. Total(inp.need, before) \in Nat
      <4> HIDE DEF before, after
      <4> QED BY <1>1, <2>4, TotalFacts
    <3>4. remaining'[x] = remaining[x] - inp.need[t] /\ inp.need[t] \in Nat /\ remaining[x] \in Nat
      BY <1>1, <2>1, <2>5
    <3> HIDE DEF before, after
    <3> QED BY <2>3, <3>2, <3>3, <3>4
  <2>6. CASE x # DepotFor(t)
    <3>1. after = before
      BY <1>1, <1>3, <2>2, <2>6 DEF ChargedAt
    <3>2. remaining'[x] = remaining[x]
      BY <1>1, <2>1, <2>6
    <3> HIDE DEF before, after
    <3> QED BY <2>3, <3>1, <3>2
  <2> QED BY <2>5, <2>6
<1> QED BY <1>4, <1>5

\* No depot is ever charged with more than its inventory, what was charged and
\* what remains add up to it through every stage, and the plan's reservations
\* are what it dispatches (apply_material_limits,
\* finalize_material_reservations).
THEOREM MaterialIsSettled == Spec => []MaterialSettled
<1>1. Init => ChargesAddUp
  <2> SUFFICES ASSUME Init, NEW x \in Depots
               PROVE  Total(inp.need, ChargedAt(x)) + remaining[x] = Inventory[x]
    BY DEF ChargesAddUp
  <2>1. ChargedAt(x) = {} /\ remaining[x] = Inventory[x] /\ Inventory[x] \in Nat
    BY ChainAssumption DEF Init, ChargedAt
  <2>2. inp.need \in [Tasks -> Nat] /\ IsFiniteSet(Tasks)
    BY ChainAssumption DEF Init, InputType
  <2>3. Total(inp.need, {}) = 0
    BY <2>2, TotalFacts
  <2> QED BY <2>1, <2>3
<1>2. ChainInv /\ ChargesAddUp /\ [Next]_vars => ChargesAddUp'
  <2> SUFFICES ASSUME ChainInv, ChargesAddUp, [Next]_vars PROVE ChargesAddUp'
    OBVIOUS
  <2>1. CASE \E t \in uncharged : ChargeMaterial(t)
    BY <2>1, MaterialCharge
  <2>2. CASE ~\E t \in uncharged : ChargeMaterial(t)
    <3>1. UNCHANGED <<inp, remaining>>
      BY <2>2, MaterialQuiet
    <3>2. ASSUME NEW x \in Depots PROVE ChargedAt(x)' = ChargedAt(x)
      <4>1. CASE UNCHANGED <<cluster, res>>
        BY <4>1 DEF ChargedAt, DepotFor
      <4>2. CASE \A t \in Tasks : res[t] = "none" /\ res'[t] = "none"
        BY <4>2 DEF ChargedAt
      <4>3. CASE /\ UNCHANGED cluster
                 /\ \A t \in Tasks :
                       res'[t] # "none" <=> res[t] # "none"
        BY <4>3 DEF ChargedAt, DepotFor
      <4> QED BY <2>2, <4>1, <4>2, <4>3, MaterialQuiet
    <3>3. ASSUME NEW x \in Depots
          PROVE  Total(inp.need, ChargedAt(x))'
                   = Total(inp.need, ChargedAt(x))
      BY <3>1, <3>2
    <3> QED BY <3>1, <3>3 DEF ChargesAddUp
  <2> QED BY <2>1, <2>2
<1>3. ChainInv /\ ChargesAddUp => MaterialCharged
  <2> SUFFICES ASSUME ChainInv, ChargesAddUp, NEW x \in Depots
               PROVE  Total(inp.need, ChargedAt(x)) <= Inventory[x]
    BY DEF MaterialCharged
  <2>1. remaining[x] \in Nat
    BY DEF ChainInv, TypeOK
  <2>2. inp.need \in [Tasks -> Nat] /\ IsFiniteSet(Tasks) /\ ChargedAt(x) \in SUBSET Tasks
    BY ChainAssumption DEF ChainInv, TypeOK, InputType, ChargedAt
  <2>3. Total(inp.need, ChargedAt(x)) \in Nat
    BY <2>2, TotalFacts
  <2>4. Total(inp.need, ChargedAt(x)) + remaining[x] = Inventory[x]
    BY DEF ChargesAddUp
  <2> QED BY <2>1, <2>3, <2>4
<1>4. ReservationsMatch /\ MaterialCharged => MaterialSettled
  BY DEF MaterialSettled
<1> QED BY <1>1, <1>2, <1>3, <1>4, ChainInvariant, ReservationsSettled, PTL DEF Spec
=============================================================================
