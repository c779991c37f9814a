---------------------------- MODULE ComponentProofs ----------------------------
(***************************************************************************)
(* Proofs about three components that share nothing but this file.         *)
(*                                                                         *)
(* ClusterPool, for every finite set of clusters, every demand,            *)
(* certification, number of workers and worker deaths: backup operators    *)
(* are never double-booked across worker processes, and the pool returns   *)
(* each cluster at most once and loses only results that are there.        *)
(*                                                                         *)
(* ContractEvolution and the modules it is built from, for every set of    *)
(* contracts, documents, packs and profiles.                               *)
(*                                                                         *)
(* What a reader finds in the files of the monitoring loop, for any number *)
(* of builders, builds, sessions and tunings.  The audit trail explains    *)
(* the tuned overlay: every value there is either the one noted last for   *)
(* its field or waits to be noted.  A tuning steps within bounds, because  *)
(* overlay and policy stay in the clamps, whoever wrote or tore the        *)
(* overlay.  The registry lists whole snapshots: a run directory belongs   *)
(* to the one builder that made it until that builder is done with it or   *)
(* dies, and its manifest is its builder's last step.  What the loop       *)
(* concludes from readings does not depend on the order they arrive in nor *)
(* on how many a burst brings, and compacting the trend file changes no    *)
(* verdict.                                                                *)
(***************************************************************************)
EXTENDS SnapshotRuns, ClusterPool, ContractEvolution, FiniteSetTheorems, WellFoundedInduction, TLAPS

-----------------------------------------------------------------------------
(* The inductive invariant *)

Independent == {{c} : c \in Clusters \ UNION groups}

\* Jobs of the stages that are over.
PastJobs ==
    CASE stage = "groups" -> Independent
      [] stage = "done" -> Independent \cup groups
      [] OTHER -> {}

\* Two claims of one operator over overlapping windows make it a shared one.
ClaimsSound ==
    \A n, m \in Needs :
        (n # m /\ owner[n] = owner[m] /\ owner[n] # NoOperator /\ owner[n] \notin overlap)
            => demand[n] \cap demand[m] = {}

\* The groups are disjoint, and clusters with a shared operator are in one.
GroupsSound ==
    stage # "claim" =>
        /\ \A g, h \in groups : g # h => g \cap h = {}
        /\ \A n, m \in Needs :
            (n[1] # m[1] /\ owner[n] = owner[m] /\ owner[n] \in overlap)
                => \E g \in groups : n[1] \in g /\ m[1] \in g

\* Nothing is solved before the groups are formed, and solved work keeps to
\* the window its operator was claimed for.
UsesSound ==
    /\ stage = "claim" => (solved = {} /\ groups = {})
    /\ stage \in {"claim", "done"} => phase = "idle"
    /\ \A n \in Needs : n[1] \in solved =>
        /\ use[n] \subseteq demand[n]
        /\ owner[n] = NoOperator => use[n] = {}

OperatorInv == ClaimsSound /\ GroupsSound /\ UsesSound /\ OperatorSingleTasking

\* What the collecting process holds is consistent with the futures.
CollectSound ==
    /\ batch \subseteq Jobs \ yielded
    /\ \A j \in batch \cup yielded : Done(j)
    /\ phase # "consume" => batch = {}
    /\ yielded \subseteq Jobs \cup PastJobs
    /\ phase \in {"idle", "inline", "first"} => yielded \cap Jobs = {}
    /\ toSweep \subseteq Jobs
    /\ phase = "sweep" => stage \in expired
    /\ phase # "sweep" => toSweep = {}

FutSound ==
    /\ \A j \in SUBSET Clusters :
        (j \notin Jobs \cup PastJobs \/ (phase = "idle" /\ j \in Jobs)) => fut[j] = "none"
    /\ \A j \in PastJobs : Done(j)
    /\ \A j \in Jobs : fut[j] = "cancelled" => phase \in {"sweep", "exit"} /\ j \notin toSweep

\* The stage is through with job j.
Settled(j) == j \in yielded \/ (phase = "sweep" /\ j \notin toSweep) \/ phase = "exit"

\* Each cluster of a settled job has its record, or the job was done and a
\* timeout has lost it.
Outcome(j) ==
    \/ \A c \in j : nrec[c] = 1
    \/ /\ expired # {} /\ j \notin yielded /\ fut[j] \in {"finished", "error"}
       /\ \A c \in j : nrec[c] = 0

RecordsSound ==
    /\ \A j \in Jobs : IF Settled(j) THEN Outcome(j) ELSE \A c \in j : nrec[c] = 0
    /\ \A j \in PastJobs : Outcome(j)
    /\ \A c \in Clusters : c \notin UNION (Jobs \cup PastJobs) => nrec[c] = 0

CollectInv == CollectSound /\ FutSound /\ RecordsSound

PoolInv == TypeOK /\ OperatorInv /\ CollectInv

-----------------------------------------------------------------------------
(* The groups *)

LEMMA GroupMember ==
    ASSUME NEW c \in Clusters
    PROVE  GroupOf(c) \subseteq Clusters /\ c \in GroupOf(c)
BY DEF GroupOf

\* A group holds every cluster one of its clusters shares an operator with.
LEMMA GroupClosed ==
    ASSUME NEW c \in Clusters, NEW x \in GroupOf(c), NEW y \in Clusters, Linked(x, y)
    PROVE  y \in GroupOf(c)
BY DEF GroupOf

LEMMA GroupLeast ==
    ASSUME NEW c \in Clusters, NEW S \in SUBSET Clusters, c \in S,
           \A x \in S, y \in Clusters : Linked(x, y) => y \in S
    PROVE  GroupOf(c) \subseteq S
BY DEF GroupOf

LEMMA GroupMutual ==
    ASSUME NEW c \in Clusters, NEW d \in GroupOf(c)
    PROVE  GroupOf(d) = GroupOf(c)
<1>1. d \in Clusters
  BY GroupMember
<1>2. GroupOf(d) \subseteq GroupOf(c)
  BY <1>1, GroupMember, GroupClosed, GroupLeast
<1>3. c \in GroupOf(d)
  <2> SUFFICES ASSUME c \notin GroupOf(d) PROVE FALSE
    OBVIOUS
  <2> DEFINE S == GroupOf(c) \ GroupOf(d)
  <2>1. S \in SUBSET Clusters /\ c \in S
    BY GroupMember
  <2>2. ASSUME NEW x \in S, NEW y \in Clusters, Linked(x, y) PROVE y \in S
    <3>1. Linked(y, x)
      BY <2>2 DEF Linked
    <3>2. y \in GroupOf(c)
      BY <2>2, GroupClosed
    <3>3. y \notin GroupOf(d)
      BY <1>1, <2>1, <3>1, GroupClosed
    <3> QED BY <3>2, <3>3
  <2>3. GroupOf(c) \subseteq S
    <3> HIDE DEF S
    <3> QED BY <2>1, <2>2, GroupLeast
  <2> QED BY <1>1, <2>3, GroupMember
<1>4. GroupOf(c) \subseteq GroupOf(d)
  BY <1>1, <1>3, GroupMember, GroupClosed, GroupLeast
<1> QED BY <1>2, <1>4

\* The groups that pool_solve forms are disjoint, and clusters with a shared
\* operator are in one of them.
LEMMA GroupsFormed ==
    /\ Groups \subseteq SUBSET Clusters
    /\ \A g, h \in Groups : g # h => g \cap h = {}
    /\ \A n, m \in Needs :
        (n[1] # m[1] /\ owner[n] = owner[m] /\ owner[n] \in overlap)
            => \E g \in Groups : n[1] \in g /\ m[1] \in g
<1>1. Groups \subseteq SUBSET Clusters
  BY GroupMember DEF Groups
<1>2. ASSUME NEW g \in Groups, NEW h \in Groups, NEW x \in g \cap h PROVE g = h
  <2>1. PICK c \in Clusters : g = GroupOf(c)
    BY DEF Groups
  <2>2. PICK d \in Clusters : h = GroupOf(d)
    BY DEF Groups
  <2> QED BY <2>1, <2>2, GroupMutual
<1>3. ASSUME NEW n \in Needs, NEW m \in Needs,
             n[1] # m[1], owner[n] = owner[m], owner[n] \in overlap
      PROVE  \E g \in Groups : n[1] \in g /\ m[1] \in g
  <2>1. /\ n[1] \in Clusters /\ n[2] \in Operations /\ n = <<n[1], n[2]>>
        /\ m[1] \in Clusters /\ m[2] \in Operations /\ m = <<m[1], m[2]>>
    BY DEF Needs
  <2> DEFINE c == n[1]  d == m[1]  g == GroupOf(c)
  <2>2. owner[n] \in SharedOperators(c) /\ owner[n] \in SharedOperators(d)
    BY <1>3, <2>1 DEF SharedOperators
  <2>3. Linked(c, d)
    BY <2>2 DEF Linked
  <2>4. c \in g /\ d \in g /\ g \subseteq Clusters
    BY <2>1, <2>3, GroupMember, GroupClosed
  <2>5. IsFiniteSet(g)
    BY <2>4, PoolAssumption, FS_Subset
  <2>6. Cardinality(g) >= 2
    <3>1. IsFiniteSet({c, d}) /\ Cardinality({c, d}) = 2
      <4>1. IsFiniteSet({c}) /\ Cardinality({c}) = 1
        BY FS_Singleton
      <4>2. d \notin {c} /\ {c} \cup {d} = {c, d}
        BY <1>3
      <4> QED BY <4>1, <4>2, FS_AddElement
    <3>2. {c, d} \subseteq g
      BY <2>4
    <3>3. Cardinality({c, d}) <= Cardinality(g)
      <4> HIDE DEF g
      <4> QED BY <2>5, <3>2, FS_Subset
    <3>4. Cardinality(g) \in Nat
      <4> HIDE DEF g
      <4> QED BY <2>5, FS_CardinalityType
    <3> QED
      <4> HIDE DEF g
      <4> QED BY <3>1, <3>3, <3>4
  <2>7. g \in Groups
    BY <2>1, <2>6 DEF Groups
  <2> QED BY <2>4, <2>7
<1> QED BY <1>1, <1>2, <1>3

-----------------------------------------------------------------------------
(* One step *)

LEMMA InitPool == PoolInit => PoolInv
<1> SUFFICES ASSUME PoolInit PROVE PoolInv
  OBVIOUS
<1>1. Jobs = {} /\ PastJobs = {}
  BY DEF PoolInit, Jobs, PastJobs
<1>2. TypeOK
  BY PoolAssumption DEF PoolInit, TypeOK, Stages, Phases, FutStates, Statuses
<1>3. OperatorInv
  BY DEF PoolInit, OperatorInv, ClaimsSound, GroupsSound, UsesSound, OperatorSingleTasking
<1>4. CollectInv
  BY <1>1 DEF PoolInit, CollectInv, CollectSound, FutSound, RecordsSound
<1> QED BY <1>2, <1>3, <1>4 DEF PoolInv

LEMMA ChosenType ==
    ASSUME TypeOK, NEW n \in unclaimed
    PROVE  \A f \in Chosen(n) :
              /\ f \in [Needs -> Operators \cup {NoOperator}]
              /\ \A m \in Needs : m # n => f[m] = owner[m]
              /\ f = owner \/ f[n] \in Candidates(n)
<1>1. n \in Needs /\ n[2] \in Operations
  BY DEF TypeOK, Needs
<1>2. Candidates(n) \subseteq Operators
  BY <1>1, PoolAssumption DEF Candidates, Free
<1> QED BY <1>1, <1>2 DEF Chosen, TypeOK

LEMMA JobsShape ==
    ASSUME TypeOK, NEW j \in Jobs
    PROVE  j \in SUBSET Clusters /\ stage \in {"independent", "groups"}
BY DEF TypeOK, Jobs, Stages

LEMMA TypeStep ==
    ASSUME TypeOK, batch \subseteq Jobs, toSweep \subseteq Jobs, PoolNext PROVE TypeOK'
<1> USE DEF Stages, Phases, FutStates, Statuses
<1>1. ASSUME NEW n \in unclaimed, Claim(n) PROVE TypeOK'
  <2>1. owner' \in [Needs -> Operators \cup {NoOperator}]
    BY <1>1, ChosenType DEF Claim
  <2>2. owner'[n] \in Operators \cup {NoOperator}
    BY <2>1 DEF TypeOK
  <2>3. overlap' \subseteq Operators
    BY <1>1, <2>2 DEF Claim, TypeOK
  <2> QED BY <1>1, <2>1, <2>3 DEF Claim, TypeOK, workers, collect, report
<1>2. CASE EndClaims
  BY <1>2, GroupsFormed DEF EndClaims, TypeOK, workers, collect, report
<1>3. ASSUME NextStage PROVE stage' \in Stages
  BY <1>3 DEF NextStage
<1>4. ASSUME NEW J \in SUBSET Clusters, NEW s \in Statuses, RecordedAs(J, s)
      PROVE  nrec' \in [Clusters -> Nat] /\ status' \in [Clusters -> Statuses]
  BY <1>4 DEF RecordedAs, TypeOK
<1>5. CASE SkipStage
  BY <1>5, <1>3 DEF SkipStage, TypeOK, claims, workers, collect, report
<1>6. CASE Submit
  BY <1>6 DEF Submit, TypeOK, claims, collect, report
<1>7. CASE StartInline
  BY <1>7 DEF StartInline, TypeOK, claims, collect, report
<1>8. CASE EndInline
  <2>1. UNION Jobs \in SUBSET Clusters
    BY JobsShape
  <2>2. nrec' \in [Clusters -> Nat] /\ status' \in [Clusters -> Statuses]
    BY <1>4, <1>8, <2>1 DEF EndInline
  <2> QED BY <1>3, <1>8, <2>2 DEF EndInline, TypeOK, claims, collect
<1>9. ASSUME NEW j \in Jobs, Pickup(j) \/ Finish(j) PROVE TypeOK'
  BY <1>9 DEF Pickup, Finish, TypeOK, claims, collect, report
<1>10. ASSUME NEW j \in Jobs, NEW c \in j, NEW u \in [Operations -> SUBSET Slots],
              Solve(j, c, u)
       PROVE  TypeOK'
  <2>1. c \in Clusters
    BY JobsShape
  <2>2. use' \in [Needs -> SUBSET Slots]
    BY <1>10 DEF Solve, TypeOK, Needs
  <2> QED BY <1>10, <2>1, <2>2 DEF Solve, TypeOK, claims, collect, report
<1>11. CASE First \/ Wait \/ Top
  <2>1. Jobs \subseteq SUBSET Clusters
    BY JobsShape
  <2> QED BY <1>11, <2>1 DEF First, Wait, Top, TypeOK, claims, workers, report
<1>12. CASE EndConsume \/ EndSweep
  BY <1>12 DEF EndConsume, EndSweep, TypeOK, claims, workers, collect, report
<1>13. CASE Exit
  BY <1>3, <1>13 DEF Exit, TypeOK, claims, workers, collect, report
<1>14. ASSUME NEW j \in batch, Collect(j) PROVE TypeOK'
  <2>1. j \in SUBSET Clusters
    BY DEF TypeOK
  <2>2. nrec' \in [Clusters -> Nat] /\ status' \in [Clusters -> Statuses]
    BY <1>4, <1>14, <2>1 DEF Collect
  <2> QED BY <1>14, <2>1, <2>2 DEF Collect, TypeOK, claims, workers
<1>15. ASSUME NEW j \in toSweep, Sweep(j) PROVE TypeOK'
  <2>1. j \in SUBSET Clusters
    BY DEF TypeOK
  <2>2. nrec' \in [Clusters -> Nat] /\ status' \in [Clusters -> Statuses]
    BY <1>4, <1>15, <2>1 DEF Sweep, StalledStatus, report, TypeOK
  <2> QED BY <1>15, <2>1, <2>2 DEF Sweep, TypeOK, claims
<1>16. CASE WorkerDies
  BY <1>16 DEF WorkerDies, TypeOK, claims, collect, report
<1>17. CASE Expire
  BY <1>17 DEF Expire, TypeOK, claims, workers, collect, report
<1> QED
  BY <1>1, <1>2, <1>5, <1>6, <1>7, <1>8, <1>9, <1>10, <1>11, <1>12, <1>13, <1>14,
     <1>15, <1>16, <1>17
  DEF PoolNext, Step

\* A claim keeps the windows of an operator disjoint or marks it as shared.
LEMMA ClaimStep ==
    ASSUME TypeOK, ClaimsSound, NEW n \in unclaimed, Claim(n) PROVE ClaimsSound'
<1>1. n \in Needs /\ owner' \in Chosen(n) /\ demand' = demand
  BY DEF Claim, TypeOK
<1>2. overlap \subseteq overlap' /\ \A m \in Needs : m # n => owner'[m] = owner[m]
  BY <1>1, ChosenType DEF Claim
<1>3. ASSUME NEW m \in Needs, m # n, owner'[m] = owner'[n],
             owner'[n] # NoOperator, owner'[n] \notin overlap'
      PROVE  demand[n] \cap demand[m] = {}
  <2>1. CASE owner' = owner
    BY <1>2, <1>3, <1>1, <2>1 DEF ClaimsSound
  <2>2. CASE owner' # owner
    <3>1. owner'[n] \in Candidates(n)
      BY <1>1, <2>2, ChosenType
    <3>2. Free(n) # {}
      BY <1>3 DEF Claim
    <3>3. owner'[n] \in Free(n)
      BY <3>1, <3>2 DEF Candidates
    <3>4. Busy(owner'[n]) \cap demand[n] = {}
      BY <3>3 DEF Free
    <3>5. owner[m] = owner'[n]
      BY <1>2, <1>3
    <3> QED BY <3>4, <3>5 DEF Busy
  <2> QED BY <2>1, <2>2
<1> SUFFICES ASSUME NEW a \in Needs, NEW b \in Needs, a # b, owner'[a] = owner'[b],
                    owner'[a] # NoOperator, owner'[a] \notin overlap'
             PROVE  demand[a] \cap demand[b] = {}
  BY <1>1 DEF ClaimsSound
<1>4. CASE a = n
  BY <1>3, <1>4
<1>5. CASE b = n
  BY <1>3, <1>5
<1>6. CASE a # n /\ b # n
  BY <1>2, <1>6 DEF ClaimsSound
<1> QED BY <1>4, <1>5, <1>6

\* A solved cluster keeps clear of the clusters solved before it: of those
\* that claimed its operator over disjoint windows by keeping to its own
\* window, of the others because they are in the same job.
LEMMA SolveStep ==
    ASSUME TypeOK, OperatorInv, NEW j \in Jobs, NEW c \in j,
           NEW u \in [Operations -> SUBSET Slots], Solve(j, c, u)
    PROVE  UsesSound' /\ OperatorSingleTasking'
<1>1. c \in Clusters /\ stage \in {"independent", "groups"} /\ c \notin solved
  BY JobsShape DEF Solve
<1>2. /\ owner' = owner /\ demand' = demand /\ stage' = stage
      /\ solved' = solved \cup {c} /\ Routable(j, c, u)
      /\ \A n \in Needs : use'[n] = IF n[1] = c THEN u[n[2]] ELSE use[n]
  BY DEF Solve, claims
<1>3. ASSUME NEW n \in Needs, n[1] = c
      PROVE  /\ use'[n] = u[n[2]] /\ u[n[2]] \subseteq demand[n]
             /\ owner[n] = NoOperator => u[n[2]] = {}
             /\ u[n[2]] \cap Held(j, owner[n]) = {}
  <2>1. n = <<c, n[2]>> /\ n[2] \in Operations
    BY <1>3 DEF Needs
  <2>2. use'[n] = u[n[2]]
    BY <1>2, <1>3
  <2> QED BY <1>2, <2>1, <2>2 DEF Routable
<1>4. UsesSound'
  <2>1. ASSUME NEW n \in Needs, n[1] \in solved'
        PROVE  use'[n] \subseteq demand[n] /\ (owner[n] = NoOperator => use'[n] = {})
    <3>1. CASE n[1] = c
      BY <1>3, <3>1
    <3>2. CASE n[1] # c
      BY <1>2, <2>1, <3>2 DEF OperatorInv, UsesSound
    <3> QED BY <3>1, <3>2
  <2> QED BY <1>1, <1>2, <2>1 DEF UsesSound
<1>5. ASSUME NEW n \in Needs, NEW m \in Needs, n[1] = c, m[1] # c, m[1] \in solved,
             owner[n] = owner[m]
      PROVE  use'[n] \cap use'[m] = {}
  <2>1. /\ use'[m] = use[m] /\ use'[n] \subseteq demand[n] /\ use[m] \subseteq demand[m]
        /\ owner[n] = NoOperator => use'[n] = {}
        /\ use'[n] \cap Held(j, owner[n]) = {}
    BY <1>2, <1>3, <1>5 DEF OperatorInv, UsesSound
  <2>2. CASE owner[n] = NoOperator
    BY <2>1, <2>2
  <2>3. CASE owner[n] # NoOperator /\ owner[n] \notin overlap
    <3>1. demand[n] \cap demand[m] = {}
      BY <1>5, <2>3 DEF OperatorInv, ClaimsSound
    <3> QED BY <2>1, <3>1
  <2>4. CASE owner[n] \in overlap
    <3>1. PICK g \in groups : c \in g /\ m[1] \in g
      BY <1>1, <1>5, <2>4 DEF OperatorInv, GroupsSound
    <3>2. stage # "independent"
      <4> SUFFICES ASSUME stage = "independent" PROVE FALSE
        OBVIOUS
      <4>1. j \in {{d} : d \in Clusters \ UNION groups}
        BY DEF Jobs
      <4>2. c \notin UNION groups
        BY <4>1
      <4> QED BY <3>1, <4>2
    <3>3. j \in groups
      BY <1>1, <3>2 DEF Jobs
    <3>4. j = g
      BY <1>1, <3>1, <3>3 DEF OperatorInv, GroupsSound
    <3>5. use[m] \subseteq Held(j, owner[n])
      BY <1>5, <2>4, <3>1, <3>4 DEF Held
    <3> QED BY <2>1, <3>5
  <2> QED BY <2>2, <2>3, <2>4
<1>6. ASSUME NEW n \in Needs, NEW m \in Needs, n # m, n[1] = c, m[1] = c, owner[n] = owner[m]
      PROVE  use'[n] \cap use'[m] = {}
  <2>1. n = <<c, n[2]>> /\ m = <<c, m[2]>> /\ n[2] \in Operations /\ m[2] \in Operations
    BY <1>6 DEF Needs
  <2>2. n[2] # m[2]
    BY <1>6, <2>1
  <2>3. u[n[2]] \cap u[m[2]] = {}
    BY <1>2, <1>6, <2>1, <2>2 DEF Routable
  <2> QED BY <1>3, <1>6, <2>3
<1> SUFFICES ASSUME NEW n \in Needs, NEW m \in Needs, n # m, owner[n] = owner[m],
                    n[1] \in solved', m[1] \in solved'
             PROVE  use'[n] \cap use'[m] = {}
  BY <1>2, <1>4 DEF OperatorSingleTasking
<1>7. CASE n[1] = c /\ m[1] = c
  BY <1>6, <1>7
<1>8. CASE n[1] = c /\ m[1] # c
  BY <1>2, <1>5, <1>8
<1>9. CASE n[1] # c /\ m[1] = c
  BY <1>2, <1>5, <1>9
<1>10. CASE n[1] # c /\ m[1] # c
  BY <1>2, <1>10 DEF OperatorInv, OperatorSingleTasking
<1> QED BY <1>7, <1>8, <1>9, <1>10

LEMMA OperatorStep ==
    ASSUME TypeOK, OperatorInv, PoolNext PROVE OperatorInv'
<1>1. ASSUME NEW n \in unclaimed, Claim(n) PROVE OperatorInv'
  <2>1. stage = "claim" /\ stage' = stage /\ solved = {} /\ phase = "idle" /\ solved' = solved
        /\ groups' = groups /\ phase' = phase
    BY <1>1 DEF Claim, OperatorInv, UsesSound, workers
  <2>2. ClaimsSound'
    BY <1>1, ClaimStep DEF OperatorInv
  <2> QED BY <2>1, <2>2
          DEF OperatorInv, GroupsSound, UsesSound, OperatorSingleTasking
<1>2. CASE EndClaims
  <2>1. /\ groups' = Groups /\ owner' = owner /\ overlap' = overlap /\ demand' = demand
        /\ solved' = solved /\ use' = use /\ stage' = "independent"
    BY <1>2 DEF EndClaims, workers
  <2>2. GroupsSound'
    BY <2>1, GroupsFormed DEF GroupsSound
  <2> QED BY <2>1, <2>2
          DEF OperatorInv, ClaimsSound, UsesSound, OperatorSingleTasking
<1>3. ASSUME NEW j \in Jobs, NEW c \in j, NEW u \in [Operations -> SUBSET Slots],
             Solve(j, c, u)
      PROVE  OperatorInv'
  <2>1. UNCHANGED <<demand, owner, overlap, groups, stage>>
    BY <1>3 DEF Solve, claims
  <2>2. UsesSound' /\ OperatorSingleTasking'
    BY <1>3, SolveStep
  <2> QED BY <2>1, <2>2 DEF OperatorInv, ClaimsSound, GroupsSound
<1>4. ASSUME UNCHANGED <<claims, solved, use>>, stage # "claim", stage' # "claim",
             stage' = "done" => phase' = "idle"
      PROVE  OperatorInv'
  BY <1>4 DEF OperatorInv, ClaimsSound, GroupsSound, UsesSound, OperatorSingleTasking, claims
<1>5. ASSUME NextStage, stage # "claim" PROVE stage' # "claim"
  BY <1>5 DEF NextStage
<1>6. ASSUME NEW j \in Jobs PROVE stage # "claim" /\ stage # "done"
  BY JobsShape
<1>7. phase # "idle" => stage # "claim" /\ stage # "done"
  BY DEF OperatorInv, UsesSound
<1>8. CASE SkipStage
  BY <1>4, <1>5, <1>8 DEF SkipStage, workers
<1>9. CASE Submit
  BY <1>4, <1>9 DEF Submit
<1>10. CASE StartInline
  BY <1>4, <1>10 DEF StartInline
<1>11. CASE EndInline
  BY <1>4, <1>5, <1>7, <1>11 DEF EndInline
<1>12. ASSUME NEW j \in Jobs, Pickup(j) \/ Finish(j) PROVE OperatorInv'
  BY <1>4, <1>6, <1>12 DEF Pickup, Finish
<1>13. CASE First \/ Wait \/ Top \/ EndConsume \/ EndSweep
  BY <1>4, <1>7, <1>13 DEF First, Wait, Top, EndConsume, EndSweep, workers
<1>14. CASE Exit
  BY <1>4, <1>5, <1>7, <1>14 DEF Exit, workers
<1>15. ASSUME NEW j \in batch, Collect(j) PROVE OperatorInv'
  BY <1>4, <1>7, <1>15 DEF Collect, workers
<1>16. ASSUME NEW j \in toSweep, Sweep(j) PROVE OperatorInv'
  BY <1>4, <1>7, <1>16 DEF Sweep
<1>17. CASE WorkerDies
  BY <1>4, <1>7, <1>17 DEF WorkerDies
<1>18. CASE Expire
  BY <1>4, <1>7, <1>18 DEF Expire, workers
<1> QED
  BY <1>1, <1>2, <1>3, <1>8, <1>9, <1>10, <1>11, <1>12, <1>13, <1>14, <1>15,
     <1>16, <1>17, <1>18
  DEF PoolNext, Step

-----------------------------------------------------------------------------
(* The jobs of the stages *)

\* Jobs of one stage, or of different stages, have no cluster in common.
LEMMA JobsDisjoint ==
    ASSUME OperatorInv, stage # "claim",
           NEW j \in Independent \cup groups, NEW k \in Independent \cup groups, j # k
    PROVE  j \cap k = {}
<1>1. ASSUME NEW i \in Independent, NEW g \in groups PROVE i \cap g = {}
  BY DEF Independent
<1>2. CASE j \in Independent /\ k \in Independent
  BY <1>2 DEF Independent
<1>3. CASE j \in groups /\ k \in groups
  BY <1>3 DEF OperatorInv, GroupsSound
<1> QED BY <1>1, <1>2, <1>3

LEMMA StageJobs ==
    ASSUME TypeOK, OperatorInv
    PROVE  /\ Jobs \subseteq SUBSET Clusters /\ PastJobs \subseteq SUBSET Clusters
           /\ stage = "claim" => Jobs = {} /\ PastJobs = {}
           /\ stage = "independent" => Jobs = Independent /\ PastJobs = {}
           /\ stage = "groups" => Jobs = groups /\ PastJobs = Independent
           /\ stage = "done" => Jobs = {} /\ PastJobs = Independent \cup groups
           /\ Jobs \cup PastJobs # {} => stage # "claim"
           /\ Jobs \cup PastJobs \subseteq Independent \cup groups
<1>1. /\ stage = "claim" => Jobs = {} /\ PastJobs = {}
      /\ stage = "independent" => Jobs = Independent /\ PastJobs = {}
      /\ stage = "groups" => Jobs = groups /\ PastJobs = Independent
      /\ stage = "done" => Jobs = {} /\ PastJobs = Independent \cup groups
  BY DEF Jobs, PastJobs, Independent
<1>2. Independent \subseteq SUBSET Clusters /\ groups \subseteq SUBSET Clusters
  BY DEF Independent, TypeOK
<1>3. stage \in {"claim", "independent", "groups", "done"}
  BY DEF TypeOK, Stages
<1> QED BY <1>1, <1>2, <1>3

\* A job of this stage has no cluster in common with another one or with one
\* of an earlier stage.
LEMMA Apart ==
    ASSUME TypeOK, OperatorInv, NEW j \in Jobs, NEW k \in Jobs \cup PastJobs, j # k
    PROVE  j \cap k = {}
<1>1. /\ j \in Independent \cup groups /\ k \in Independent \cup groups
      /\ stage # "claim"
  BY StageJobs
<1> QED BY <1>1, JobsDisjoint

LEMMA NotPast ==
    ASSUME TypeOK, OperatorInv PROVE Jobs \cap PastJobs = {}
<1>1. Independent \cap groups = {}
  BY DEF Independent
<1>2. stage \in {"claim", "independent", "groups", "done"}
  BY DEF TypeOK, Stages
<1> QED BY <1>1, <1>2, StageJobs

LEMMA SameJobs ==
    ASSUME stage' = stage, groups' = groups PROVE Jobs' = Jobs /\ PastJobs' = PastJobs
BY DEF Jobs, PastJobs, Independent

\* A step in which futures of the stage come nearer to being done and nothing
\* else of the collection changes.
LEMMA FutStep ==
    ASSUME TypeOK, OperatorInv, CollectInv, UNCHANGED <<stage, groups, phase, collect, report>>,
           expired \subseteq expired',
           \A k \in SUBSET Clusters :
              \/ fut'[k] = fut[k]
              \/ /\ k \in Jobs /\ ~Done(k) /\ phase # "idle"
                 /\ fut'[k] \in {"running", "finished", "error"}
    PROVE  CollectInv'
<1>1. Jobs' = Jobs /\ PastJobs' = PastJobs
  BY SameJobs
<1>2. Jobs \subseteq SUBSET Clusters /\ PastJobs \subseteq SUBSET Clusters
  BY StageJobs
<1>3. \A k \in Jobs \cup PastJobs : Done(k) => fut'[k] = fut[k]
  BY <1>2
<1>4. CollectSound'
  BY <1>1, <1>3 DEF CollectInv, CollectSound, Done, collect
<1>5. FutSound'
  <2>1. ASSUME NEW k \in SUBSET Clusters,
               k \notin Jobs \cup PastJobs \/ (phase = "idle" /\ k \in Jobs)
        PROVE  fut'[k] = "none"
    BY <2>1 DEF CollectInv, FutSound
  <2>2. ASSUME NEW k \in PastJobs PROVE Done(k)'
    BY <1>3 DEF CollectInv, FutSound, Done
  <2>3. ASSUME NEW k \in Jobs, fut'[k] = "cancelled"
        PROVE  phase \in {"sweep", "exit"} /\ k \notin toSweep
    BY <1>2, <2>3 DEF CollectInv, FutSound
  <2> QED BY <1>1, <2>1, <2>2, <2>3 DEF FutSound, collect
<1>6. RecordsSound'
  <2>1. ASSUME NEW k \in Jobs \cup PastJobs, Outcome(k) PROVE Outcome(k)'
    BY <1>3, <2>1 DEF Outcome, Done, collect, report
  <2>2. \A k \in Jobs : Settled(k)' <=> Settled(k)
    BY DEF Settled, collect
  <2> QED BY <1>1, <2>1, <2>2 DEF CollectInv, RecordsSound, report
<1> QED BY <1>4, <1>5, <1>6 DEF CollectInv

\* The stage is over: each of its jobs is done and has its outcome.
LEMMA StageStep ==
    ASSUME TypeOK, OperatorInv, CollectInv, stage \in {"independent", "groups"}, NextStage,
           UNCHANGED <<groups, collect, expired>>, phase # "consume", phase # "sweep",
           phase' = "idle",
           \A k \in SUBSET Clusters : k \notin Jobs => fut'[k] = fut[k],
           \A k \in Jobs : Done(k)' /\ Outcome(k)',
           \A k \in PastJobs : Outcome(k)',
           \A c \in Clusters \ UNION Jobs : nrec'[c] = nrec[c]
    PROVE  CollectInv'
<1>1. Jobs' \subseteq groups /\ Jobs' \cap (Jobs \cup PastJobs) = {}
      /\ PastJobs' = Jobs \cup PastJobs
  <2>1. Independent' = Independent
    BY DEF Independent
  <2>2. CASE stage = "independent"
    <3>1. stage' = "groups"
      BY <2>2 DEF NextStage
    <3>2. Jobs' = groups /\ PastJobs' = Independent
      BY <2>1, <3>1 DEF Jobs, PastJobs
    <3>3. Independent \cap groups = {}
      BY DEF Independent
    <3> QED BY <2>2, <3>2, <3>3, StageJobs
  <2>3. CASE stage = "groups"
    <3>1. stage' = "done"
      BY <2>3 DEF NextStage
    <3>2. Jobs' = {} /\ PastJobs' = Independent \cup groups
      BY <2>1, <3>1 DEF Jobs, PastJobs
    <3> QED BY <2>3, <3>2, StageJobs
  <2> QED BY <2>2, <2>3
<1>2. /\ Jobs \subseteq SUBSET Clusters /\ PastJobs \subseteq SUBSET Clusters
      /\ groups \subseteq SUBSET Clusters
      /\ Jobs \cup PastJobs \subseteq Independent \cup groups /\ stage # "claim"
      /\ Jobs \cap PastJobs = {}
  BY StageJobs, NotPast DEF TypeOK
<1>3. batch = {} /\ toSweep = {} /\ batch' = {} /\ toSweep' = {} /\ yielded' = yielded
  BY DEF CollectInv, CollectSound, collect
<1>4. CollectSound'
  <2>1. yielded \subseteq Jobs \cup PastJobs
    BY DEF CollectInv, CollectSound
  <2>2. ASSUME NEW k \in yielded PROVE Done(k)'
    BY <1>2, <2>1 DEF CollectInv, CollectSound, Done
  <2> QED BY <1>1, <1>3, <2>1, <2>2 DEF CollectSound
<1>5. FutSound'
  <2>1. ASSUME NEW k \in SUBSET Clusters, k \notin Jobs \cup PastJobs PROVE fut'[k] = "none"
    BY <2>1 DEF CollectInv, FutSound
  <2>2. ASSUME NEW k \in PastJobs PROVE Done(k)'
    BY <1>2 DEF CollectInv, FutSound, Done
  <2>3. \A k \in Jobs' : fut'[k] = "none"
    BY <1>1, <1>2, <2>1
  <2> QED BY <1>1, <2>1, <2>2, <2>3 DEF FutSound
<1>6. RecordsSound'
  <2>1. ASSUME NEW c \in Clusters, c \notin UNION (Jobs \cup PastJobs) PROVE nrec'[c] = 0
    BY <2>1 DEF CollectInv, RecordsSound
  <2>2. ASSUME NEW k \in Jobs', NEW c \in k PROVE nrec'[c] = 0
    <3>1. c \in Clusters
      BY <1>1, <1>2
    <3>2. \A i \in Jobs \cup PastJobs : i \cap k = {}
      BY <1>1, <1>2, JobsDisjoint
    <3> QED BY <2>1, <3>1, <3>2
  <2>3. \A k \in Jobs' : ~Settled(k)'
    BY <1>1, <1>4, <1>3 DEF Settled, CollectSound
  <2> QED BY <1>1, <2>1, <2>2, <2>3 DEF RecordsSound
<1> QED BY <1>4, <1>5, <1>6 DEF CollectInv

-----------------------------------------------------------------------------
(* The collecting process *)

\* Recording an unsettled job leaves every other job's outcome alone.
LEMMA RecordJob ==
    ASSUME TypeOK, OperatorInv, NEW j \in Jobs, NEW s, RecordedAs(j, s),
           \A c \in j : nrec[c] = 0
    PROVE  /\ \A c \in j : nrec'[c] = 1
           /\ \A k \in Jobs \cup PastJobs : k # j => \A c \in k : nrec'[c] = nrec[c]
           /\ \A c \in Clusters : c \notin j => nrec'[c] = nrec[c]
<1>1. j \in SUBSET Clusters /\ Jobs \cup PastJobs \subseteq SUBSET Clusters
  BY StageJobs
<1>2. \A k \in Jobs \cup PastJobs : k # j => j \cap k = {}
  BY Apart
<1> QED BY <1>1, <1>2 DEF RecordedAs, TypeOK

LEMMA CollectStep ==
    ASSUME TypeOK, OperatorInv, CollectInv, NEW j \in batch, Collect(j) PROVE CollectInv'
<1>1. /\ UNCHANGED <<stage, groups, phase, fut, toSweep, expired>> /\ phase = "consume"
      /\ batch' = batch \ {j} /\ yielded' = yielded \cup {j}
  BY DEF Collect, claims, workers
<1>2. Jobs' = Jobs /\ PastJobs' = PastJobs /\ Jobs \cap PastJobs = {}
  BY <1>1, SameJobs, NotPast
<1>3. j \in Jobs /\ j \notin yielded /\ Done(j) /\ ~Settled(j)
  BY <1>1 DEF CollectInv, CollectSound, Settled
<1>4. \A c \in j : nrec[c] = 0
  BY <1>3 DEF CollectInv, RecordsSound
<1>5. /\ \A c \in j : nrec'[c] = 1
      /\ \A k \in Jobs \cup PastJobs : k # j => \A c \in k : nrec'[c] = nrec[c]
      /\ \A c \in Clusters : c \notin j => nrec'[c] = nrec[c]
  BY <1>3, <1>4, RecordJob DEF Collect
<1>6. CollectSound'
  BY <1>1, <1>2, <1>3 DEF CollectInv, CollectSound, Done
<1>7. FutSound'
  BY <1>1, <1>2 DEF CollectInv, FutSound, Done
<1>8. RecordsSound'
  <2>1. ASSUME NEW k \in Jobs \cup PastJobs, k # j, Outcome(k) PROVE Outcome(k)'
    BY <1>1, <1>5, <2>1 DEF Outcome
  <2>2. Outcome(j)'
    BY <1>5 DEF Outcome
  <2>3. \A k \in Jobs : k # j => (Settled(k)' <=> Settled(k))
    BY <1>1 DEF Settled
  <2>4. ASSUME NEW k \in Jobs
        PROVE IF Settled(k)' THEN Outcome(k)' ELSE \A c \in k : nrec'[c] = 0
    <3>1. CASE k = j
      BY <1>1, <2>2, <3>1 DEF Settled
    <3>2. CASE k # j
      BY <1>5, <2>1, <2>3, <3>2 DEF CollectInv, RecordsSound
    <3> QED BY <3>1, <3>2
  <2>5. ASSUME NEW k \in PastJobs PROVE Outcome(k)'
    BY <1>2, <1>3, <2>1 DEF CollectInv, RecordsSound
  <2>6. ASSUME NEW c \in Clusters, c \notin UNION (Jobs \cup PastJobs) PROVE nrec'[c] = 0
    BY <1>3, <1>5, <2>6 DEF CollectInv, RecordsSound
  <2> QED BY <1>2, <2>4, <2>5, <2>6 DEF RecordsSound
<1> QED BY <1>6, <1>7, <1>8 DEF CollectInv

LEMMA SweepStep ==
    ASSUME TypeOK, OperatorInv, CollectInv, NEW j \in toSweep, Sweep(j) PROVE CollectInv'
<1>1. /\ UNCHANGED <<stage, groups, phase, batch, yielded, expired>> /\ phase = "sweep"
      /\ toSweep' = toSweep \ {j}
  BY DEF Sweep, claims
<1>2. Jobs' = Jobs /\ PastJobs' = PastJobs /\ Jobs \cap PastJobs = {}
      /\ Jobs \cup PastJobs \subseteq SUBSET Clusters
  BY <1>1, SameJobs, NotPast, StageJobs
<1>3. j \in Jobs /\ expired # {} /\ (Settled(j) <=> j \in yielded)
  BY <1>1 DEF CollectInv, CollectSound, Settled
<1>4. /\ \A k \in SUBSET Clusters : k # j => fut'[k] = fut[k]
      /\ Done(j) => fut'[j] = fut[j]
      /\ ~Done(j) => fut'[j] = IF fut[j] = "pending" THEN "cancelled" ELSE fut[j]
  BY <1>2, <1>3 DEF Sweep, TypeOK
<1>5. /\ Done(j) => nrec' = nrec
      /\ ~Done(j) => RecordedAs(j, StalledStatus)
  BY DEF Sweep, report
<1>6. ~Done(j) => j \notin yielded /\ \A c \in j : nrec[c] = 0
  BY <1>3 DEF CollectInv, CollectSound, RecordsSound
<1>7. /\ ~Done(j) => \A c \in j : nrec'[c] = 1
      /\ \A k \in Jobs \cup PastJobs : k # j => \A c \in k : nrec'[c] = nrec[c]
      /\ \A c \in Clusters : c \notin j => nrec'[c] = nrec[c]
  BY <1>3, <1>5, <1>6, RecordJob
<1>8. CollectSound'
  <2>1. \A k \in batch \cup yielded : k \in SUBSET Clusters /\ Done(k)
    BY <1>2 DEF CollectInv, CollectSound
  <2>2. \A k \in batch \cup yielded : Done(k)'
    BY <1>4, <2>1 DEF Done
  <2> QED BY <1>1, <1>2, <2>2 DEF CollectInv, CollectSound
<1>9. FutSound'
  <2>1. \A k \in SUBSET Clusters : k \notin Jobs \cup PastJobs => fut'[k] = "none"
    BY <1>3, <1>4 DEF CollectInv, FutSound
  <2>2. \A k \in PastJobs : Done(k)'
    BY <1>2, <1>3, <1>4 DEF CollectInv, FutSound, Done
  <2>3. ASSUME NEW k \in Jobs, fut'[k] = "cancelled" PROVE k \notin toSweep'
    BY <1>1, <1>2, <1>4, <2>3 DEF CollectInv, FutSound
  <2> QED BY <1>1, <1>2, <2>1, <2>2, <2>3 DEF FutSound
<1>10. RecordsSound'
  <2>1. ASSUME NEW k \in Jobs \cup PastJobs, k # j, Outcome(k) PROVE Outcome(k)'
    BY <1>1, <1>2, <1>4, <1>7, <2>1 DEF Outcome
  <2>2. Outcome(j)'
    <3>1. CASE ~Done(j)
      BY <1>7, <3>1 DEF Outcome
    <3>2. CASE Done(j) /\ j \in yielded
      BY <1>1, <1>3, <1>4, <1>5, <3>2 DEF CollectInv, RecordsSound, Outcome
    <3>3. CASE Done(j) /\ j \notin yielded
      <4>1. \A c \in j : nrec'[c] = 0
        BY <1>3, <1>5, <3>3 DEF CollectInv, RecordsSound
      <4>2. fut[j] # "cancelled"
        BY <1>3 DEF CollectInv, FutSound
      <4> QED BY <1>1, <1>3, <1>4, <3>3, <4>1, <4>2 DEF Outcome, Done
    <3> QED BY <3>1, <3>2, <3>3
  <2>3. \A k \in Jobs : k # j => (Settled(k)' <=> Settled(k))
    BY <1>1 DEF Settled
  <2>4. ASSUME NEW k \in Jobs
        PROVE IF Settled(k)' THEN Outcome(k)' ELSE \A c \in k : nrec'[c] = 0
    <3>1. CASE k = j
      BY <1>1, <2>2, <3>1 DEF Settled
    <3>2. CASE k # j
      BY <1>7, <2>1, <2>3, <3>2 DEF CollectInv, RecordsSound
    <3> QED BY <3>1, <3>2
  <2>5. ASSUME NEW k \in PastJobs PROVE Outcome(k)'
    BY <1>2, <1>3, <2>1 DEF CollectInv, RecordsSound
  <2>6. ASSUME NEW c \in Clusters, c \notin UNION (Jobs \cup PastJobs) PROVE nrec'[c] = 0
    BY <1>3, <1>7, <2>6 DEF CollectInv, RecordsSound
  <2> QED BY <1>2, <2>4, <2>5, <2>6 DEF RecordsSound
<1> QED BY <1>8, <1>9, <1>10 DEF CollectInv

\* Steps that move the process through the loop of as_completed.
LEMMA LoopStep ==
    ASSUME TypeOK, OperatorInv, CollectInv,
           First \/ Top \/ Wait \/ EndConsume \/ EndSweep
    PROVE  CollectInv'
<1>1. UNCHANGED <<stage, groups, fut, yielded, expired, nrec>>
  BY DEF First, Top, Wait, EndConsume, EndSweep, claims, workers, collect, report
<1>2. Jobs' = Jobs /\ PastJobs' = PastJobs
  BY <1>1, SameJobs
<1>3. \A k : (Done(k)' <=> Done(k)) /\ (Outcome(k)' <=> Outcome(k))
  BY <1>1 DEF Done, Outcome
<1>4. CollectSound'
  BY <1>1, <1>2, <1>3
  DEF CollectInv, CollectSound, First, Top, Wait, EndConsume, EndSweep, collect
<1>5. FutSound'
  <2>1. phase # "idle" /\ phase' # "idle"
    BY DEF First, Top, Wait, EndConsume, EndSweep
  <2>2. ASSUME NEW k \in Jobs, fut[k] = "cancelled"
        PROVE  phase' \in {"sweep", "exit"} /\ k \notin toSweep'
    <3>1. phase \in {"sweep", "exit"} /\ k \notin toSweep
      BY <2>2 DEF CollectInv, FutSound
    <3> QED BY <3>1 DEF First, Top, Wait, EndConsume, EndSweep, collect
  <2> QED BY <1>1, <1>2, <1>3, <2>1, <2>2 DEF CollectInv, FutSound
<1>6. RecordsSound'
  <2>1. ASSUME NEW k \in Jobs PROVE Settled(k)' <=> Settled(k)
    BY <1>1 DEF CollectInv, CollectSound, Settled, First, Top, Wait, EndConsume, EndSweep, collect
  <2> QED BY <1>1, <1>2, <1>3, <2>1 DEF CollectInv, RecordsSound
<1> QED BY <1>4, <1>5, <1>6 DEF CollectInv

\* The jobs of a stage are handed over.
LEMMA HandOver ==
    ASSUME TypeOK, OperatorInv, CollectInv, phase = "idle",
           UNCHANGED <<stage, groups, collect, expired, report>>,
           phase' \in {"first", "inline"}, NEW s \in {"pending", "running"},
           fut' = [j \in SUBSET Clusters |-> IF j \in Jobs THEN s ELSE fut[j]]
    PROVE  CollectInv'
<1>1. /\ Jobs' = Jobs /\ PastJobs' = PastJobs /\ Jobs \cap PastJobs = {}
      /\ Jobs \cup PastJobs \subseteq SUBSET Clusters
  BY SameJobs, NotPast, StageJobs
<1>2. UNCHANGED <<batch, yielded, toSweep, nrec>>
  BY DEF collect, report
<1>3. batch = {} /\ toSweep = {} /\ yielded \subseteq PastJobs /\ yielded \cap Jobs = {}
  BY DEF CollectInv, CollectSound
<1>4. \A k \in SUBSET Clusters : k \notin Jobs => fut'[k] = fut[k]
  OBVIOUS
<1>5. \A k \in Jobs : fut'[k] = s
  BY <1>1
<1>6. \A k \in PastJobs : fut'[k] = fut[k]
  BY <1>1, <1>4
<1>7. CollectSound'
  BY <1>1, <1>2, <1>3, <1>6 DEF CollectInv, CollectSound, Done
<1>8. FutSound'
  <2>1. \A k \in SUBSET Clusters : k \notin Jobs \cup PastJobs => fut'[k] = "none"
    BY <1>4 DEF CollectInv, FutSound
  <2>2. \A k \in PastJobs : Done(k)'
    BY <1>6 DEF CollectInv, FutSound, Done
  <2> QED BY <1>1, <1>5, <2>1, <2>2 DEF FutSound
<1>9. RecordsSound'
  <2>1. \A k \in PastJobs : Outcome(k) => Outcome(k)'
    BY <1>2, <1>6 DEF Outcome
  <2>2. \A k \in Jobs : ~Settled(k) /\ ~Settled(k)'
    BY <1>2, <1>3 DEF Settled
  <2> QED BY <1>1, <1>2, <2>1, <2>2 DEF CollectInv, RecordsSound
<1> QED BY <1>7, <1>8, <1>9 DEF CollectInv

LEMMA CollectionStep ==
    ASSUME TypeOK, OperatorInv, CollectInv, PoolNext PROVE CollectInv'
<1> USE DEF claims, workers, collect, report
<1>1. ASSUME NEW n \in unclaimed, Claim(n) PROVE CollectInv'
  BY <1>1, FutStep DEF Claim
<1>2. CASE EndClaims
  <2>1. Jobs = {} /\ PastJobs = {} /\ PastJobs' = {} /\ Jobs' \subseteq SUBSET Clusters
    BY <1>2 DEF EndClaims, Jobs, PastJobs
  <2>2. batch' = {} /\ yielded' = {} /\ toSweep' = {} /\ phase' = "idle"
    BY <1>2, <2>1 DEF EndClaims, CollectInv, CollectSound, OperatorInv, UsesSound
  <2>3. \A k \in SUBSET Clusters : fut'[k] = "none"
    BY <1>2, <2>1 DEF EndClaims, CollectInv, FutSound
  <2>4. \A c \in Clusters : nrec'[c] = 0
    BY <1>2, <2>1 DEF EndClaims, CollectInv, RecordsSound
  <2>5. CollectSound'
    BY <2>1, <2>2 DEF CollectSound
  <2>6. FutSound'
    BY <2>1, <2>2, <2>3 DEF FutSound
  <2>7. RecordsSound'
    BY <2>1, <2>2, <2>4 DEF RecordsSound, Settled
  <2> QED BY <2>5, <2>6, <2>7 DEF CollectInv
<1>3. CASE SkipStage
  <2>1. Jobs = {} /\ \A k \in PastJobs : Outcome(k)'
    BY <1>3 DEF SkipStage, CollectInv, RecordsSound, Outcome
  <2> QED BY <1>3, <2>1, StageStep DEF SkipStage
<1>4. CASE Submit
  BY <1>4, HandOver DEF Submit
<1>5. CASE StartInline
  BY <1>5, HandOver DEF StartInline
<1>6. CASE EndInline
  <2>1. UNCHANGED <<groups, batch, yielded, toSweep, expired>> /\ phase = "inline"
    BY <1>6 DEF EndInline
  <2>2. Jobs \cup PastJobs \subseteq SUBSET Clusters /\ Jobs \cap PastJobs = {}
    BY StageJobs, NotPast
  <2>3. \A k \in Jobs : ~Settled(k)
    BY <2>1 DEF CollectInv, CollectSound, Settled
  <2>4. \A k \in Jobs : \A c \in k : nrec[c] = 0
    BY <2>3 DEF CollectInv, RecordsSound
  <2>5. \A k \in Jobs : \A c \in k : nrec'[c] = 1
    BY <1>6, <2>2, <2>4 DEF EndInline, RecordedAs
  <2>6. \A k \in Jobs : Done(k)' /\ Outcome(k)'
    BY <1>6, <2>2, <2>5 DEF EndInline, Done, Outcome
  <2>7. \A c \in Clusters \ UNION Jobs : nrec'[c] = nrec[c]
    BY <1>6 DEF EndInline, RecordedAs
  <2>8. \A k \in SUBSET Clusters : k \notin Jobs => fut'[k] = fut[k]
    BY <1>6 DEF EndInline
  <2>9. ASSUME NEW k \in PastJobs PROVE Outcome(k)'
    <3>1. \A c \in k : c \in Clusters \ UNION Jobs
      BY <2>2, Apart
    <3>2. Outcome(k)
      BY DEF CollectInv, RecordsSound
    <3>3. fut'[k] = fut[k]
      BY <2>2, <2>8
    <3> QED BY <2>1, <2>7, <3>1, <3>2, <3>3 DEF Outcome
  <2>10. stage \in {"independent", "groups"}
    BY <2>1 DEF OperatorInv, UsesSound, TypeOK, Stages
  <2> QED BY <1>6, <2>1, <2>6, <2>7, <2>8, <2>9, <2>10, StageStep DEF EndInline
<1>7. ASSUME NEW j \in Jobs, Pickup(j) PROVE CollectInv'
  <2>1. fut[j] = "pending" /\ j \in SUBSET Clusters
    BY <1>7, StageJobs DEF Pickup
  <2>2. phase # "idle" /\ ~Done(j)
    BY <2>1 DEF CollectInv, FutSound, Done
  <2> QED BY <1>7, <2>1, <2>2, FutStep DEF Pickup, TypeOK
<1>8. ASSUME NEW j \in Jobs, Finish(j) PROVE CollectInv'
  <2>1. fut[j] = "running" /\ j \in SUBSET Clusters
    BY <1>8, StageJobs DEF Finish
  <2>2. phase # "idle" /\ ~Done(j)
    BY <2>1 DEF CollectInv, FutSound, Done
  <2> QED BY <1>8, <2>1, <2>2, FutStep DEF Finish, TypeOK
<1>9. ASSUME NEW j \in Jobs, NEW c \in j, NEW u \in [Operations -> SUBSET Slots],
             Solve(j, c, u)
      PROVE  CollectInv'
  BY <1>9, FutStep DEF Solve
<1>10. CASE First \/ Top \/ Wait \/ EndConsume \/ EndSweep
  BY <1>10, LoopStep
<1>11. CASE Exit
  <2>1. stage \in {"independent", "groups"}
    BY <1>11 DEF Exit, OperatorInv, UsesSound, TypeOK, Stages
  <2>2. \A k \in Jobs : Done(k)' /\ Outcome(k)'
    BY <1>11 DEF Exit, Done, Outcome, Settled, CollectInv, RecordsSound
  <2>3. \A k \in PastJobs : Outcome(k)'
    BY <1>11 DEF Exit, Outcome, CollectInv, RecordsSound
  <2> QED BY <1>11, <2>1, <2>2, <2>3, StageStep DEF Exit
<1>12. ASSUME NEW j \in batch, Collect(j) PROVE CollectInv'
  BY <1>12, CollectStep
<1>13. ASSUME NEW j \in toSweep, Sweep(j) PROVE CollectInv'
  BY <1>13, SweepStep
<1>14. CASE WorkerDies
  BY <1>14, FutStep DEF WorkerDies, TypeOK
<1>15. CASE Expire
  BY <1>15, FutStep DEF Expire
<1> QED
  BY <1>1, <1>2, <1>3, <1>4, <1>5, <1>6, <1>7, <1>8, <1>9, <1>10, <1>11, <1>12,
     <1>13, <1>14, <1>15
  DEF PoolNext, Step

-----------------------------------------------------------------------------
(* Theorems *)

\* The invariant behind the pool: claims, groups, futures and records agree
\* in every state pool_solve reaches, whenever workers die or time runs out.
THEOREM PoolInvariant == PoolSpec => []PoolInv
<1>1. PoolInit => PoolInv
  BY InitPool
<1>2. PoolInv /\ [PoolNext]_poolVars => PoolInv'
  <2> SUFFICES ASSUME PoolInv, [PoolNext]_poolVars PROVE PoolInv'
    OBVIOUS
  <2>1. CASE PoolNext
    <3>1. batch \subseteq Jobs /\ toSweep \subseteq Jobs
      BY DEF PoolInv, CollectInv, CollectSound
    <3> QED BY <2>1, <3>1, TypeStep, OperatorStep, CollectionStep DEF PoolInv
  <2>2. CASE UNCHANGED poolVars
    <3> USE DEF poolVars, claims, workers, collect, report
    <3>1. TypeOK'
      BY <2>2 DEF PoolInv, TypeOK
    <3>2. OperatorInv'
      BY <2>2 DEF PoolInv, OperatorInv, ClaimsSound, GroupsSound, UsesSound,
                  OperatorSingleTasking
    <3>3. CollectInv'
      BY <2>2, FutStep DEF PoolInv
    <3> QED BY <3>1, <3>2, <3>3 DEF PoolInv
  <2> QED BY <2>1, <2>2
<1> QED BY <1>1, <1>2, PTL DEF PoolSpec

\* Type correctness of the pool.
THEOREM PoolTypeCorrect == PoolSpec => []TypeOK
<1>1. PoolInv => TypeOK
  BY DEF PoolInv
<1> QED BY <1>1, PoolInvariant, PTL

\* However clusters share backup operators, no operator is committed to two
\* places at once by what the worker processes solve.
THEOREM OperatorsSafe == PoolSpec => []OperatorSingleTasking
<1>1. PoolInv => OperatorSingleTasking
  BY DEF PoolInv, OperatorInv
<1> QED BY <1>1, PoolInvariant, PTL

\* A cluster is in a job of this stage, of an earlier one, or has no record.
LEMMA RecordsPerCluster ==
    ASSUME PoolInv, NEW c \in Clusters
    PROVE  \/ nrec[c] = 0
           \/ nrec[c] = 1
<1>1. CASE c \notin UNION (Jobs \cup PastJobs)
  BY <1>1 DEF PoolInv, CollectInv, RecordsSound
<1>2. CASE \E j \in Jobs \cup PastJobs : c \in j
  BY <1>2 DEF PoolInv, CollectInv, RecordsSound, Outcome
<1> QED BY <1>1, <1>2

\* No cluster is returned twice: not by a result and the timeout handler, and
\* not by a group and the independent batch.
THEOREM RecordedAtMostOnce == PoolSpec => []AtMostOneRecord
<1>1. PoolInv => AtMostOneRecord
  BY RecordsPerCluster DEF AtMostOneRecord
<1> QED BY <1>1, PoolInvariant, PTL

\* Without a timeout each cluster is returned exactly once, whatever workers
\* die.
THEOREM ReportedInTime == PoolSpec => []AllReportedInTime
<1>1. PoolInv => AllReportedInTime
  <2> SUFFICES ASSUME PoolInv, stage = "done", expired = {}, NEW c \in Clusters
               PROVE  nrec[c] = 1
    BY DEF AllReportedInTime
  <2>1. PastJobs = Independent \cup groups
    BY StageJobs DEF PoolInv
  <2>2. PICK j \in PastJobs : c \in j
    <3>1. CASE c \in UNION groups
      BY <2>1, <3>1
    <3>2. CASE c \notin UNION groups
      BY <2>1, <3>2 DEF Independent
    <3> QED BY <3>1, <3>2
  <2> QED BY <2>2 DEF PoolInv, CollectInv, RecordsSound, Outcome
<1> QED BY <1>1, PoolInvariant, PTL

\* A timeout loses results that are there, never outstanding work.
THEOREM TimeoutLosesOnlyDone == PoolSpec => []OnlyDoneLost
<1>1. PoolInv => OnlyDoneLost
  BY DEF PoolInv, CollectInv, RecordsSound, Settled, Outcome, OnlyDoneLost, Done
<1> QED BY <1>1, PoolInvariant, PTL

\* pool_solve returns with no worker running.
THEOREM PoolQuiesces == PoolSpec => []NoWorkLeftBehind
<1>1. PoolInv => NoWorkLeftBehind
  <2> SUFFICES ASSUME PoolInv, stage = "done", NEW j \in SUBSET Clusters
               PROVE  fut[j] \notin {"pending", "running"}
    BY DEF NoWorkLeftBehind
  <2>1. Jobs = {}
    BY StageJobs DEF PoolInv
  <2> QED BY <2>1 DEF PoolInv, CollectInv, FutSound, Done
<1> QED BY <1>1, PoolInvariant, PTL

\* What pool_solve answers for its clusters, whatever workers die and whenever
\* the timeout expires.
THEOREM PoolAnswersSound == PoolSpec => []PoolAnswers
<1> QED BY RecordedAtMostOnce, ReportedInTime, TimeoutLosesOnlyDone, PoolQuiesces, PTL DEF PoolAnswers

-----------------------------------------------------------------------------
(* Facts about the data *)

\* A non-empty set of naturals has a least element.
LEMMA LeastNumber ==
    ASSUME NEW T \in SUBSET Nat, T # {}
    PROVE  \E x \in T : \A y \in T : x <= y
<1> DEFINE R == {ss \in Nat \X Nat : ss[1] < ss[2]}
<1>1. IsWellFoundedOn(R, Nat)
  BY NatLessThanWellFounded, Zenon DEF OpToRel
<1>2. \E x \in T : \A y \in T : ~ (<<y, x>> \in R)
  <2> HIDE DEF R
  <2> QED BY <1>1, WFMin, Zenon
<1>3. PICK x \in T : \A y \in T : ~ (<<y, x>> \in R)
  BY <1>2
<1>4. ASSUME NEW y \in T PROVE x <= y
  <2>1. <<y, x>> \notin R
    BY <1>3
  <2> QED BY <2>1
<1> QED BY <1>4

Classes == {Identical, Backward, Breaking}

\* The worst of some change classes is one of them or Identical, and none of
\* them is worse (_max_change).
LEMMA WorstBounds ==
    ASSUME NEW C \in SUBSET Classes
    PROVE  /\ Worst(C) \in Classes
           /\ Worst(C) = Identical \/ Worst(C) \in C
           /\ \A x \in C : x <= Worst(C)
<1>1. CASE C = {}
  BY <1>1 DEF Worst, Classes
<1>2. CASE C # {}
  <2>1. \E x \in C : \A y \in C : x >= y
    <3>1. \A x \in C : x = 0 \/ x = 1 \/ x = 2
      BY DEF Classes, Identical, Backward, Breaking
    <3>2. CASE 2 \in C
      BY <3>1, <3>2
    <3>3. CASE 2 \notin C /\ 1 \in C
      BY <3>1, <3>3
    <3>4. CASE 2 \notin C /\ 1 \notin C
      BY <1>2, <3>1, <3>4
    <3> QED BY <3>2, <3>3, <3>4
  <2>2. Max(C) \in C /\ \A y \in C : Max(C) >= y
    BY <2>1 DEF Max
  <2> QED BY <1>2, <2>2 DEF Worst, Classes, Identical, Backward, Breaking
<1> QED BY <1>1, <1>2

\* A bound on every class bounds the worst.
LEMMA WorstLeast ==
    ASSUME NEW C \in SUBSET Classes, NEW k \in Classes, \A x \in C : x <= k
    PROVE  Worst(C) <= k
BY WorstBounds DEF Classes, Identical, Backward, Breaking

-----------------------------------------------------------------------------
(* Two changes in a row are no worse together than the worse of the two *)

\* classify_change
LEMMA ChangeComposes ==
    ASSUME NEW p, NEW q, NEW r, NEW k \in Classes,
           ClassifyChange(p, q) <= k, ClassifyChange(q, r) <= k
    PROVE  ClassifyChange(p, r) <= k
BY DEF ClassifyChange, Classes, Identical, Backward, Breaking

LEMMA ChangeClass ==
    ASSUME NEW p, NEW q
    PROVE  ClassifyChange(p, q) \in Classes
BY DEF ClassifyChange, Classes

\* _diff_additive_list, _diff_metric_codes and the keys compared one by one
LEMMA DiffClasses ==
    ASSUME NEW p, NEW q
    PROVE  /\ DiffAdditive(p, q) \in Classes /\ DiffCodes(p, q) \in Classes
           /\ DiffUnit(p, q) \in Classes /\ DiffOther(p, q) \in Classes
BY DEF DiffAdditive, DiffCodes, DiffUnit, DiffOther, Classes

LEMMA DiffsCompose ==
    ASSUME NEW p, NEW q, NEW r, NEW k \in Classes
    PROVE  /\ DiffAdditive(p, q) <= k /\ DiffAdditive(q, r) <= k => DiffAdditive(p, r) <= k
           /\ DiffCodes(p, q) <= k /\ DiffCodes(q, r) <= k => DiffCodes(p, r) <= k
           /\ DiffUnit(p, q) <= k /\ DiffUnit(q, r) <= k => DiffUnit(p, r) <= k
           /\ DiffOther(p, q) <= k /\ DiffOther(q, r) <= k => DiffOther(p, r) <= k
<1> USE DEF Classes, Identical, Backward, Breaking
<1>1. DiffAdditive(p, q) <= k /\ DiffAdditive(q, r) <= k => DiffAdditive(p, r) <= k
  BY DEF DiffAdditive
<1>2. DiffCodes(p, q) <= k /\ DiffCodes(q, r) <= k => DiffCodes(p, r) <= k
  BY DEF DiffCodes
<1>3. DiffUnit(p, q) <= k /\ DiffUnit(q, r) <= k => DiffUnit(p, r) <= k
  BY DEF DiffUnit
<1>4. DiffOther(p, q) <= k /\ DiffOther(q, r) <= k => DiffOther(p, r) <= k
  BY DEF DiffOther
<1> QED BY <1>1, <1>2, <1>3, <1>4

\* The contract block of a mapping.
LEMMA ContractBlockComposes ==
    ASSUME NEW p, NEW q, NEW r, NEW k \in Classes,
           DiffContractBlock(p, q) <= k, DiffContractBlock(q, r) <= k
    PROVE  DiffContractBlock(p, r) <= k
<1> DEFINE parts(x, y) == {DiffAdditive(x.uses, y.uses), DiffCodes(x.codes, y.codes),
                           DiffOther(x.rest, y.rest)}
<1>1. \A x, y : parts(x, y) \subseteq Classes /\ DiffContractBlock(x, y) = Worst(parts(x, y))
  BY DiffClasses, Zenon DEF DiffContractBlock
<1>2. \A x, y : DiffContractBlock(x, y) <= k => \A t \in parts(x, y) : t <= k
  <2> SUFFICES ASSUME NEW x, NEW y, DiffContractBlock(x, y) <= k, NEW t \in parts(x, y) PROVE t <= k
    OBVIOUS
  <2>1. t <= Worst(parts(x, y)) /\ Worst(parts(x, y)) \in Classes /\ t \in Classes
    BY <1>1, WorstBounds
  <2>2. Worst(parts(x, y)) <= k
    BY <1>1, Zenon
  <2> HIDE DEF parts
  <2> QED BY <2>1, <2>2 DEF Classes, Identical, Backward, Breaking
<1>3. /\ DiffAdditive(p.uses, q.uses) <= k /\ DiffAdditive(q.uses, r.uses) <= k
      /\ DiffCodes(p.codes, q.codes) <= k /\ DiffCodes(q.codes, r.codes) <= k
      /\ DiffOther(p.rest, q.rest) <= k /\ DiffOther(q.rest, r.rest) <= k
  BY <1>2
<1>4. /\ DiffAdditive(p.uses, r.uses) <= k /\ DiffCodes(p.codes, r.codes) <= k
      /\ DiffOther(p.rest, r.rest) <= k
  BY <1>3, DiffsCompose
<1>5. Worst(parts(p, r)) <= k
  <2>1. \A t \in parts(p, r) : t <= k
    BY <1>4
  <2>2. parts(p, r) \in SUBSET Classes
    BY <1>1
  <2> HIDE DEF parts
  <2> QED BY <2>1, <2>2, WorstLeast
<1> QED BY <1>1, <1>5

\* The block of one source field.
LEMMA FieldBlockComposes ==
    ASSUME NEW p, NEW q, NEW r, NEW k \in Classes,
           DiffFieldBlock(p, q) <= k, DiffFieldBlock(q, r) <= k
    PROVE  DiffFieldBlock(p, r) <= k
<1> DEFINE parts(x, y) == {DiffUnit(x.unit, y.unit), DiffAdditive(x.uses, y.uses),
                           DiffOther(x.target, y.target), DiffOther(x.rest, y.rest)}
<1>1. \A x, y : parts(x, y) \subseteq Classes /\ DiffFieldBlock(x, y) = Worst(parts(x, y))
  BY DiffClasses, Zenon DEF DiffFieldBlock
<1>2. \A x, y : DiffFieldBlock(x, y) <= k => \A t \in parts(x, y) : t <= k
  <2> SUFFICES ASSUME NEW x, NEW y, DiffFieldBlock(x, y) <= k, NEW t \in parts(x, y) PROVE t <= k
    OBVIOUS
  <2>1. t <= Worst(parts(x, y)) /\ Worst(parts(x, y)) \in Classes /\ t \in Classes
    BY <1>1, WorstBounds
  <2>2. Worst(parts(x, y)) <= k
    BY <1>1, Zenon
  <2> HIDE DEF parts
  <2> QED BY <2>1, <2>2 DEF Classes, Identical, Backward, Breaking
<1>3. /\ DiffUnit(p.unit, q.unit) <= k /\ DiffUnit(q.unit, r.unit) <= k
      /\ DiffAdditive(p.uses, q.uses) <= k /\ DiffAdditive(q.uses, r.uses) <= k
      /\ DiffOther(p.target, q.target) <= k /\ DiffOther(q.target, r.target) <= k
      /\ DiffOther(p.rest, q.rest) <= k /\ DiffOther(q.rest, r.rest) <= k
  BY <1>2
<1>4. /\ DiffUnit(p.unit, r.unit) <= k /\ DiffAdditive(p.uses, r.uses) <= k
      /\ DiffOther(p.target, r.target) <= k /\ DiffOther(p.rest, r.rest) <= k
  BY <1>3, DiffsCompose
<1>5. Worst(parts(p, r)) <= k
  <2>1. \A t \in parts(p, r) : t <= k
    BY <1>4
  <2>2. parts(p, r) \in SUBSET Classes
    BY <1>1
  <2> HIDE DEF parts
  <2> QED BY <2>1, <2>2, WorstLeast
<1> QED BY <1>1, <1>5

\* The classes of single blocks are classes.
LEMMA BlockClasses ==
    ASSUME NEW p, NEW q
    PROVE  DiffContractBlock(p, q) \in Classes /\ DiffFieldBlock(p, q) \in Classes
<1>1. {DiffAdditive(p.uses, q.uses), DiffCodes(p.codes, q.codes),
       DiffOther(p.rest, q.rest)} \subseteq Classes
  BY DiffClasses
<1>2. {DiffUnit(p.unit, q.unit), DiffAdditive(p.uses, q.uses),
       DiffOther(p.target, q.target), DiffOther(p.rest, q.rest)} \subseteq Classes
  BY DiffClasses
<1> QED BY <1>1, <1>2, WorstBounds DEF DiffContractBlock, DiffFieldBlock

\* The parts a mapping change is the worst of.
MappingParts(p, q) ==
    {DiffContractBlock(p.contract, q.contract)}
    \cup {Breaking : s \in DOMAIN p.fields \ DOMAIN q.fields}
    \cup {Backward : s \in DOMAIN q.fields \ DOMAIN p.fields}
    \cup {DiffFieldBlock(p.fields[s], q.fields[s]) : s \in DOMAIN p.fields \cap DOMAIN q.fields}

LEMMA MappingIsWorst ==
    ASSUME NEW p, NEW q
    PROVE  MappingParts(p, q) \in SUBSET Classes /\ ClassifySemantic(p, q) = Worst(MappingParts(p, q))
<1>1. ClassifySemantic(p, q) = Worst(MappingParts(p, q))
  BY Zenon DEF ClassifySemantic, MappingParts
<1>2. ASSUME NEW t \in MappingParts(p, q) PROVE t \in Classes
  BY BlockClasses DEF MappingParts, Classes
<1> QED BY <1>1, <1>2

\* classify_semantic_metadata_change
LEMMA SemanticClass ==
    ASSUME NEW p, NEW q
    PROVE  ClassifySemantic(p, q) \in Classes
BY MappingIsWorst, WorstBounds

\* A bound on the change of a mapping is one on each of its parts.
LEMMA SemanticBound ==
    ASSUME NEW p, NEW q, NEW k \in Classes
    PROVE  ClassifySemantic(p, q) <= k <=>
               /\ DiffContractBlock(p.contract, q.contract) <= k
               /\ DOMAIN p.fields \ DOMAIN q.fields # {} => Breaking <= k
               /\ DOMAIN q.fields \ DOMAIN p.fields # {} => Backward <= k
               /\ \A s \in DOMAIN p.fields \cap DOMAIN q.fields :
                      DiffFieldBlock(p.fields[s], q.fields[s]) <= k
<1>1. ClassifySemantic(p, q) <= k <=> \A t \in MappingParts(p, q) : t <= k
  <2>1. ASSUME \A t \in MappingParts(p, q) : t <= k PROVE ClassifySemantic(p, q) <= k
    BY <2>1, MappingIsWorst, WorstLeast
  <2>2. ASSUME ClassifySemantic(p, q) <= k, NEW t \in MappingParts(p, q) PROVE t <= k
    <3>1. /\ t <= Worst(MappingParts(p, q)) /\ Worst(MappingParts(p, q)) <= k
          /\ t \in Classes /\ Worst(MappingParts(p, q)) \in Classes
      BY <2>2, MappingIsWorst, WorstBounds
    <3> QED BY <3>1 DEF Classes, Identical, Backward, Breaking
  <2> QED BY <2>1, <2>2
<1> QED BY <1>1 DEF MappingParts

LEMMA SemanticComposes ==
    ASSUME NEW p, NEW q, NEW r, NEW k \in Classes,
           ClassifySemantic(p, q) <= k, ClassifySemantic(q, r) <= k
    PROVE  ClassifySemantic(p, r) <= k
<1>1. DiffContractBlock(p.contract, r.contract) <= k
  BY SemanticBound, ContractBlockComposes
<1>2. DOMAIN p.fields \ DOMAIN r.fields # {} => Breaking <= k
  BY SemanticBound
<1>3. DOMAIN r.fields \ DOMAIN p.fields # {} => Backward <= k
  BY SemanticBound
<1>4. ASSUME NEW s \in DOMAIN p.fields \cap DOMAIN r.fields
      PROVE  DiffFieldBlock(p.fields[s], r.fields[s]) <= k
  <2>1. CASE s \in DOMAIN q.fields
    <3>1. DiffFieldBlock(p.fields[s], q.fields[s]) <= k /\ DiffFieldBlock(q.fields[s], r.fields[s]) <= k
      BY <2>1, SemanticBound
    <3> QED BY <3>1, FieldBlockComposes
  <2>2. CASE s \notin DOMAIN q.fields
    <3>1. Breaking <= k
      BY <2>2, SemanticBound
    <3>2. DiffFieldBlock(p.fields[s], r.fields[s]) \in Classes
      BY BlockClasses
    <3> QED BY <3>1, <3>2 DEF Classes, Identical, Backward, Breaking
  <2> QED BY <2>1, <2>2
<1> QED BY <1>1, <1>2, <1>3, <1>4, SemanticBound

-----------------------------------------------------------------------------
(* The policy holds along a path when it holds between neighbours *)

\* version_policy_errors
LEMMA PolicyComposes ==
    ASSUME NEW u, NEW v, NEW w,
           Parsed(u) \in Versions, Parsed(v) \in Versions, Parsed(w) \in Versions,
           NEW k \in Classes, NEW l \in Classes, NEW m \in Classes,
           m <= k \/ m <= l, PolicyOk(u, v, k), PolicyOk(v, w, l)
    PROVE  PolicyOk(u, w, m)
<1> DEFINE a == Parsed(u)  b == Parsed(v)  c == Parsed(w)
<1>1. /\ a[1] \in Nat /\ a[2] \in Nat /\ a[3] \in Nat
      /\ b[1] \in Nat /\ b[2] \in Nat /\ b[3] \in Nat
      /\ c[1] \in Nat /\ c[2] \in Nat /\ c[3] \in Nat
  BY DEF Versions
<1>2. /\ k = Identical => ~Before(b, a)
      /\ k = Backward => b[1] > a[1] \/ (b[1] = a[1] /\ b[2] > a[2])
      /\ k = Breaking => b[1] > a[1]
  BY DEF PolicyOk
<1>3. /\ l = Identical => ~Before(c, b)
      /\ l = Backward => c[1] > b[1] \/ (c[1] = b[1] /\ c[2] > b[2])
      /\ l = Breaking => c[1] > b[1]
  BY DEF PolicyOk
<1> HIDE DEF a, b, c
<1>4. /\ m = Identical => ~Before(c, a)
      /\ m = Backward => c[1] > a[1] \/ (c[1] = a[1] /\ c[2] > a[2])
      /\ m = Breaking => c[1] > a[1]
  BY <1>1, <1>2, <1>3 DEF Before, Classes, Identical, Backward, Breaking
<1> QED BY <1>4 DEF PolicyOk, a, c

\* Documents whose versions parse.
Readable(D) ==
    \A d \in D : /\ d.ver = None \/ d.ver \in Versions
                 /\ d.map # None => d.map.ver = None \/ d.map.ver \in Versions

LEMMA ParsedVersion ==
    ASSUME NEW v, v = None \/ v \in Versions
    PROVE  Parsed(v) \in Versions
BY DEF Parsed, Versions

LEMMA StepsCompose ==
    ASSUME NEW D, Readable(D), NEW x \in D, NEW y \in D, NEW z \in D
    PROVE  /\ SchemaStepOk(x, y) /\ SchemaStepOk(y, z) => SchemaStepOk(x, z)
           /\ y.map # None /\ SemanticStepOk(x, y) /\ SemanticStepOk(y, z) => SemanticStepOk(x, z)
<1>1. ASSUME SchemaStepOk(x, y), SchemaStepOk(y, z) PROVE SchemaStepOk(x, z)
  <2> DEFINE k == ClassifyChange(x.fields, y.fields)
             l == ClassifyChange(y.fields, z.fields)
             m == ClassifyChange(x.fields, z.fields)
  <2>1. k \in Classes /\ l \in Classes /\ m \in Classes
    BY ChangeClass
  <2>2. k <= l => m <= l
    BY <2>1, ChangeComposes DEF Classes, Identical, Backward, Breaking
  <2>3. l <= k => m <= k
    BY <2>1, ChangeComposes DEF Classes, Identical, Backward, Breaking
  <2>4. m <= k \/ m <= l
    <3> HIDE DEF k, l, m
    <3> QED BY <2>1, <2>2, <2>3 DEF Classes, Identical, Backward, Breaking
  <2>5. PolicyOk(x.ver, y.ver, k) /\ PolicyOk(y.ver, z.ver, l)
    BY <1>1 DEF SchemaStepOk
  <2>6. Parsed(x.ver) \in Versions /\ Parsed(y.ver) \in Versions /\ Parsed(z.ver) \in Versions
    BY ParsedVersion DEF Readable
  <2>7. PolicyOk(x.ver, z.ver, m)
    <3> HIDE DEF k, l, m
    <3> QED BY <2>1, <2>4, <2>5, <2>6, PolicyComposes
  <2> QED BY <2>7 DEF SchemaStepOk
<1>2. ASSUME y.map # None, SemanticStepOk(x, y), SemanticStepOk(y, z), x.map # None, z.map # None
      PROVE  PolicyOk(x.map.ver, z.map.ver, ClassifySemantic(x.map, z.map))
  <2> DEFINE k == ClassifySemantic(x.map, y.map)
             l == ClassifySemantic(y.map, z.map)
             m == ClassifySemantic(x.map, z.map)
  <2>1. k \in Classes /\ l \in Classes /\ m \in Classes
    BY SemanticClass
  <2>2. k <= l => m <= l
    BY <2>1, SemanticComposes DEF Classes, Identical, Backward, Breaking
  <2>3. l <= k => m <= k
    BY <2>1, SemanticComposes DEF Classes, Identical, Backward, Breaking
  <2>4. m <= k \/ m <= l
    <3> HIDE DEF k, l, m
    <3> QED BY <2>1, <2>2, <2>3 DEF Classes, Identical, Backward, Breaking
  <2>5. PolicyOk(x.map.ver, y.map.ver, k) /\ PolicyOk(y.map.ver, z.map.ver, l)
    BY <1>2 DEF SemanticStepOk
  <2>6. Parsed(x.map.ver) \in Versions /\ Parsed(y.map.ver) \in Versions /\ Parsed(z.map.ver) \in Versions
    BY <1>2, ParsedVersion DEF Readable
  <2>7. PolicyOk(x.map.ver, z.map.ver, m)
    <3> HIDE DEF k, l, m
    <3> QED BY <2>1, <2>4, <2>5, <2>6, PolicyComposes
  <2> QED BY <2>7
<1> QED BY <1>1, <1>2 DEF SemanticStepOk

\* From neighbours to any two: the first later document the policy fails for
\* would have a neighbour before it that it holds for.
LEMMA PathCompatible ==
    ASSUME NEW D, Readable(D), NEW path \in Seq(D), HistoryOk(path)
    PROVE  \A i, j \in 1 .. Len(path) :
              i < j => /\ SchemaStepOk(path[i], path[j])
                       /\ Mapped(path, i, j) => SemanticStepOk(path[i], path[j])
<1> DEFINE Ok(i, j) == /\ SchemaStepOk(path[i], path[j])
                       /\ Mapped(path, i, j) => SemanticStepOk(path[i], path[j])
<1> SUFFICES ASSUME NEW i \in 1 .. Len(path), NEW j \in 1 .. Len(path), i < j, ~Ok(i, j)
             PROVE  FALSE
  OBVIOUS
<1> DEFINE Odd == {n \in 1 .. Len(path) : i < n /\ ~Ok(i, n)}
<1>1. PICK n \in Odd : \A m \in Odd : n <= m
  <2>1. Odd \in SUBSET Nat /\ Odd # {}
    BY DEF Odd
  <2> HIDE DEF Odd
  <2> QED BY <2>1, LeastNumber
<1>2. n \in 1 .. Len(path) /\ i < n /\ ~Ok(i, n)
  OBVIOUS
<1>3. n - 1 \in 1 .. Len(path) - 1 /\ n - 1 \in 1 .. Len(path) /\ (n - 1) + 1 = n
  BY <1>2
<1>4. SchemaStepOk(path[n - 1], path[n]) /\ SemanticStepOk(path[n - 1], path[n])
  BY <1>3 DEF HistoryOk
<1>5. CASE n - 1 = i
  BY <1>2, <1>4, <1>5
<1>6. CASE i < n - 1
  <2>1. Ok(i, n - 1)
    BY <1>1, <1>2, <1>3, <1>6
  <2>2. path[i] \in D /\ path[n - 1] \in D /\ path[n] \in D
    BY <1>2, <1>3
  <2>3. SchemaStepOk(path[i], path[n])
    BY <1>4, <2>1, <2>2, StepsCompose
  <2>4. ASSUME Mapped(path, i, n) PROVE SemanticStepOk(path[i], path[n])
    <3>1. \A k \in i .. n : path[k].map # None
      BY <2>4 DEF Mapped
    <3>2. Mapped(path, i, n - 1) /\ path[n - 1].map # None
      <4>1. n - 1 \in i .. n /\ \A k \in i .. n - 1 : k \in i .. n
        BY <1>2, <1>6
      <4> QED BY <3>1, <4>1 DEF Mapped
    <3> QED BY <1>4, <2>1, <2>2, <3>2, StepsCompose
  <2> QED BY <1>2, <2>3, <2>4
<1> QED BY <1>2, <1>3, <1>5, <1>6

-----------------------------------------------------------------------------
(* The state of the tree *)

\* A document is one its author may write, and a history holds documents of
\* its own contract only.
TreeInv ==
    /\ docs \in [Keys -> UNION {Docs[c] : c \in Keys}]
    /\ \A c \in Keys : docs[c] \in Docs[c]
    /\ \A c \in Keys : baseline[c] = NoBaseline \/ baseline[c] \in Seq(Docs[c])

LEMMA FrozenType ==
    ASSUME TreeInv, NEW c \in Keys
    PROVE  Frozen(c) \in Seq(Docs[c])
<1> DEFINE history == IF baseline[c] = NoBaseline THEN <<>> ELSE baseline[c]
<1>1. history \in Seq(Docs[c]) /\ docs[c] \in Docs[c]
  <2>1. CASE baseline[c] = NoBaseline
    <3>1. history = <<>> /\ <<>> \in Seq(Docs[c])
      BY <2>1
    <3> QED BY <3>1 DEF TreeInv
  <2>2. CASE baseline[c] # NoBaseline
    BY <2>2 DEF TreeInv
  <2> QED BY <2>1, <2>2
<1>2. Frozen(c) = history \/ Frozen(c) = Append(history, docs[c])
  BY DEF Frozen, MergeHistory
<1> HIDE DEF history
<1> QED BY <1>1, <1>2

\* Each step keeps the invariant (freeze_baselines, schema_snapshot).
LEMMA TreeStep == TreeInv /\ [EvolutionNext]_evolutionVars => TreeInv'
<1> SUFFICES ASSUME TreeInv, [EvolutionNext]_evolutionVars PROVE TreeInv'
  OBVIOUS
<1>1. ASSUME NEW c \in Keys, Edit(c) PROVE TreeInv'
  BY <1>1 DEF Edit, TreeInv
<1>2. ASSUME NEW p \in Packs, Install(p) \/ Uninstall(p) PROVE TreeInv'
  BY <1>2 DEF Install, Uninstall, TreeInv
<1>3. ASSUME Freeze PROVE TreeInv'
  <2>1. \A c \in Keys : baseline'[c] = NoBaseline \/ baseline'[c] \in Seq(Docs[c])
    BY <1>3, FrozenType DEF Freeze
  <2> QED BY <1>3, <2>1 DEF Freeze, TreeInv
<1>4. ASSUME NEW done \in SUBSET Registered, FreezeCut(done) PROVE TreeInv'
  <2>1. \A c \in Keys : baseline'[c] = NoBaseline \/ baseline'[c] \in Seq(Docs[c])
    BY <1>4, FrozenType DEF FreezeCut, TreeInv
  <2> QED BY <1>4, <2>1 DEF FreezeCut, TreeInv
<1>5. ASSUME ValidateWrite PROVE TreeInv'
  BY <1>5 DEF ValidateWrite, TreeInv
<1>6. ASSUME UNCHANGED evolutionVars PROVE TreeInv'
  BY <1>6 DEF evolutionVars, TreeInv
<1> QED BY <1>1, <1>2, <1>3, <1>4, <1>5, <1>6 DEF EvolutionNext

THEOREM TreeInvariant == EvolutionSpec => []TreeInv
<1>1. EvolutionInit => TreeInv
  BY DEF EvolutionInit, TreeInv
<1> QED BY <1>1, TreeStep, PTL DEF EvolutionSpec

\* A document that follows the last entry of a history extends it.
LEMMA PathAppend ==
    ASSUME NEW D, NEW H \in Seq(D), H # <<>>, NEW d \in D, HistoryOk(H),
           SchemaStepOk(Last(H), d), SemanticStepOk(Last(H), d)
    PROVE  HistoryOk(Append(H, d)) /\ Append(H, d) \in Seq(D)
<1> DEFINE path == Append(H, d)
<1>1. /\ Len(H) > 0 /\ Len(path) = Len(H) + 1 /\ path[Len(H) + 1] = d /\ path \in Seq(D)
      /\ \A i \in 1 .. Len(H) : path[i] = H[i]
  OBVIOUS
<1> HIDE DEF path
<1>2. ASSUME NEW i \in 1 .. Len(path) - 1
      PROVE  SchemaStepOk(path[i], path[i + 1]) /\ SemanticStepOk(path[i], path[i + 1])
  <2>1. CASE i = Len(H)
    BY <1>1, <2>1 DEF Last
  <2>2. CASE i # Len(H)
    <3>1. i \in 1 .. Len(H) - 1 /\ path[i] = H[i] /\ path[i + 1] = H[i + 1]
      BY <1>1, <2>2
    <3> QED BY <3>1 DEF HistoryOk
  <2> QED BY <2>1, <2>2
<1>3. HistoryOk(path)
  BY <1>2 DEF HistoryOk
<1> QED BY <1>1, <1>3 DEF path

\* Every contract the check accepts has an upgrade path from any reviewed
\* version to any later one and to the current document (check_evolution,
\* _pairwise_history_errors).
THEOREM PathsCompatible == EvolutionSpec => []ReviewedPathsCompatible
<1>1. ASSUME TreeInv PROVE ReviewedPathsCompatible
  <2> SUFFICES ASSUME NEW c \in Keys, ContractOk(c)
               PROVE  LET path == Append(baseline[c], docs[c])
                      IN \A i, j \in 1 .. Len(path) :
                            i < j => /\ SchemaStepOk(path[i], path[j])
                                     /\ Mapped(path, i, j) => SemanticStepOk(path[i], path[j])
    BY DEF ReviewedPathsCompatible
  <2>1. /\ baseline[c] \in Seq(Docs[c]) /\ baseline[c] # <<>> /\ docs[c] \in Docs[c]
        /\ Readable(Docs[c])
    BY <1>1, VersionsAssumption DEF ContractOk, TreeInv, Readable
  <2>2. /\ SchemaStepOk(Last(baseline[c]), docs[c])
        /\ SemanticStepOk(Last(baseline[c]), docs[c])
        /\ HistoryOk(baseline[c])
    BY DEF ContractOk, SemanticReviewed, SemanticStepOk
  <2>3. HistoryOk(Append(baseline[c], docs[c])) /\ Append(baseline[c], docs[c]) \in Seq(Docs[c])
    BY <2>1, <2>2, PathAppend
  <2> QED BY <2>1, <2>3, PathCompatible
<1> QED BY <1>1, TreeInvariant, PTL

\* A snapshot appended to a history that breaks the policy, or whose last
\* entry the document breaks it with, leaves a broken pair in the history.
LEMMA AppendKeepsFault ==
    ASSUME NEW D, NEW H \in Seq(D), H # <<>>, NEW d \in D,
           \/ ~HistoryOk(H)
           \/ ~SchemaStepOk(Last(H), d)
           \/ ~SemanticStepOk(Last(H), d)
    PROVE  ~HistoryOk(Append(H, d))
<1> DEFINE path == Append(H, d)
<1>1. /\ Len(H) > 0 /\ Len(path) = Len(H) + 1 /\ path[Len(H) + 1] = d
      /\ \A i \in 1 .. Len(H) : path[i] = H[i]
  OBVIOUS
<1> HIDE DEF path
<1>2. CASE ~HistoryOk(H)
  <2>1. PICK i \in 1 .. Len(H) - 1 : ~(SchemaStepOk(H[i], H[i + 1]) /\ SemanticStepOk(H[i], H[i + 1]))
    BY <1>2 DEF HistoryOk
  <2>2. i \in 1 .. Len(path) - 1 /\ path[i] = H[i] /\ path[i + 1] = H[i + 1]
    BY <1>1
  <2> QED BY <2>1, <2>2 DEF HistoryOk, path
<1>3. CASE ~SchemaStepOk(Last(H), d) \/ ~SemanticStepOk(Last(H), d)
  <2>1. Len(H) \in 1 .. Len(path) - 1 /\ path[Len(H)] = Last(H) /\ path[Len(H) + 1] = d
    BY <1>1 DEF Last
  <2> QED BY <1>3, <2>1 DEF HistoryOk, path
<1> QED BY <1>2, <1>3

\* A history that changes is one to which the document was appended.
LEMMA FrozenAppends ==
    ASSUME TreeInv, NEW c \in Keys, baseline[c] # NoBaseline, Frozen(c) # baseline[c]
    PROVE  Frozen(c) = Append(baseline[c], docs[c])
BY DEF Frozen, MergeHistory

\* Recording a baseline leaves a missing version bump visible, finished or
\* not (freeze_baselines, _merge_history).
THEOREM FreezeKeepsFaults == EvolutionSpec => FreezeCannotLaunder
<1>1. ASSUME TreeInv, [EvolutionNext]_evolutionVars, NEW c \in Keys, PolicyBroken(c),
             baseline'[c] # baseline[c], baseline'[c] # NoBaseline
      PROVE  ~ContractOk(c)'
  <2>1. /\ baseline[c] # NoBaseline /\ baseline[c] # <<>> /\ baseline[c] \in Seq(Docs[c])
        /\ docs[c] \in Docs[c]
    BY <1>1 DEF PolicyBroken, TreeInv
  <2>2. baseline'[c] = Frozen(c)
    <3>1. CASE Freeze
      BY <1>1, <3>1 DEF Freeze
    <3>2. CASE \E done \in SUBSET Registered : FreezeCut(done)
      BY <1>1, <3>2 DEF FreezeCut
    <3>3. CASE UNCHANGED baseline
      BY <1>1, <3>3
    <3> QED BY <1>1, <3>1, <3>2, <3>3 DEF EvolutionNext, Edit, Install, Uninstall, ValidateWrite, evolutionVars
  <2>3. baseline'[c] = Append(baseline[c], docs[c])
    BY <1>1, <2>1, <2>2, FrozenAppends
  <2>4. ~HistoryOk(Append(baseline[c], docs[c]))
    BY <1>1, <2>1, AppendKeepsFault DEF PolicyBroken
  <2>5. ~HistoryOk(baseline'[c])
    BY <2>3, <2>4
  <2> QED BY <2>5 DEF ContractOk, HistoryOk
<1>2. TreeInv /\ [EvolutionNext]_evolutionVars =>
        [\A c \in Keys :
           PolicyBroken(c) /\ baseline'[c] # baseline[c] /\ baseline'[c] # NoBaseline
              => ~ContractOk(c)']_evolutionVars
  BY <1>1
<1> QED BY <1>2, TreeInvariant, PTL DEF EvolutionSpec, FreezeCannotLaunder

-----------------------------------------------------------------------------
(* Folds over sequences *)

\* A recursion over the subsets of a finite set that takes one element off at
\* a time has a solution.
SetFold(h, S, base, pick, G) ==
    \A s \in SUBSET S : h[s] = IF s = {} THEN base ELSE G[<<pick[s], h[s \ {pick[s]}]>>]

LEMMA FoldExists ==
    ASSUME NEW S, IsFiniteSet(S), NEW V, NEW base \in V, NEW pick,
           \A s \in SUBSET S : s # {} => pick[s] \in s,
           NEW G \in [S \X V -> V]
    PROVE  \E h \in [SUBSET S -> V] : SetFold(h, S, base, pick, G)
<1> DEFINE Hop(h, s) == IF s = {} THEN base ELSE G[<<pick[s], h[s \ {pick[s]}]>>]
           Upto(n) == {s \in SUBSET S : Cardinality(s) <= n}
           Built(n) == \E h \in [SUBSET S -> V] : \A s \in Upto(n) : h[s] = Hop(h, s)
           Missing == {n \in Nat : ~Built(n)}
<1>1. \A h \in [SUBSET S -> V] : \A s \in SUBSET S : Hop(h, s) \in V
  <2> SUFFICES ASSUME NEW h \in [SUBSET S -> V], NEW s \in SUBSET S, s # {} PROVE Hop(h, s) \in V
    OBVIOUS
  <2>1. pick[s] \in S /\ s \ {pick[s]} \in SUBSET S
    OBVIOUS
  <2>2. <<pick[s], h[s \ {pick[s]}]>> \in S \X V
    BY <2>1
  <2> QED BY <2>2
<1>2. \A s \in SUBSET S : IsFiniteSet(s) /\ Cardinality(s) \in Nat /\ (Cardinality(s) = 0 <=> s = {})
  BY FS_Subset, FS_CardinalityType, FS_EmptySet
<1>3. Built(0)
  <2>1. [s \in SUBSET S |-> base] \in [SUBSET S -> V]
    OBVIOUS
  <2>2. \A s \in Upto(0) : s = {}
    BY <1>2
  <2> QED BY <2>1, <2>2
<1>4. ASSUME NEW n \in Nat, Built(n) PROVE Built(n + 1)
  <2>1. PICK h \in [SUBSET S -> V] : \A s \in Upto(n) : h[s] = Hop(h, s)
    BY <1>4
  <2> DEFINE g == [s \in SUBSET S |-> Hop(h, s)]
  <2>2. g \in [SUBSET S -> V]
    BY <1>1
  <2>3. ASSUME NEW s \in Upto(n + 1) PROVE g[s] = Hop(g, s)
    <3>1. CASE s = {}
      BY <3>1
    <3>2. CASE s # {}
      <4> DEFINE r == s \ {pick[s]}
      <4>1. pick[s] \in s /\ Cardinality(r) = Cardinality(s) - 1 /\ r \in SUBSET S
        BY <1>2, <3>2, FS_RemoveElement
      <4>2. r \in Upto(n)
        BY <1>2, <4>1
      <4>3. g[r] = h[r]
        BY <2>1, <4>2
      <4> QED BY <4>3
    <3> QED BY <3>1, <3>2
  <2> HIDE DEF g
  <2> QED BY <2>2, <2>3
<1>5. Missing = {}
  <2> HIDE DEF Built
  <2> SUFFICES ASSUME Missing # {} PROVE FALSE
    OBVIOUS
  <2>1. PICK n \in Missing : \A m \in Missing : n <= m
    <3>1. Missing \in SUBSET Nat
      OBVIOUS
    <3> HIDE DEF Missing
    <3> QED BY <3>1, LeastNumber
  <2>2. n \in Nat /\ ~Built(n) /\ n # 0
    BY <1>3
  <2>3. n - 1 \in Nat /\ (n - 1) + 1 = n
    BY <2>2
  <2>4. Built(n - 1)
    <3>1. n - 1 \notin Missing
      <4>1. ~(n <= n - 1)
        BY <2>2
      <4> QED BY <2>1, <4>1, Zenon
    <3> QED BY <2>3, <3>1
  <2> QED BY <1>4, <2>2, <2>3, <2>4
<1>6. Built(Cardinality(S))
  <2>1. Cardinality(S) \in Nat
    BY <1>2
  <2> HIDE DEF Built
  <2> QED BY <1>5, <2>1
<1>7. \A s \in SUBSET S : s \in Upto(Cardinality(S))
  BY FS_Subset
<1> QED BY <1>6, <1>7 DEF SetFold

-----------------------------------------------------------------------------
(* Profiles, two and three of them *)

\* Layering sections is associative.
LEMMA LayersAssociate ==
    ASSUME NEW f \in Sections, NEW g \in Sections, NEW h \in Sections
    PROVE  Over(Over(f, g), h) = Over(f, Over(g, h))
BY DEF Over, Sections

\* So is merging constraints: an entry is the first one that is enforced, or
\* else the first one (_merge_constraints).
LEMMA MergesAssociate ==
    ASSUME NEW p \in Constraints, NEW q \in Constraints, NEW r \in Constraints
    PROVE  MergeConstraints(MergeConstraints(p, q), r) = MergeConstraints(p, MergeConstraints(q, r))
BY DEF MergeConstraints, Constraints

\* A composite enforces exactly what one of its profiles enforces: no pack
\* relaxes the hard constraint of another (_merge_constraints).
THEOREM EnforcedUnion ==
    ASSUME NEW p \in Profiles, NEW q \in Profiles
    PROVE  KeepsEnforced(p, q)
<1>1. Composed(p, q).constraints = MergeConstraints(p.constraints, q.constraints)
    BY DEF Composed
<1>2. p.constraints \in Constraints /\ q.constraints \in Constraints
    BY DEF Profiles
<1>3. \A f, g \in Constraints :
          {id \in DOMAIN MergeConstraints(f, g) : MergeConstraints(f, g)[id].enforced}
              = {id \in DOMAIN f : f[id].enforced} \cup {id \in DOMAIN g : g[id].enforced}
    BY DEF MergeConstraints, Constraints
<1> QED
    BY <1>1, <1>2, <1>3 DEF KeepsEnforced, Enforced

\* The weather window of a composite suits the more cautious of its profiles
\* (WeatherPolicySpec.composed_with).
THEOREM CautiousWeather ==
    ASSUME NEW p \in Profiles, NEW q \in Profiles
    PROVE  KeepsCautious(p, q)
<1>1. Composed(p, q).weather = ComposedWeather(p.weather, q.weather)
    BY DEF Composed
<1>2. /\ p.weather.limits \in [Dimensions -> Int] /\ q.weather.limits \in [Dimensions -> Int]
      /\ p.weather.coverage \in BOOLEAN /\ q.weather.coverage \in BOOLEAN
    BY DEF Profiles
<1>3. \A d \in DOMAIN p.weather.limits :
          /\ Stricter(p.weather.limits, q.weather.limits)[d] <= p.weather.limits[d]
          /\ Stricter(p.weather.limits, q.weather.limits)[d] <= q.weather.limits[d]
    BY <1>2 DEF Stricter
<1> QED
    BY <1>1, <1>2, <1>3 DEF KeepsCautious, AsCautious, ComposedWeather

\* However the fold over the domains is bracketed, the composite is the same
\* (OptimizationProfile.composed_with).
THEOREM CompositionAssociates ==
    ASSUME NEW p \in Profiles, NEW q \in Profiles, NEW r \in Profiles
    PROVE  Associates(p, q, r)
<1>1. /\ p.modes \in Sections /\ q.modes \in Sections /\ r.modes \in Sections
      /\ p.demand \in Sections /\ q.demand \in Sections /\ r.demand \in Sections
      /\ p.constraints \in Constraints /\ q.constraints \in Constraints /\ r.constraints \in Constraints
    BY DEF Profiles
<1>2. /\ p.monitoring.types \in Sections /\ q.monitoring.types \in Sections /\ r.monitoring.types \in Sections
      /\ p.monitoring.assets \in Sections /\ q.monitoring.assets \in Sections /\ r.monitoring.assets \in Sections
    BY DEF Profiles
<1>3. /\ p.weather.sensitivity \in Sections /\ q.weather.sensitivity \in Sections /\ r.weather.sensitivity \in Sections
      /\ p.weather.limits \in [Dimensions -> Int] /\ q.weather.limits \in [Dimensions -> Int]
      /\ r.weather.limits \in [Dimensions -> Int]
      /\ p.weather.coverage \in BOOLEAN /\ q.weather.coverage \in BOOLEAN /\ r.weather.coverage \in BOOLEAN
    BY DEF Profiles
<1>4. ComposedMonitoring(ComposedMonitoring(p.monitoring, q.monitoring), r.monitoring)
        = ComposedMonitoring(p.monitoring, ComposedMonitoring(q.monitoring, r.monitoring))
    BY <1>2, LayersAssociate DEF ComposedMonitoring
<1>5. Stricter(Stricter(p.weather.limits, q.weather.limits), r.weather.limits)
        = Stricter(p.weather.limits, Stricter(q.weather.limits, r.weather.limits))
    BY <1>3 DEF Stricter
<1>6. ComposedWeather(ComposedWeather(p.weather, q.weather), r.weather)
        = ComposedWeather(p.weather, ComposedWeather(q.weather, r.weather))
    BY <1>3, <1>5, LayersAssociate DEF ComposedWeather
<1>7. /\ Over(Over(p.modes, q.modes), r.modes) = Over(p.modes, Over(q.modes, r.modes))
      /\ Over(Over(p.demand, q.demand), r.demand) = Over(p.demand, Over(q.demand, r.demand))
      /\ MergeConstraints(MergeConstraints(p.constraints, q.constraints), r.constraints)
           = MergeConstraints(p.constraints, MergeConstraints(q.constraints, r.constraints))
    BY <1>1, LayersAssociate, MergesAssociate
<1>8. (p.contracts \cup q.contracts) \cup r.contracts = p.contracts \cup (q.contracts \cup r.contracts)
    OBVIOUS
<1> QED
    BY <1>4, <1>6, <1>7, <1>8 DEF Associates, Composed

-----------------------------------------------------------------------------
(* Profiles, any number of them *)

\* Merging a pack leaves an index (merge_contributions).
LEMMA MergeOneType ==
    ASSUME NEW index \in Indexes, NEW p \in Packs
    PROVE  MergeOne(index, p) \in Indexes
<1>1. /\ index.domains \subseteq FileIndex.domains \cup {x.domain : x \in Packs}
      /\ index.contracts \in Contracts /\ index.profiles \subseteq DOMAIN ProfileDocs
  BY DEF Indexes
<1>2. p.contracts \in Contracts /\ p.profiles \subseteq DOMAIN ProfileDocs
  BY IndexAssumption
<1>3. CASE ~Conflicts(index, p)
  <2> DEFINE merged == [k \in DOMAIN index.contracts \cup DOMAIN p.contracts |->
                           IF k \in DOMAIN index.contracts THEN index.contracts[k]
                           ELSE p.contracts[k]]
  <2>1. merged \in Contracts
    <3>1. PICK S \in SUBSET Keys : index.contracts \in [S -> Entries]
      BY <1>1 DEF Contracts
    <3>2. PICK T \in SUBSET Keys : p.contracts \in [T -> Entries]
      BY <1>2 DEF Contracts
    <3>3. merged \in [S \cup T -> Entries]
      BY <3>1, <3>2
    <3>4. S \cup T \in SUBSET Keys
      OBVIOUS
    <3> HIDE DEF merged
    <3> QED BY <3>3, <3>4 DEF Contracts
  <2>2. MergeOne(index, p) = [domains |-> index.domains \cup {p.domain}, contracts |-> merged,
                              profiles |-> index.profiles \cup p.profiles]
    BY <1>3 DEF MergeOne
  <2> HIDE DEF merged
  <2> QED BY <1>1, <1>2, <2>1, <2>2 DEF Indexes
<1>4. CASE Conflicts(index, p)
  BY <1>4 DEF MergeOne
<1> QED BY <1>3, <1>4

\* The largest of the first n positions is the last.
LEMMA LastPosition ==
    ASSUME NEW n \in Nat, n # 0
    PROVE  Max(1 .. n) = n /\ (1 .. n) \ {n} = 1 .. (n - 1)
<1>1. n \in 1 .. n /\ \A y \in 1 .. n : n >= y
  OBVIOUS
<1>2. \A x \in 1 .. n : (\A y \in 1 .. n : x >= y) => x = n
  BY <1>1
<1>3. Max(1 .. n) \in 1 .. n /\ \A y \in 1 .. n : Max(1 .. n) >= y
  BY <1>1 DEF Max
<1> QED BY <1>2, <1>3

\* So a fold over a sequence, as the library computes it, takes the last
\* position off first.
LEMMA PickLast ==
    ASSUME NEW n \in Nat, NEW s \in SUBSET (1 .. n), s # {}
    PROVE  Max(s) \in s
<1> DEFINE T == {n - i : i \in s}
<1>1. T \in SUBSET Nat /\ T # {}
  <2>1. ASSUME NEW i \in s PROVE n - i \in Nat
    OBVIOUS
  <2> QED BY <2>1
<1>2. PICK x \in T : \A y \in T : x <= y
  <2> HIDE DEF T
  <2> QED BY <1>1, LeastNumber
<1>3. PICK i \in s : x = n - i
  OBVIOUS
<1>4. \A j \in s : i >= j
  <2> SUFFICES ASSUME NEW j \in s PROVE i >= j
    OBVIOUS
  <2>1. n - i <= n - j
    BY <1>2, <1>3
  <2> QED BY <2>1
<1>5. \E m \in s : \A j \in s : m >= j
  BY <1>4
<1> QED BY <1>5 DEF Max

\* The recursion behind a fold over n positions, last one first.
PositionFold(h, n, base, seq, G) ==
    \A s \in SUBSET (1 .. n) :
        h[s] = IF s = {} THEN base ELSE G[<<seq[Max(s)], h[s \ {Max(s)}]>>]

LEMMA FoldRuns ==
    ASSUME NEW n \in Nat, NEW E, NEW seq \in [1 .. n -> E], NEW V, NEW base \in V,
           NEW G \in [E \X V -> V]
    PROVE  \E h \in [SUBSET (1 .. n) -> V] : PositionFold(h, n, base, seq, G)
<1> DEFINE S == 1 .. n
           pick == [s \in SUBSET S |-> Max(s)]
           F == [iv \in S \X V |-> G[<<seq[iv[1]], iv[2]>>]]
<1>1. IsFiniteSet(S)
  BY FS_Interval
<1>2. \A s \in SUBSET S : s # {} => pick[s] \in s /\ pick[s] = Max(s)
  BY PickLast
<1>3. F \in [S \X V -> V]
  OBVIOUS
<1>4. PICK h \in [SUBSET S -> V] : SetFold(h, S, base, pick, F)
  <2>1. \A s \in SUBSET S : s # {} => pick[s] \in s
    BY <1>2
  <2> HIDE DEF F, pick, S
  <2> QED BY <1>1, <1>3, <2>1, FoldExists
<1>5. ASSUME NEW s \in SUBSET S, s # {}
      PROVE  F[<<pick[s], h[s \ {pick[s]}]>>] = G[<<seq[Max(s)], h[s \ {Max(s)}]>>]
  <2>1. Max(s) \in S /\ pick[s] = Max(s) /\ s \ {Max(s)} \in SUBSET S
    BY <1>2, <1>5
  <2>2. <<Max(s), h[s \ {Max(s)}]>> \in S \X V
    BY <2>1
  <2> QED BY <2>1, <2>2
<1>6. \A s \in SUBSET S :
          h[s] = IF s = {} THEN base ELSE G[<<seq[Max(s)], h[s \ {Max(s)}]>>]
  <2> HIDE DEF F, pick
  <2> QED BY <1>4, <1>5 DEF SetFold
<1> QED BY <1>6 DEF PositionFold

LEMMA OverType ==
    ASSUME NEW f \in Sections, NEW g \in Sections
    PROVE  Over(f, g) \in Sections
<1>1. PICK S \in SUBSET Ids : f \in [S -> Values]
  BY DEF Sections
<1>2. PICK T \in SUBSET Ids : g \in [T -> Values]
  BY DEF Sections
<1>3. Over(f, g) \in [S \cup T -> Values] /\ S \cup T \in SUBSET Ids
  BY <1>1, <1>2 DEF Over
<1> QED BY <1>3 DEF Sections

LEMMA MergeConstraintsType ==
    ASSUME NEW p \in Constraints, NEW q \in Constraints
    PROVE  MergeConstraints(p, q) \in Constraints
<1> DEFINE Entry == [enforced : BOOLEAN, rest : Values]
<1>1. PICK S \in SUBSET Ids : p \in [S -> Entry]
  BY DEF Constraints
<1>2. PICK T \in SUBSET Ids : q \in [T -> Entry]
  BY DEF Constraints
<1>3. MergeConstraints(p, q) \in [S \cup T -> Entry] /\ S \cup T \in SUBSET Ids
  <2> HIDE DEF Entry
  <2> QED BY <1>1, <1>2 DEF MergeConstraints
<1> QED BY <1>3 DEF Constraints

\* A composite of two profiles is a profile (OptimizationProfile.composed_with).
LEMMA ComposedType ==
    ASSUME NEW p \in Profiles, NEW q \in Profiles
    PROVE  Composed(p, q) \in Profiles
<1>1. Over(p.modes, q.modes) \in Sections /\ Over(p.demand, q.demand) \in Sections
  BY OverType DEF Profiles
<1>2. MergeConstraints(p.constraints, q.constraints) \in Constraints
  BY MergeConstraintsType DEF Profiles
<1>3. ComposedMonitoring(p.monitoring, q.monitoring)
        \in [base : Values, types : Sections, assets : Sections]
  <2>1. p.monitoring \in [base : Values, types : Sections, assets : Sections]
        /\ q.monitoring \in [base : Values, types : Sections, assets : Sections]
    BY DEF Profiles
  <2> QED BY <2>1, OverType DEF ComposedMonitoring
<1>4. ComposedWeather(p.weather, q.weather)
        \in [limits : [Dimensions -> Int], sensitivity : Sections, coverage : BOOLEAN]
  <2>1. p.weather \in [limits : [Dimensions -> Int], sensitivity : Sections, coverage : BOOLEAN]
        /\ q.weather \in [limits : [Dimensions -> Int], sensitivity : Sections, coverage : BOOLEAN]
    BY DEF Profiles
  <2>2. Stricter(p.weather.limits, q.weather.limits) \in [Dimensions -> Int]
    BY <2>1 DEF Stricter
  <2>3. p.weather.coverage \/ q.weather.coverage \in BOOLEAN
    BY <2>1
  <2> QED BY <2>1, <2>2, <2>3, OverType DEF ComposedWeather
<1>5. p.contracts \cup q.contracts \in SUBSET Ids
  BY DEF Profiles
<1> QED BY <1>1, <1>2, <1>3, <1>4, <1>5 DEF Composed, Profiles

\* The profile a fold over t has composed after i further domains.
LEMMA CompositeRuns ==
    ASSUME NEW first \in Profiles, NEW t \in Seq(Profiles)
    PROVE  \E w \in [0 .. Len(t) -> Profiles] :
               /\ w[0] = first
               /\ \A i \in 1 .. Len(t) : w[i] = Composed(w[i - 1], t[i])
               /\ FoldLeft(Composed, first, t) = w[Len(t)]
<1> DEFINE n == Len(t)
           S == 1 .. n
           G == [xv \in Profiles \X Profiles |-> Composed(xv[2], xv[1])]
           Folds(iter) == iter = [s \in SUBSET S |->
                                     IF s = {} THEN first
                                     ELSE Composed(iter[s \ {Max(s)}], t[Max(s)])]
<1>1. n \in Nat /\ DOMAIN t = S /\ t \in [S -> Profiles]
  OBVIOUS
<1>2. G \in [Profiles \X Profiles -> Profiles]
  BY ComposedType
<1>3. PICK h \in [SUBSET S -> Profiles] : PositionFold(h, n, first, t, G)
  <2> HIDE DEF G, n
  <2> QED BY <1>1, <1>2, FoldRuns
<1>4. \A s \in SUBSET S : h[s] = IF s = {} THEN first ELSE Composed(h[s \ {Max(s)}], t[Max(s)])
  <2> SUFFICES ASSUME NEW s \in SUBSET S, s # {} PROVE h[s] = Composed(h[s \ {Max(s)}], t[Max(s)])
    BY <1>3 DEF PositionFold
  <2>1. Max(s) \in S /\ s \ {Max(s)} \in SUBSET S
    BY <1>1, PickLast
  <2>2. <<t[Max(s)], h[s \ {Max(s)}]>> \in Profiles \X Profiles
    BY <1>1, <2>1
  <2> QED BY <1>3, <2>2 DEF PositionFold
<1>5. Folds(h)
  BY <1>4
<1>6. FoldLeft(Composed, first, t) = (CHOOSE iter : Folds(iter))[S]
  BY <1>1, Zenon DEF FoldLeft, MapThenFoldSet
<1> DEFINE iter == CHOOSE iter : Folds(iter)
<1>7. Folds(iter)
  <2> HIDE DEF Folds
  <2> QED BY <1>5
<1> HIDE DEF iter
<1>8. /\ iter[{}] = first
      /\ \A i \in 1 .. n : iter[1 .. i] = Composed(iter[1 .. (i - 1)], t[i])
  <2>1. \A s \in SUBSET S : iter[s] = IF s = {} THEN first ELSE Composed(iter[s \ {Max(s)}], t[Max(s)])
    BY <1>7, Zenon
  <2>2. iter[{}] = first
    BY <2>1
  <2>3. ASSUME NEW i \in 1 .. n PROVE iter[1 .. i] = Composed(iter[1 .. (i - 1)], t[i])
    <3>1. 1 .. i \in SUBSET S /\ 1 .. i # {} /\ i \in Nat /\ i # 0
      BY <1>1
    <3>2. Max(1 .. i) = i /\ (1 .. i) \ {i} = 1 .. (i - 1)
      BY <3>1, LastPosition
    <3> QED BY <2>1, <3>1, <3>2
  <2> QED BY <2>2, <2>3
<1> DEFINE w == [i \in 0 .. n |-> iter[1 .. i]]
<1>9. w[0] = first /\ w[n] = iter[S]
  <2>1. 1 .. 0 = {} /\ 0 \in 0 .. n /\ n \in 0 .. n
    BY <1>1
  <2> QED BY <1>8, <2>1
<1>10. \A i \in 1 .. n : w[i] = Composed(w[i - 1], t[i])
  <2> SUFFICES ASSUME NEW i \in 1 .. n PROVE w[i] = Composed(w[i - 1], t[i])
    OBVIOUS
  <2>1. i \in 0 .. n /\ i - 1 \in 0 .. n
    BY <1>1
  <2> QED BY <1>8, <2>1
<1>11. \A i \in 0 .. n : w[i] \in Profiles
  <2> DEFINE Odd == {i \in 0 .. n : w[i] \notin Profiles}
  <2> SUFFICES ASSUME Odd # {} PROVE FALSE
    OBVIOUS
  <2> HIDE DEF w
  <2>1. PICK i \in Odd : \A j \in Odd : i <= j
    <3>1. Odd \in SUBSET Nat
      BY <1>1
    <3> HIDE DEF Odd
    <3> QED BY <3>1, LeastNumber
  <2>2. i \in 1 .. n /\ i - 1 \in 0 .. n /\ ~(i <= i - 1) /\ t[i] \in Profiles
    BY <1>1, <1>9
  <2>3. w[i - 1] \in Profiles
    BY <2>1, <2>2
  <2>4. w[i] \in Profiles
    BY <1>10, <2>2, <2>3, ComposedType
  <2> QED BY <2>4
<1>12. w \in [0 .. n -> Profiles]
  BY <1>11
<1> HIDE DEF w
<1> QED BY <1>6, <1>9, <1>10, <1>12 DEF iter

\* The live index is an index, whatever packs are installed (FileRegistry).
LEMMA LiveIndexType ==
    ASSUME NEW ps \in Seq(Packs)
    PROVE  LiveIndex(FileIndex, ps) \in Indexes
<1> DEFINE n == Len(ps)
           S == 1 .. n
           G == [pi \in Packs \X Indexes |-> MergeOne(pi[2], pi[1])]
           Folds(iter) == iter = [s \in SUBSET S |->
                                     IF s = {} THEN FileIndex
                                     ELSE MergeOne(iter[s \ {Max(s)}], ps[Max(s)])]
<1>1. n \in Nat /\ DOMAIN ps = S /\ ps \in [S -> Packs] /\ FileIndex \in Indexes
  BY IndexAssumption
<1>2. G \in [Packs \X Indexes -> Indexes]
  BY MergeOneType
<1>3. PICK h \in [SUBSET S -> Indexes] : PositionFold(h, n, FileIndex, ps, G)
  <2> HIDE DEF G, n
  <2> QED BY <1>1, <1>2, FoldRuns
<1>4. \A s \in SUBSET S : h[s] = IF s = {} THEN FileIndex ELSE MergeOne(h[s \ {Max(s)}], ps[Max(s)])
  <2> SUFFICES ASSUME NEW s \in SUBSET S, s # {} PROVE h[s] = MergeOne(h[s \ {Max(s)}], ps[Max(s)])
    BY <1>3 DEF PositionFold
  <2>1. Max(s) \in S /\ s \ {Max(s)} \in SUBSET S
    BY <1>1, PickLast
  <2>2. <<ps[Max(s)], h[s \ {Max(s)}]>> \in Packs \X Indexes
    BY <1>1, <2>1
  <2> QED BY <1>3, <2>2 DEF PositionFold
<1>5. Folds(h)
  BY <1>4
<1>6. LiveIndex(FileIndex, ps) = (CHOOSE iter : Folds(iter))[S]
  BY <1>1, Zenon DEF LiveIndex, FoldLeft, MapThenFoldSet
<1> DEFINE iter == CHOOSE iter : Folds(iter)
<1>7. Folds(iter)
  <2> HIDE DEF Folds
  <2> QED BY <1>5
<1> HIDE DEF iter
<1>8. \A s \in SUBSET S :
          iter[s] = IF s = {} THEN FileIndex ELSE MergeOne(iter[s \ {Max(s)}], ps[Max(s)])
  BY <1>7, Zenon
<1> DEFINE Odd == {i \in 0 .. n : iter[1 .. i] \notin Indexes}
<1>9. Odd = {}
  <2> SUFFICES ASSUME Odd # {} PROVE FALSE
    OBVIOUS
  <2>1. PICK i \in Odd : \A j \in Odd : i <= j
    <3>1. Odd \in SUBSET Nat
      BY <1>1
    <3> HIDE DEF Odd
    <3> QED BY <3>1, LeastNumber
  <2>2. i # 0
    <3>1. 1 .. 0 = {} /\ {} \in SUBSET S
      OBVIOUS
    <3>2. iter[{}] = FileIndex
      BY <1>8, <3>1, Zenon
    <3> QED BY <1>1, <3>1, <3>2
  <2>3. i \in 1 .. n /\ i - 1 \in 0 .. n /\ ~(i <= i - 1) /\ ps[i] \in Packs
    BY <1>1, <2>2
  <2>4. iter[1 .. (i - 1)] \in Indexes
    BY <2>1, <2>3
  <2>5. iter[1 .. i] = MergeOne(iter[1 .. (i - 1)], ps[i])
    <3>1. 1 .. i \in SUBSET S /\ 1 .. i # {} /\ i \in Nat /\ i # 0
      BY <1>1, <2>3
    <3>2. Max(1 .. i) = i /\ (1 .. i) \ {i} = 1 .. (i - 1)
      BY <3>1, LastPosition
    <3> QED BY <1>8, <3>1, <3>2
  <2> QED BY <2>3, <2>4, <2>5, MergeOneType
<1>10. iter[S] \in Indexes
  <2>1. n \in 0 .. n
    BY <1>1
  <2> QED BY <1>9, <2>1
<1> QED BY <1>6, <1>10 DEF iter

\* A composite that is as cautious as one that was as cautious as a part.
LEMMA CautionPasses ==
    ASSUME NEW p \in Profiles, NEW q \in Profiles, NEW r \in Profiles,
           AsCautious(p, q), AsCautious(q, r)
    PROVE  AsCautious(p, r)
<1>1. /\ p.weather.limits \in [Dimensions -> Int] /\ q.weather.limits \in [Dimensions -> Int]
      /\ r.weather.limits \in [Dimensions -> Int]
  BY DEF Profiles
<1> QED BY <1>1 DEF AsCautious

LEMMA CautionReflexive ==
    ASSUME NEW p \in Profiles
    PROVE  AsCautious(p, p)
<1>1. p.weather.limits \in [Dimensions -> Int]
  BY DEF Profiles
<1> QED BY <1>1 DEF AsCautious

\* What the composite of any number of profiles enforces, and how cautious it
\* is, by induction over the fold (composite_profile).
LEMMA CompositeOfAll ==
    ASSUME NEW parts \in Seq(Profiles), parts # <<>>
    PROVE  /\ Enforced(CompositeProfile(parts)) = UNION {Enforced(parts[i]) : i \in 1 .. Len(parts)}
           /\ \A i \in 1 .. Len(parts) : AsCautious(CompositeProfile(parts), parts[i])
<1> DEFINE n == Len(Tail(parts))
<1>1. /\ Head(parts) = parts[1] /\ parts[1] \in Profiles /\ Tail(parts) \in Seq(Profiles)
      /\ n \in Nat /\ Len(parts) = n + 1
      /\ \A i \in 1 .. n : Tail(parts)[i] = parts[i + 1] /\ parts[i + 1] \in Profiles
  OBVIOUS
<1>2. PICK w \in [0 .. n -> Profiles] :
          /\ w[0] = parts[1]
          /\ \A i \in 1 .. n : w[i] = Composed(w[i - 1], parts[i + 1])
          /\ CompositeProfile(parts) = w[n]
  <2>1. PICK w \in [0 .. Len(Tail(parts)) -> Profiles] :
            /\ w[0] = Head(parts)
            /\ \A i \in 1 .. Len(Tail(parts)) : w[i] = Composed(w[i - 1], Tail(parts)[i])
            /\ FoldLeft(Composed, Head(parts), Tail(parts)) = w[Len(Tail(parts))]
    BY <1>1, CompositeRuns
  <2>2. CompositeProfile(parts) = w[n]
    BY <2>1, Zenon DEF CompositeProfile
  <2>3. \A i \in 1 .. n : w[i] = Composed(w[i - 1], parts[i + 1])
    BY <1>1, <2>1
  <2> QED BY <1>1, <2>1, <2>2, <2>3
<1> HIDE DEF n
<1> DEFINE Holds(i) == /\ Enforced(w[i]) = UNION {Enforced(parts[j]) : j \in 1 .. (i + 1)}
                       /\ \A j \in 1 .. (i + 1) : AsCautious(w[i], parts[j])
           Odd == {i \in 0 .. n : ~Holds(i)}
<1>3. Holds(0)
  <2>1. \A j \in 1 .. (0 + 1) : j = 1
    OBVIOUS
  <2>2. 1 \in 1 .. (0 + 1)
    OBVIOUS
  <2> QED BY <1>1, <1>2, <2>1, <2>2, CautionReflexive
<1>4. ASSUME NEW i \in 1 .. n, Holds(i - 1) PROVE Holds(i)
  <2>1. /\ i \in 0 .. n /\ i - 1 \in 0 .. n
        /\ w[i - 1] \in Profiles /\ w[i] \in Profiles /\ parts[i + 1] \in Profiles
        /\ w[i] = Composed(w[i - 1], parts[i + 1])
        /\ \A j \in 1 .. i : parts[j] \in Profiles
    BY <1>1, <1>2
  <2>2. /\ Enforced(w[i - 1]) = UNION {Enforced(parts[j]) : j \in 1 .. i}
        /\ \A j \in 1 .. i : AsCautious(w[i - 1], parts[j])
    <3>1. (i - 1) + 1 = i
      OBVIOUS
    <3> QED BY <1>4, <3>1
  <2>3. 1 .. (i + 1) = (1 .. i) \cup {i + 1}
    OBVIOUS
  <2>4. Enforced(w[i]) = Enforced(w[i - 1]) \cup Enforced(parts[i + 1])
    BY <2>1, EnforcedUnion DEF KeepsEnforced
  <2>5. Enforced(w[i]) = UNION {Enforced(parts[j]) : j \in 1 .. (i + 1)}
    BY <2>2, <2>3, <2>4
  <2>6. AsCautious(w[i], w[i - 1]) /\ AsCautious(w[i], parts[i + 1])
    BY <2>1, CautiousWeather DEF KeepsCautious
  <2>7. \A j \in 1 .. (i + 1) : AsCautious(w[i], parts[j])
    BY <2>1, <2>2, <2>3, <2>6, CautionPasses
  <2> QED BY <2>5, <2>7
<1>5. Odd = {}
  <2> HIDE DEF Holds
  <2> SUFFICES ASSUME Odd # {} PROVE FALSE
    OBVIOUS
  <2>1. PICK i \in Odd : \A j \in Odd : i <= j
    <3>1. Odd \in SUBSET Nat
      OBVIOUS
    <3> HIDE DEF Odd
    <3> QED BY <3>1, LeastNumber
  <2>2. i \in 1 .. n /\ i - 1 \in 0 .. n /\ ~(i <= i - 1)
    BY <1>1, <1>3
  <2>3. Holds(i - 1)
    BY <2>1, <2>2
  <2> QED BY <1>4, <2>2, <2>3
<1>6. Holds(n)
  <2>1. n \in 0 .. n
    BY <1>1
  <2> HIDE DEF Holds
  <2> QED BY <1>5, <2>1
<1> QED BY <1>1, <1>2, <1>6

\* Installing and removing leaves a list of packs.
LEMMA PacksTyped == EvolutionSpec => [](packs \in Seq(Packs))
<1>1. EvolutionInit => packs \in Seq(Packs)
  BY DEF EvolutionInit
<1>2. packs \in Seq(Packs) /\ [EvolutionNext]_evolutionVars => (packs \in Seq(Packs))'
  <2> SUFFICES ASSUME packs \in Seq(Packs), [EvolutionNext]_evolutionVars PROVE packs' \in Seq(Packs)
    OBVIOUS
  <2>1. ASSUME NEW p \in Packs, Install(p) PROVE packs' \in Seq(Packs)
    BY <2>1 DEF Install
  <2>2. ASSUME NEW p \in Packs, Uninstall(p) PROVE packs' \in Seq(Packs)
    <3>1. PICK i \in DOMAIN packs : packs' = SubSeq(packs, 1, i - 1) \o SubSeq(packs, i + 1, Len(packs))
      BY <2>2 DEF Uninstall, RemoveAt
    <3>2. SubSeq(packs, 1, i - 1) \in Seq(Packs) /\ SubSeq(packs, i + 1, Len(packs)) \in Seq(Packs)
      OBVIOUS
    <3> QED BY <3>1, <3>2
  <2>3. CASE UNCHANGED packs
    BY <2>3
  <2> QED BY <2>1, <2>2, <2>3 DEF EvolutionNext, Edit, Freeze, FreezeCut, ValidateWrite, evolutionVars
<1> QED BY <1>1, <1>2, PTL DEF EvolutionSpec

\* The composed profile of a snapshot relaxes nothing that one of the profiles
\* of its domains asks for, whatever packs are installed (composite_profile).
THEOREM CompositesCautious == EvolutionSpec => []CompositeCautious
<1>1. packs \in Seq(Packs) => CompositeCautious
  <2> SUFFICES ASSUME packs \in Seq(Packs) PROVE CompositeCautious
    OBVIOUS
  <2>1. Index.profiles \subseteq DOMAIN ProfileDocs
    BY LiveIndexType DEF Index, Indexes
  <2>2. IsFiniteSet(Index.profiles) /\ Cardinality(Index.profiles) \in Nat
    BY <2>1, ProfilesAssumption, FS_Subset, FS_CardinalityType
  <2> SUFFICES ASSUME NEW sel \in Selections
               PROVE  LET parts == [i \in DOMAIN sel |-> ProfileDocs[sel[i]]]
                          whole == CompositeProfile(parts)
                      IN /\ Enforced(whole) = UNION {Enforced(parts[i]) : i \in DOMAIN parts}
                         /\ \A i \in DOMAIN parts : AsCautious(whole, parts[i])
                         /\ Len(parts) = 3 => Associates(parts[1], parts[2], parts[3])
    BY DEF CompositeCautious
  <2> DEFINE parts == [i \in DOMAIN sel |-> ProfileDocs[sel[i]]]
  <2>3. PICK n \in Nat \ {0} : sel \in [1 .. n -> Index.profiles]
    BY <2>2 DEF Selections
  <2>4. parts \in [1 .. n -> Profiles] /\ DOMAIN parts = 1 .. n
    BY <2>1, <2>3, ProfilesAssumption
  <2> HIDE DEF parts
  <2>5. parts \in Seq(Profiles) /\ Len(parts) = n /\ parts # <<>>
    BY <2>4
  <2>6. /\ Enforced(CompositeProfile(parts)) = UNION {Enforced(parts[i]) : i \in DOMAIN parts}
        /\ \A i \in DOMAIN parts : AsCautious(CompositeProfile(parts), parts[i])
    BY <2>4, <2>5, CompositeOfAll
  <2>7. Len(parts) = 3 => Associates(parts[1], parts[2], parts[3])
    BY <2>4, <2>5, CompositionAssociates
  <2> QED BY <2>6, <2>7 DEF parts
<1> QED BY <1>1, PacksTyped, PTL

-----------------------------------------------------------------------------
(* References *)

\* A registry without errors gives each contract an artifact id of its own,
\* qualified by its domain (validate_registry_artifacts).
LEMMA CleanRegistry ==
    ASSUME NEW index, NEW tree, RegistryErrors(index, tree) = {},
           NEW k \in DOMAIN index.contracts
    PROVE  /\ \A j \in DOMAIN index.contracts :
                  ArtifactId(index.contracts[j]) = ArtifactId(index.contracts[k]) => j = k
           /\ index.contracts[k].domain # None
                 => ArtifactId(index.contracts[k])[1] = index.contracts[k].domain
<1>1. k \notin RegistryErrors(index, tree)
  OBVIOUS
<1> QED BY <1>1 DEF RegistryErrors

\* A set of one key is counted and picked as that key.
LEMMA OnlyKey ==
    ASSUME NEW S, NEW k, S = {k}
    PROVE  Cardinality(S) = 1 /\ TheOnly(S) = k
BY FS_Singleton DEF TheOnly

\* There are more than one of them where k has others beside it.
LEMMA KeyWithOthers ==
    ASSUME NEW S, NEW k \in S, IsFiniteSet(S), NEW others, S = {k} \cup others, k \notin others
    PROVE  /\ others = {} => Cardinality(S) = 1 /\ TheOnly(S) = k
           /\ others # {} => Cardinality(S) > 1
<1>1. others = {} => Cardinality(S) = 1 /\ TheOnly(S) = k
  BY OnlyKey
<1>2. others # {} => Cardinality(S) > 1
  <2>1. S \ {k} = others /\ IsFiniteSet(others)
    BY FS_Subset
  <2>2. Cardinality(others) = Cardinality(S) - 1 /\ Cardinality(S) \in Nat /\ Cardinality(others) \in Nat
    BY <2>1, FS_RemoveElement, FS_CardinalityType
  <2>3. others # {} => Cardinality(others) # 0
    BY <2>1, FS_EmptySet
  <2> QED BY <2>2, <2>3
<1> QED BY <1>1, <1>2

\* Whatever packs are installed, in an index the validation finds no fault with
\* a reference leads to the contract it belongs to, or is refused because
\* another contract of the domain is called so (resolve_contract_id).
THEOREM ReferencesResolve == EvolutionSpec => []RefsResolve
<1>1. packs \in Seq(Packs) => RefsResolve
  <2> SUFFICES ASSUME packs \in Seq(Packs), RegistryErrors(Index, docs) = {}, NEW k \in DOMAIN Index.contracts,
                      Index.contracts[k].domain # None,
                      NEW version \in {None, Artifact(Index.contracts[k], docs[k]).version}
               PROVE  LET e == Index.contracts[k]
                          art == Artifact(e, docs[k])
                          Found(id) == IF Namesakes(k, id) = {} THEN k ELSE Unresolved
                      IN /\ ResolveQualified(Index, docs, art.id, version) = Found(art.id)
                         /\ ResolvePlain(Index, docs, e.local, version, e.domain) = Found(<<e.domain, e.local>>)
    BY DEF RefsResolve, Registered
  <2> DEFINE C == Index.contracts  e == C[k]  art == Artifact(e, docs[k])
             Found(id) == IF Namesakes(k, id) = {} THEN k ELSE Unresolved
  <2>0. IsFiniteSet(DOMAIN C) /\ k \in Keys
    <3>1. Index \in Indexes
      BY LiveIndexType DEF Index
    <3>2. DOMAIN C \subseteq Keys
      BY <3>1 DEF Indexes, Contracts
    <3> QED BY <3>2, KeysAssumption, FS_Subset
  <2>1. /\ \A j \in DOMAIN C : ArtifactId(C[j]) = ArtifactId(e) => j = k
        /\ ArtifactId(e)[1] = e.domain
    BY CleanRegistry
  <2>2. art.id = ArtifactId(e) /\ VersionChecked(Index, docs, k, version) = k
    BY DEF Artifact, VersionChecked
  <2>3. ResolveQualified(Index, docs, art.id, version) = Found(art.id)
    <3> DEFINE matches == {j \in DOMAIN C : \/ <<C[j].domain, C[j].local>> = art.id
                                           \/ ArtifactId(C[j]) = art.id}
    <3>1. matches = {k} \cup Namesakes(k, art.id) /\ k \notin Namesakes(k, art.id)
      BY <2>1, <2>2 DEF Namesakes, Registered
    <3>2. IsFiniteSet(matches) /\ k \in matches
      BY <2>0, <3>1, FS_Subset
    <3>3. /\ Namesakes(k, art.id) = {} => Cardinality(matches) = 1 /\ TheOnly(matches) = k
          /\ Namesakes(k, art.id) # {} => Cardinality(matches) > 1
      BY <3>1, <3>2, KeyWithOthers
    <3> QED BY <2>2, <3>3 DEF ResolveQualified
  <2>4. ResolvePlain(Index, docs, e.local, version, e.domain) = Found(<<e.domain, e.local>>)
    <3> DEFINE inDomain == {j \in DOMAIN C : C[j].domain = e.domain /\ C[j].local = e.local}
               others == Namesakes(k, <<e.domain, e.local>>)
    <3>1. inDomain = {k} \cup others /\ k \notin others
      BY DEF Namesakes, Registered
    <3>2. IsFiniteSet(inDomain) /\ k \in inDomain
      BY <2>0, <3>1, FS_Subset
    <3>3. /\ others = {} => Cardinality(inDomain) = 1 /\ TheOnly(inDomain) = k
          /\ others # {} => Cardinality(inDomain) > 1
      BY <3>1, <3>2, KeyWithOthers
    <3>4. k # Unresolved
      BY <2>0, KeysAssumption
    <3> QED BY <2>2, <3>3, <3>4 DEF ResolvePlain
  <2> QED BY <2>3, <2>4
<1> QED BY <1>1, PacksTyped, PTL

-----------------------------------------------------------------------------
(* The audit trail *)

\* The overlay's values for the fleet or for an asset type.
Tuned(of) == IF of = "all" THEN Loaded(overlay).base ELSE Loaded(overlay).types[of]
About(r, of, f) == r[1] = of /\ r[2] = f
\* The record to come says so, or else the last record did.
Noted(of, f, value) ==
    /\ \A r \in pending : About(r, of, f) => r[3] = value
    /\ \/ \E r \in pending : About(r, of, f)
       \/ <<of, f>> \in DOMAIN trail /\ trail[<<of, f>>] = value
AuditInv == ~cut => \A of \in Scopes : \A f \in DOMAIN Tuned(of) : Noted(of, f, Tuned(of)[f])

\* Nothing is tuned without an overlay.
LEMMA NothingTuned == ASSUME overlay = Absent, NEW of \in Scopes PROVE DOMAIN Tuned(of) = {}
<1>1. Loaded(overlay) = NoOverlay
    BY DEF Absent, Loaded
<1>2. Tuned(of) = NoOverride
    BY <1>1 DEF Tuned, NoOverlay, Scopes
<1> QED
    BY <1>2 DEF NoOverride

LEMMA AuditStart == MonitoringInit => AuditInv
    BY NothingTuned DEF MonitoringInit, AuditInv

LEMMA AuditKept == AuditInv /\ UNCHANGED <<overlay, pending, trail, cut>> => AuditInv'
<1> SUFFICES ASSUME AuditInv, UNCHANGED <<overlay, pending, trail, cut>> PROVE AuditInv'
    OBVIOUS
<1>1. ASSUME NEW of PROVE Tuned(of)' = Tuned(of)
    BY DEF Tuned, Loaded
<1>2. ASSUME NEW of, NEW f, NEW value PROVE Noted(of, f, value)' <=> Noted(of, f, value)
    BY DEF Noted
<1> QED
    BY <1>1, <1>2 DEF AuditInv

\* What one scope becomes, and the adjustments it is to be audited with.
LEMMA ScopeStepped ==
    ASSUME NEW scope, NEW base, NEW direction, NEW f \in DOMAIN Stepped(scope, base, direction),
           f \notin Moved(scope, base, direction)
    PROVE  f \in DOMAIN scope /\ Stepped(scope, base, direction)[f] = scope[f]
    BY DEF Stepped

\* The base a scope is stepped from, and the fields that move.
BaseOf(of) == IF of = "all" THEN policy.base ELSE TypeBase(of, NextOverlay.base)
MovedOf(of) == Moved(Tuned(of), BaseOf(of), Direction(of))
TunedNext(of) == IF of = "all" THEN NextOverlay.base ELSE NextOverlay.types[of]

LEMMA NextStepped ==
    ASSUME NEW of \in Scopes PROVE TunedNext(of) = Stepped(Tuned(of), BaseOf(of), Direction(of))
<1>1. CASE of = "all"
    BY <1>1 DEF TunedNext, NextOverlay, Tuned, BaseOf
<1>2. CASE of # "all" /\ of \in Types
    BY <1>2 DEF TunedNext, NextOverlay, Tuned, BaseOf, TypeBase
<1> QED
    BY <1>1, <1>2 DEF Scopes

LEMMA AdjustmentsSay ==
    ASSUME NEW r
    PROVE  r \in Adjustments <=> \E of \in Scopes : \E f \in MovedOf(of) : r = <<of, f, TunedNext(of)[f]>>
<1>1. ASSUME NEW f PROVE f \in MovedOf("all") <=> f \in Moved(Loaded(overlay).base, policy.base, Direction("all"))
    BY DEF MovedOf, Tuned, BaseOf
<1>2. ASSUME NEW t \in Types
      PROVE  /\ t # "all" /\ TunedNext(t) = NextOverlay.types[t]
             /\ MovedOf(t) = Moved(Loaded(overlay).types[t], TypeBase(t, NextOverlay.base), Direction(t))
    BY MonitoringAssumption DEF MovedOf, Tuned, BaseOf, TunedNext
<1>3. TunedNext("all") = NextOverlay.base
    BY DEF TunedNext
<1>4. r \in Adjustments <=>
          \/ \E f \in MovedOf("all") : r = <<"all", f, TunedNext("all")[f]>>
          \/ \E t \in Types : \E f \in MovedOf(t) : r = <<t, f, TunedNext(t)[f]>>
    BY <1>1, <1>2, <1>3 DEF Adjustments
<1> QED
    BY <1>4 DEF Scopes

LEMMA OverlayWritten == ASSUME AuditInv, WriteOverlay PROVE AuditInv'
<1> SUFFICES ASSUME ~cut, NEW of \in Scopes, NEW f \in DOMAIN Tuned(of)'
             PROVE  Noted(of, f, Tuned(of)[f])'
    BY DEF AuditInv, WriteOverlay, files
<1>1. pending = {} /\ pending' = Adjustments /\ trail' = trail
    BY DEF WriteOverlay
<1>2. Tuned(of)' = TunedNext(of)
    BY DEF WriteOverlay, Tuned, Loaded, TunedNext
<1>3. TunedNext(of) = Stepped(Tuned(of), BaseOf(of), Direction(of))
    BY NextStepped
<1>4. \A r \in Adjustments : About(r, of, f) => f \in MovedOf(of) /\ r[3] = TunedNext(of)[f]
    BY AdjustmentsSay DEF About
<1>5. CASE f \in MovedOf(of)
  <2>1. <<of, f, TunedNext(of)[f]>> \in Adjustments
      BY <1>5, AdjustmentsSay
  <2> QED
      BY <2>1, <1>1, <1>2, <1>4 DEF Noted, About
<1>6. CASE f \notin MovedOf(of)
  <2>1. f \in DOMAIN Tuned(of) /\ TunedNext(of)[f] = Tuned(of)[f]
      BY <1>2, <1>3, <1>6, ScopeStepped DEF MovedOf
  <2>2. <<of, f>> \in DOMAIN trail /\ trail[<<of, f>>] = Tuned(of)[f]
      BY <2>1, <1>1 DEF AuditInv, Noted
  <2> QED
      BY <2>1, <2>2, <1>1, <1>2, <1>4, <1>6 DEF Noted
<1> QED
    BY <1>5, <1>6

LEMMA TrailAppended == ASSUME AuditInv, AppendAudit PROVE AuditInv'
<1> SUFFICES ASSUME ~cut, NEW of \in Scopes, NEW f \in DOMAIN Tuned(of)
             PROVE  <<of, f>> \in DOMAIN trail' /\ trail'[<<of, f>>] = Tuned(of)[f]
    BY DEF AuditInv, AppendAudit, Noted, Tuned, Loaded
<1> DEFINE value == Tuned(of)[f]
           noted == {<<r[1], r[2]>> : r \in pending}
           fresh == [x \in noted |-> (CHOOSE r \in pending : <<r[1], r[2]>> = x)[3]]
<1>1. Noted(of, f, value)
    BY DEF AuditInv
<1>2. /\ DOMAIN trail' = noted \cup DOMAIN trail
      /\ \A x \in noted \cup DOMAIN trail : trail'[x] = IF x \in noted THEN fresh[x] ELSE trail[x]
    BY DEF AppendAudit, Audited
<1>3. CASE <<of, f>> \in noted
  <2> DEFINE r == CHOOSE r \in pending : <<r[1], r[2]>> = <<of, f>>
  <2>1. r \in pending /\ <<r[1], r[2]>> = <<of, f>>
      BY <1>3
  <2>2. r[3] = value
      BY <2>1, <1>1 DEF Noted, About
  <2>3. fresh[<<of, f>>] = r[3]
      BY <1>3
  <2> QED
      BY <2>2, <2>3, <1>2, <1>3
<1>4. CASE <<of, f>> \notin noted
  <2>1. \A r \in pending : ~About(r, of, f)
      BY <1>4 DEF About
  <2> QED
      BY <2>1, <1>1, <1>2, <1>4 DEF Noted
<1> QED
    BY <1>3, <1>4

LEMMA OverlayDeleted == ASSUME DeleteOverlay PROVE AuditInv'
<1>1. overlay' = Absent
    BY DEF DeleteOverlay
<1>2. ASSUME NEW of \in Scopes PROVE DOMAIN Tuned(of)' = {}
  <2>1. Loaded(overlay') = NoOverlay
      BY <1>1 DEF Absent, Loaded
  <2>2. Tuned(of)' = NoOverride
      BY <2>1 DEF Tuned, NoOverlay, Scopes
  <2> QED
      BY <2>2 DEF NoOverride
<1> QED
    BY <1>2 DEF AuditInv

LEMMA AuditPreserved == AuditInv /\ [Next]_vars => AuditInv'
<1> SUFFICES ASSUME AuditInv, [Next]_vars PROVE AuditInv'
    OBVIOUS
<1> USE DEF files
<1>1. ASSUME UNCHANGED monitoringVars PROVE AuditInv'
    BY <1>1, AuditKept DEF monitoringVars
<1>2. ASSUME Revise PROVE AuditInv'
    BY <1>2, AuditKept DEF Revise
<1>3. ASSUME MonitoringNext PROVE AuditInv'
  <2>1. ASSUME NEW r, NEW delay, Report(r, delay) \/ Land(r, delay) PROVE AuditInv'
      BY <2>1, <1>2, AuditKept DEF Report, Land
  <2>2. ASSUME NEW kind, NEW late, CompleteTask(kind, late) PROVE AuditInv'
      BY <2>2, <1>2 DEF CompleteTask
  <2>3. ASSUME StartSession \/ Tick \/ AuditOnly PROVE AuditInv'
      BY <2>3, AuditKept DEF StartSession, Tick, AuditOnly
  <2>4. ASSUME NEW dies, PlanPeriodic(dies) PROVE AuditInv'
      BY <2>4, AuditKept DEF PlanPeriodic
  <2>5. ASSUME DieTuning PROVE AuditInv'
      BY <2>5 DEF DieTuning, AuditInv
  <2> QED
      BY <1>3, <2>1, <2>2, <2>3, <2>4, <2>5, OverlayWritten, TrailAppended, OverlayDeleted DEF MonitoringNext
<1> QED
    BY <1>1, <1>3 DEF Next, vars

LEMMA TrailExplains == AuditInv => AuditExplains
<1> SUFFICES ASSUME AuditInv, ~cut, pending = {},
                    NEW of \in Scopes, NEW f \in DOMAIN Tuned(of)
             PROVE  <<of, f>> \in DOMAIN trail /\ trail[<<of, f>>] = Tuned(of)[f]
    BY MonitoringAssumption DEF AuditExplains, Tuned, Scopes
<1> QED
    BY DEF AuditInv, Noted

(* Whatever sessions, periodic plans, restarts and reverts come between    *)
(* tunings, every tuned value in force is the one the audit trail recorded *)
(* last for its scope and field, unless a process died between the overlay *)
(* and its record (auto_tune_monitoring_policy writes them in this order). *)
THEOREM AuditTrailExplains == Spec => []AuditExplains
<1>1. Init => AuditInv
    BY AuditStart DEF Init
<1> QED
    BY <1>1, AuditPreserved, TrailExplains, PTL DEF Spec

-----------------------------------------------------------------------------
(* Bounded tuning *)

Within(f, x) == x \in Clamps[f][1] .. Clamps[f][2]
Allowed(override) == \A f \in Tunables \cap DOMAIN override : Within(f, override[f])

\* The profile was reviewed with values inside the clamps, as the profiles
\* in contracts/domains are.
ReviewedWithin ==
    /\ StepPct \in Nat
    /\ \A f \in Tunables : Clamps[f][1] \in Nat /\ Clamps[f][2] \in Nat
    /\ Allowed(Profile.base)
    /\ \A t \in Types : Allowed(Profile.types[t])
    /\ \A a \in Assets : Allowed(Profile.assets[a])

PolicyWithin(pol) ==
    /\ Tunables \subseteq DOMAIN pol.base /\ Allowed(pol.base)
    /\ \A t \in Types : Allowed(pol.types[t])
FileWithin(file) == Allowed(Loaded(file).base) /\ \A t \in Types : Allowed(Loaded(file).types[t])
TuneInv == ReviewedWithin => PolicyWithin(policy) /\ FileWithin(overlay)

\* new is at most one step away from old, in one of the directions, and both
\* are in the clamps.
OneStep(f, ways, old, new) ==
    /\ Within(f, old) /\ Within(f, new) /\ 100 * Abs(new - old) <= StepPct * old
    /\ 1 \notin ways => new <= old
    /\ -1 \notin ways => new >= old

LEMMA BoundedByClamps ==
    ASSUME NEW low \in Int, NEW high \in Int, NEW x \in Int, low <= high
    PROVE  /\ Max({low, Min({high, x})}) \in low .. high
           /\ low <= x /\ x <= high => Max({low, Min({high, x})}) = x
           /\ x < low => Max({low, Min({high, x})}) = low
           /\ high < x => Max({low, Min({high, x})}) = high
<1>1. PICK y \in Int : y = Min({high, x}) /\ (x <= high => y = x) /\ (high < x => y = high)
  <2>1. \E y \in {high, x} : \A z \in {high, x} : y <= z
      OBVIOUS
  <2>2. Min({high, x}) \in {high, x} /\ \A z \in {high, x} : Min({high, x}) <= z
      BY <2>1 DEF Min
  <2> QED
      BY <2>2
<1>2. PICK y2 \in Int : y2 = Max({low, y}) /\ (y <= low => y2 = low) /\ (low < y => y2 = y)
  <2>1. \E m \in {low, y} : \A z \in {low, y} : m >= z
      OBVIOUS
  <2>2. Max({low, y}) \in {low, y} /\ \A z \in {low, y} : Max({low, y}) >= z
      BY <2>1 DEF Max
  <2> QED
      BY <2>2
<1> QED
    BY <1>1, <1>2

\* A step from inside the clamps stays inside and is as small as it says.
LEMMA StepBounded ==
    ASSUME ReviewedWithin, NEW f \in Tunables, NEW current, Within(f, current), NEW direction \in {-1, 0, 1},
           NEW ways, direction \in ways
    PROVE  OneStep(f, ways, current, BoundedStep(f, current, direction))
<1> DEFINE step == (current * StepPct) \div 100
           x == current + direction * step
           low == Clamps[f][1]
           high == Clamps[f][2]
<1>1. low \in Nat /\ high \in Nat /\ current \in Nat /\ low <= current /\ current <= high /\ StepPct \in Nat
    BY DEF ReviewedWithin, Within
<1>2. PICK product \in Nat : product = current * StepPct /\ product = StepPct * current
    BY <1>1
<1>3. step \in Nat /\ 100 * step <= StepPct * current
    BY <1>2
<1>4. x \in Int /\ (x = current - step \/ x = current \/ x = current + step)
    BY <1>1, <1>3
<1>4b. (1 \notin ways => x <= current) /\ (-1 \notin ways => x >= current)
  <2>1. /\ direction = -1 => x = current - step
        /\ direction = 0 => x = current
        /\ direction = 1 => x = current + step
      BY <1>1, <1>3
  <2> QED
      BY <1>1, <1>3, <2>1
<1>4a. BoundedStep(f, current, direction) = Max({low, Min({high, x})})
    BY DEF BoundedStep
<1> HIDE DEF step, x, low, high
<1>5. PICK new \in Int : /\ new = BoundedStep(f, current, direction) /\ new \in low .. high
                        /\ (low <= x /\ x <= high => new = x)
                        /\ (x < low => new = low)
                        /\ (high < x => new = high)
  <2>1. low \in Int /\ high \in Int /\ low <= high /\ x \in Int
      BY <1>1, <1>4
  <2> QED
      BY <2>1, <1>4a, BoundedByClamps
<1>6. Abs(new - current) <= step
    BY <1>1, <1>3, <1>4, <1>5 DEF Abs
<1>7. Abs(new - current) \in Nat
    BY <1>1, <1>5 DEF Abs
<1>8. 100 * Abs(new - current) <= StepPct * current
    BY <1>1, <1>2, <1>3, <1>6, <1>7
<1>9. (1 \notin ways => new <= current) /\ (-1 \notin ways => new >= current)
    BY <1>1, <1>4, <1>4b, <1>5
<1> USE DEF low, high
<1> QED
    BY <1>1, <1>5, <1>8, <1>9 DEF OneStep, Within

\* No step at all is a step within bounds.
LEMMA NoStep ==
    ASSUME ReviewedWithin, NEW f \in Tunables, NEW x, Within(f, x), NEW ways
    PROVE  OneStep(f, ways, x, x)
<1>1. x \in Nat /\ StepPct \in Nat /\ StepPct * x \in Nat
    BY DEF ReviewedWithin, Within
<1>2. Abs(x - x) = 0
    BY <1>1 DEF Abs
<1> QED
    BY <1>1, <1>2 DEF OneStep

LEMMA MergedAllowed ==
    ASSUME NEW p, NEW override, Allowed(p), Allowed(override) PROVE Allowed(Merged(p, override))
    BY DEF Allowed, Merged

LEMMA LayeredParts ==
    ASSUME NEW file
    PROVE  /\ Layered(file).base = Merged(Profile.base, Loaded(file).base)
           /\ \A t \in Types : Layered(file).types[t] = Merged(Profile.types[t], Loaded(file).types[t])
           /\ Layered(file).assets = Profile.assets
<1>1. {"base", "types", "assets"} \subseteq DOMAIN Profile
    BY MonitoringAssumption
<1> QED
    BY <1>1 DEF Layered

LEMMA LayeredWithin ==
    ASSUME ReviewedWithin, NEW file, FileWithin(file) PROVE PolicyWithin(Layered(file))
<1>1. Tunables \subseteq DOMAIN Layered(file).base
  <2>1. DOMAIN Merged(Profile.base, Loaded(file).base) = DOMAIN Profile.base \cup DOMAIN Loaded(file).base
      BY DEF Merged
  <2> QED
      BY <2>1, LayeredParts, MonitoringAssumption DEF Tunables
<1>2. Allowed(Layered(file).base)
    BY LayeredParts, MergedAllowed DEF ReviewedWithin, FileWithin
<1>3. ASSUME NEW t \in Types PROVE Allowed(Layered(file).types[t])
    BY LayeredParts, MergedAllowed DEF ReviewedWithin, FileWithin
<1> QED
    BY <1>1, <1>2, <1>3 DEF PolicyWithin

LEMMA NothingAllowed == ASSUME NEW file, file = Absent \/ file = Torn PROVE FileWithin(file)
<1>1. Loaded(file) = NoOverlay
    BY DEF Absent, Torn, Loaded
<1>2. DOMAIN NoOverride = {}
    BY DEF NoOverride
<1>3. Loaded(file).base = NoOverride /\ \A t \in Types : Loaded(file).types[t] = NoOverride
    BY <1>1 DEF NoOverlay
<1> QED
    BY <1>2, <1>3 DEF FileWithin, Allowed

LEMMA DirectionOf == ASSUME NEW of PROVE Direction(of) \in {-1, 0, 1}
    BY DEF Direction

\* What a field of a scope is stepped from.
LEMMA CurrentWithin ==
    ASSUME ReviewedWithin, PolicyWithin(policy), FileWithin(overlay), NEW of \in Scopes, NEW f \in Tunables
    PROVE  f \in DOMAIN BaseOf(of) /\ Within(f, Current(Tuned(of), BaseOf(of), f))
<1>1. Allowed(Tuned(of))
    BY DEF FileWithin, Tuned, Scopes
<1>2. f \in DOMAIN BaseOf(of) /\ Allowed(BaseOf(of))
  <2>1. CASE of = "all"
      BY <2>1 DEF BaseOf, PolicyWithin
  <2>2. CASE of # "all" /\ of \in Types
    <3>1. BaseOf(of) = Merged(policy.base, policy.types[of])
        BY <2>2 DEF BaseOf, TypeBase, ForType
    <3>2. Allowed(BaseOf(of))
        BY <2>2, <3>1, MergedAllowed DEF PolicyWithin
    <3>3. f \in DOMAIN BaseOf(of)
        BY <3>1 DEF PolicyWithin, Merged
    <3> QED
        BY <3>2, <3>3
  <2> QED
      BY <2>1, <2>2 DEF Scopes
<1> QED
    BY <1>1, <1>2 DEF Current, Allowed

\* The new values of a scope: one step from the old ones.
LEMMA ScopeWithin ==
    ASSUME ReviewedWithin, PolicyWithin(policy), FileWithin(overlay), NEW of \in Scopes
    PROVE  /\ \A f \in Tunables \cap DOMAIN TunedNext(of) :
                  OneStep(f, {Direction(of)}, Current(Tuned(of), BaseOf(of), f), TunedNext(of)[f])
           /\ DOMAIN Tuned(of) \subseteq DOMAIN TunedNext(of)
<1>1. TunedNext(of) = Stepped(Tuned(of), BaseOf(of), Direction(of))
    BY NextStepped
<1>2. ASSUME NEW f \in Tunables, f \in DOMAIN TunedNext(of)
      PROVE  OneStep(f, {Direction(of)}, Current(Tuned(of), BaseOf(of), f), TunedNext(of)[f])
  <2>0. PICK old : old = Current(Tuned(of), BaseOf(of), f)
      OBVIOUS
  <2>1. Within(f, old)
      BY <2>0, CurrentWithin
  <2>2. CASE f \in Moved(Tuned(of), BaseOf(of), Direction(of))
    <3>1. TunedNext(of)[f] = BoundedStep(f, old, Direction(of))
        BY <1>1, <1>2, <2>0, <2>2 DEF Stepped
    <3> QED
        BY <2>0, <2>1, <3>1, StepBounded, DirectionOf
  <2>3. CASE f \notin Moved(Tuned(of), BaseOf(of), Direction(of))
    <3>1. f \in DOMAIN Tuned(of) /\ TunedNext(of)[f] = Tuned(of)[f]
        BY <1>1, <1>2, <2>3, ScopeStepped
    <3>2. TunedNext(of)[f] = old
        BY <2>0, <3>1 DEF Current
    <3> QED
        BY <2>0, <2>1, <3>2, NoStep
  <2> QED
      BY <2>2, <2>3
<1>3. DOMAIN Tuned(of) \subseteq DOMAIN TunedNext(of)
    BY <1>1 DEF Stepped
<1> QED
    BY <1>2, <1>3

\* The overlay after a tuning, per scope.
LEMMA WrittenOverlay ==
    ASSUME WriteOverlay
    PROVE  Loaded(overlay').base = TunedNext("all") /\ \A t \in Types : Loaded(overlay').types[t] = TunedNext(t)
    BY MonitoringAssumption DEF WriteOverlay, Loaded, TunedNext

LEMMA WrittenWithin ==
    ASSUME ReviewedWithin, PolicyWithin(policy), FileWithin(overlay), WriteOverlay PROVE FileWithin(overlay')
<1>1. ASSUME NEW of \in Scopes PROVE Allowed(TunedNext(of))
    BY ScopeWithin DEF Allowed, OneStep
<1> QED
    BY <1>1, WrittenOverlay DEF FileWithin, Scopes

LEMMA WrittenIs ==
    ASSUME TuneInv, ReviewedWithin, WriteOverlay PROVE WrittenInBounds
<1>1. PolicyWithin(policy) /\ FileWithin(overlay)
    BY DEF TuneInv
<1> SUFFICES ASSUME NEW of \in Scopes, NEW f \in Tunables, f \in DOMAIN Filed(overlay', of)
             PROVE  /\ 100 * Abs(Filed(overlay', of)[f] - Merged(HeldFor(of), Filed(overlay, of))[f])
                          <= StepPct * Merged(HeldFor(of), Filed(overlay, of))[f]
                    /\ Filed(overlay', of)[f] \in Clamps[f][1] .. Clamps[f][2]
    BY DEF WrittenInBounds
<1>2. Filed(overlay', of) = TunedNext(of) /\ Filed(overlay, of) = Tuned(of)
    BY WrittenOverlay DEF Filed, Tuned, Scopes
<1>3. HeldFor(of) = BaseOf(of)
    BY DEF HeldFor, BaseOf, TypeBase
<1>4. Merged(HeldFor(of), Filed(overlay, of))[f] = Current(Tuned(of), BaseOf(of), f)
  <2>1. f \in DOMAIN BaseOf(of)
      BY <1>1, CurrentWithin
  <2> QED
      BY <1>2, <1>3, <2>1 DEF Merged, Current
<1>5. OneStep(f, {Direction(of)}, Current(Tuned(of), BaseOf(of), f), TunedNext(of)[f])
    BY <1>1, <1>2, ScopeWithin
<1> QED
    BY <1>2, <1>4, <1>5 DEF OneStep, Within

LEMMA TuneStart == MonitoringInit => TuneInv
<1> SUFFICES ASSUME MonitoringInit, ReviewedWithin PROVE PolicyWithin(policy) /\ FileWithin(overlay)
    BY DEF TuneInv
<1>1. PolicyWithin(policy)
    BY MonitoringAssumption DEF MonitoringInit, PolicyWithin, ReviewedWithin, Tunables
<1> QED
    BY <1>1, NothingAllowed DEF MonitoringInit

LEMMA TunePreserved == TuneInv /\ [Next]_vars => TuneInv'
<1> SUFFICES ASSUME TuneInv, ReviewedWithin, [Next]_vars PROVE PolicyWithin(policy') /\ FileWithin(overlay')
    BY DEF TuneInv, ReviewedWithin, Allowed, Within, Tunables, PolicyWithin, FileWithin, Loaded, NoOverlay, NoOverride
<1>1. PolicyWithin(policy) /\ FileWithin(overlay)
    BY DEF TuneInv
<1> USE DEF files, session
<1>2. ASSUME overlay' = overlay, policy' = policy \/ policy' = Layered(overlay)
      PROVE  PolicyWithin(policy') /\ FileWithin(overlay')
    BY <1>1, <1>2, LayeredWithin
<1>3. ASSUME MonitoringNext PROVE PolicyWithin(policy') /\ FileWithin(overlay')
  <2>1. ASSUME NEW r, NEW delay, Report(r, delay) \/ Land(r, delay)
        PROVE  overlay' = overlay /\ (policy' = policy \/ policy' = Layered(overlay))
      BY <2>1 DEF Report, Land, Revise
  <2>2. ASSUME NEW kind, NEW late, CompleteTask(kind, late)
        PROVE  overlay' = overlay /\ policy' = Layered(overlay)
      BY <2>2 DEF CompleteTask, Revise
  <2>3. ASSUME StartSession \/ Tick \/ AuditOnly \/ AppendAudit
        PROVE  overlay' = overlay /\ (policy' = policy \/ policy' = Layered(overlay))
      BY <2>3 DEF StartSession, Baseline, Tick, AuditOnly, AppendAudit
  <2>4. ASSUME NEW dies, PlanPeriodic(dies) PROVE overlay' = overlay /\ policy' = policy
      BY <2>4 DEF PlanPeriodic
  <2>5. ASSUME DieTuning PROVE PolicyWithin(policy') /\ FileWithin(overlay')
    <3>1. FileWithin(overlay')
        BY <1>1, <2>5, NothingAllowed DEF DieTuning
    <3> QED
        BY <2>5, <3>1, LayeredWithin DEF DieTuning, Baseline
  <2>6. ASSUME WriteOverlay PROVE PolicyWithin(policy') /\ FileWithin(overlay')
      BY <1>1, <2>6, WrittenWithin DEF WriteOverlay
  <2>7. ASSUME DeleteOverlay PROVE PolicyWithin(policy') /\ FileWithin(overlay')
      BY <1>1, <2>7, NothingAllowed DEF DeleteOverlay
  <2> QED
      BY <1>2, <1>3, <2>1, <2>2, <2>3, <2>4, <2>5, <2>6, <2>7 DEF MonitoringNext
<1>4. ASSUME UNCHANGED monitoringVars PROVE PolicyWithin(policy') /\ FileWithin(overlay')
    BY <1>1, <1>4 DEF monitoringVars
<1> QED
    BY <1>3, <1>4 DEF Next, vars

\* A field of an asset's policy: the asset's own value, else the type's,
\* else the fleet's.
LEMMA AssetField ==
    ASSUME NEW pol, NEW a \in Assets, NEW f,
           f \in DOMAIN pol.base
    PROVE  ForAsset(pol, a)[f] =
             IF f \in DOMAIN pol.assets[a] THEN pol.assets[a][f]
             ELSE IF f \in DOMAIN pol.types[TypeOf[a]] THEN pol.types[TypeOf[a]][f]
             ELSE pol.base[f]
<1> DEFINE t == TypeOf[a]
           type == Merged(pol.base, pol.types[t])
<1>1. /\ f \in DOMAIN type
      /\ f \in DOMAIN pol.types[t] => type[f] = pol.types[t][f]
      /\ f \notin DOMAIN pol.types[t] => type[f] = pol.base[f]
    BY DEF Merged
<1>2. ForAsset(pol, a) = Merged(type, pol.assets[a])
    BY DEF ForAsset, ForType
<1> HIDE DEF type
<1> QED
    BY <1>1, <1>2 DEF Merged

LEMMA TuningIsBounded ==
    ASSUME TuneInv, ReviewedWithin, WriteOverlay, policy = Layered(overlay), NEW a \in Assets, NEW f \in Tunables
    PROVE  OneStep(f, {Direction("all"), Direction(TypeOf[a])}, ForAsset(policy, a)[f], ForAsset(Layered(overlay'), a)[f])
<1> DEFINE t == TypeOf[a]
           ways == {Direction("all"), Direction(t)}
           own == Profile.assets[a]
           ofType == Profile.types[t]
           new == Layered(overlay')
<1>1. t \in Types /\ t \in Scopes /\ "all" \in Scopes /\ t # "all"
    BY MonitoringAssumption DEF Scopes
<1>2. PolicyWithin(policy) /\ FileWithin(overlay)
    BY DEF TuneInv
<1>3. /\ policy.base = Merged(Profile.base, Tuned("all"))
      /\ policy.types[t] = Merged(ofType, Tuned(t))
      /\ policy.assets[a] = own
    BY <1>1, LayeredParts DEF Tuned
<1>4. /\ new.base = Merged(Profile.base, TunedNext("all"))
      /\ new.types[t] = Merged(ofType, TunedNext(t))
      /\ new.assets[a] = own
    BY <1>1, LayeredParts, WrittenOverlay
<1>5. f \in DOMAIN Profile.base /\ f \in DOMAIN policy.base /\ f \in DOMAIN new.base
    BY <1>3, <1>4, MonitoringAssumption DEF Tunables, Merged
<1>6. ForAsset(policy, a)[f] = IF f \in DOMAIN own THEN own[f]
                               ELSE IF f \in DOMAIN policy.types[t] THEN policy.types[t][f] ELSE policy.base[f]
    BY <1>3, <1>5, AssetField
<1>7. ForAsset(new, a)[f] = IF f \in DOMAIN own THEN own[f]
                            ELSE IF f \in DOMAIN new.types[t] THEN new.types[t][f] ELSE new.base[f]
    BY <1>4, <1>5, AssetField
<1>8. CASE f \in DOMAIN own
  <2>1. Within(f, own[f])
      BY <1>8 DEF ReviewedWithin, Allowed
  <2> QED
      BY <1>6, <1>7, <1>8, <2>1, NoStep
<1>9. CASE f \notin DOMAIN own /\ f \in DOMAIN TunedNext(t)
  <2>1. OneStep(f, ways, Current(Tuned(t), BaseOf(t), f), TunedNext(t)[f])
      BY <1>1, <1>2, <1>9, ScopeWithin DEF OneStep
  <2>2. BaseOf(t) = Merged(policy.base, policy.types[t])
      BY <1>1 DEF BaseOf, TypeBase, ForType
  <2>3. Current(Tuned(t), BaseOf(t), f) = ForAsset(policy, a)[f]
    <3>1. CASE f \in DOMAIN Tuned(t)
        BY <3>1, <1>3, <1>6, <1>9 DEF Current, Merged
    <3>2. CASE f \notin DOMAIN Tuned(t)
        BY <3>2, <2>2, <1>3, <1>5, <1>6, <1>9 DEF Current, Merged
    <3> QED
        BY <3>1, <3>2
  <2>4. ForAsset(new, a)[f] = TunedNext(t)[f]
      BY <1>4, <1>7, <1>9 DEF Merged
  <2> QED
      BY <2>1, <2>3, <2>4
<1>10. CASE f \notin DOMAIN own /\ f \notin DOMAIN TunedNext(t)
  <2>1. f \notin DOMAIN Tuned(t)
      BY <1>1, <1>2, <1>10, ScopeWithin
  <2>2. CASE f \in DOMAIN ofType
    <3>1. ForAsset(policy, a)[f] = ofType[f] /\ ForAsset(new, a)[f] = ofType[f]
        BY <2>1, <2>2, <1>3, <1>4, <1>6, <1>7, <1>10 DEF Merged
    <3>2. Within(f, ofType[f])
        BY <1>1, <2>2 DEF ReviewedWithin, Allowed
    <3> QED
        BY <3>1, <3>2, NoStep
  <2>3. CASE f \notin DOMAIN ofType
    <3>1. ForAsset(policy, a)[f] = policy.base[f] /\ ForAsset(new, a)[f] = new.base[f]
        BY <2>1, <2>3, <1>3, <1>4, <1>6, <1>7, <1>10 DEF Merged
    <3>2. Within(f, policy.base[f])
        BY <1>2, <1>5 DEF PolicyWithin, Allowed
    <3>3. CASE f \in DOMAIN TunedNext("all")
      <4>1. OneStep(f, ways, Current(Tuned("all"), BaseOf("all"), f), TunedNext("all")[f])
          BY <1>1, <1>2, <3>3, ScopeWithin DEF OneStep
      <4>2. Current(Tuned("all"), BaseOf("all"), f) = policy.base[f]
          BY <1>3, <1>5 DEF Current, BaseOf, Merged
      <4>3. new.base[f] = TunedNext("all")[f]
          BY <1>4, <3>3 DEF Merged
      <4> QED
          BY <3>1, <4>1, <4>2, <4>3
    <3>4. CASE f \notin DOMAIN TunedNext("all")
      <4>1. f \notin DOMAIN Tuned("all")
          BY <1>1, <1>2, <3>4, ScopeWithin
      <4>2. policy.base[f] = Profile.base[f] /\ new.base[f] = Profile.base[f]
          BY <4>1, <3>4, <1>3, <1>4, <1>5 DEF Merged
      <4> QED
          BY <3>1, <3>2, <4>2, NoStep
    <3> QED
        BY <3>3, <3>4
  <2> QED
      BY <2>2, <2>3
<1> QED
    BY <1>8, <1>9, <1>10

LEMMA TuningStep == ASSUME [Next]_vars, Tuning PROVE WriteOverlay
<1> USE DEF Tuning, files
<1>1. MonitoringNext
    BY DEF Next, vars, monitoringVars
<1>2. ASSUME NEW r, NEW delay PROVE ~Report(r, delay) /\ ~Land(r, delay)
    BY DEF Report, Land, Revise
<1>3. ASSUME NEW kind, NEW late PROVE ~CompleteTask(kind, late)
    BY DEF CompleteTask, Revise
<1>4. ASSUME NEW dies PROVE ~PlanPeriodic(dies)
    BY DEF PlanPeriodic
<1>5. ~StartSession /\ ~Tick /\ ~AuditOnly /\ ~AppendAudit /\ ~DieTuning /\ ~DeleteOverlay
    BY DEF StartSession, Tick, AuditOnly, AppendAudit, DieTuning, DeleteOverlay
<1> QED
    BY <1>1, <1>2, <1>3, <1>4, <1>5 DEF MonitoringNext

-----------------------------------------------------------------------------
(* Snapshot runs *)

Steps == {"idle", "append", "load", "replace", "judge", "snapshot", "manifest"}
Manifests == [cites : Int, digest : Int]
Dirs == [snapshot : Int, manifest : Manifests]
RunsShape ==
    /\ runs \in Seq(Dirs)
    /\ pc \in [Builders -> Steps]
    /\ build \in [Builders -> Nat]

Dir(b) == runs[build[b]]
\* A builder at work has a directory, without a manifest so far, and nobody
\* else's.
OwnDirectory ==
    \A b \in Builders : pc[b] # "idle" =>
        /\ build[b] \in 1 .. Len(runs) /\ ~Listed(Dir(b))
        /\ \A c \in Builders \ {b} : pc[c] # "idle" => build[c] # build[b]
\* Before the manifest the snapshot is there.
SnapshotFirst == \A b \in Builders : pc[b] = "manifest" => Dir(b).snapshot = build[b]
WholeRun(n, r) == Listed(r) => r.snapshot = n /\ r.manifest = [cites |-> n, digest |-> n]
ListedWhole == \A n \in 1 .. Len(runs) : WholeRun(n, runs[n])

RunsInv == RunsShape /\ OwnDirectory /\ SnapshotFirst /\ ListedWhole

LEMMA RunsStart == RunsInit => RunsInv
<1> SUFFICES ASSUME RunsInit PROVE RunsInv
    OBVIOUS
<1>1. runs = <<>> /\ Len(runs) = 0 /\ runs \in Seq(Dirs)
    BY DEF RunsInit
<1>2. RunsShape
    BY <1>1 DEF RunsInit, RunsShape, Steps
<1>3. \A b \in Builders : pc[b] = "idle"
    BY DEF RunsInit
<1> QED
    BY <1>1, <1>2, <1>3 DEF RunsInv, OwnDirectory, SnapshotFirst, ListedWhole

\* Steps that touch no run directory and start no build.
LEMMA DirectoriesKept ==
    ASSUME RunsInv, NEW b \in Builders, pc[b] # "idle",
           NEW step \in Steps, step # "manifest", Goto(b, step),
           UNCHANGED <<build, runs>>
    PROVE  RunsInv'
<1> USE DEF RunsInv, Goto
<1>1. RunsShape'
    BY DEF RunsShape
<1>2. \A c \in Builders : pc'[c] # "idle" => pc[c] # "idle"
    BY DEF RunsShape
<1>3. \A c \in Builders : pc'[c] = "manifest" => pc[c] = "manifest"
    BY DEF RunsShape
<1>4. OwnDirectory'
    BY <1>2 DEF OwnDirectory, Dir
<1>5. SnapshotFirst'
    BY <1>3 DEF SnapshotFirst, Dir
<1>6. ListedWhole'
    BY DEF ListedWhole
<1> QED
    BY <1>1, <1>4, <1>5, <1>6

LEMMA NewRun == ASSUME RunsInv, NEW b \in Builders, StartBuild(b) PROVE RunsInv'
<1> DEFINE fresh == [snapshot |-> 0, manifest |-> NoManifest]
           step == IF Numeric = 0 THEN "judge" ELSE "append"
<1>1. fresh \in Dirs /\ ~Listed(fresh)
    BY DEF Dirs, Manifests, NoManifest, Listed
<1>2. /\ pc' = [pc EXCEPT ![b] = step] /\ pc[b] = "idle"
      /\ runs' = Append(runs, fresh) /\ build' = [build EXCEPT ![b] = Len(runs) + 1]
    BY DEF StartBuild, Goto
<1>3. step \in {"judge", "append"}
    OBVIOUS
<1> HIDE DEF fresh, step
<1>4. RunsShape
    BY DEF RunsInv
<1>5. /\ runs' \in Seq(Dirs) /\ Len(runs') = Len(runs) + 1 /\ Len(runs) \in Nat
      /\ runs'[Len(runs) + 1] = fresh /\ \A n \in 1 .. Len(runs) : runs'[n] = runs[n]
    BY <1>1, <1>2, <1>4 DEF RunsShape
<1>6. RunsShape'
    BY <1>2, <1>3, <1>4, <1>5 DEF RunsShape, Steps
<1>7. /\ pc'[b] # "idle" /\ pc'[b] # "manifest" /\ build'[b] = Len(runs) + 1
      /\ \A c \in Builders \ {b} : pc'[c] = pc[c] /\ build'[c] = build[c]
    BY <1>2, <1>3, <1>4 DEF RunsShape
<1>8. \A c \in Builders \ {b} : pc[c] # "idle" =>
          build[c] \in 1 .. Len(runs) /\ runs'[build[c]] = runs[build[c]]
    BY <1>5 DEF RunsInv, OwnDirectory
<1>9. OwnDirectory'
  <2> SUFFICES ASSUME NEW c \in Builders, pc'[c] # "idle"
               PROVE  /\ build'[c] \in 1 .. Len(runs') /\ ~Listed(Dir(c)')
                      /\ \A d \in Builders \ {c} : pc'[d] # "idle" => build'[d] # build'[c]
      BY DEF OwnDirectory, Listed
  <2>1. CASE c = b
      BY <2>1, <1>1, <1>5, <1>7, <1>8 DEF Dir
  <2>2. CASE c # b
    <3>1. pc[c] # "idle" /\ build'[c] = build[c] /\ build[c] \in 1 .. Len(runs) /\ Dir(c)' = Dir(c)
        BY <2>2, <1>7, <1>8 DEF Dir
    <3>2. ~Listed(Dir(c))
        BY <3>1 DEF RunsInv, OwnDirectory
    <3>3. ASSUME NEW d \in Builders \ {c}, pc'[d] # "idle" PROVE build'[d] # build'[c]
      <4>1. CASE d = b
          BY <4>1, <3>1, <1>5, <1>7
      <4>2. CASE d # b
          BY <4>2, <3>1, <3>3, <1>7 DEF RunsInv, OwnDirectory
      <4> QED
          BY <4>1, <4>2
    <3> QED
        BY <3>1, <3>2, <3>3, <1>5 DEF Listed
  <2> QED
      BY <2>1, <2>2
<1>10. SnapshotFirst'
    BY <1>7, <1>8 DEF RunsInv, SnapshotFirst, Dir
<1>11. ListedWhole'
  <2> SUFFICES ASSUME NEW n \in 1 .. Len(runs') PROVE WholeRun(n, runs'[n])
      BY DEF ListedWhole, WholeRun, Listed
  <2>1. CASE n = Len(runs) + 1
      BY <2>1, <1>1, <1>5 DEF WholeRun
  <2>2. CASE n \in 1 .. Len(runs)
      BY <2>2, <1>5 DEF RunsInv, ListedWhole
  <2> QED
      BY <2>1, <2>2, <1>5
<1> QED
    BY <1>6, <1>9, <1>10, <1>11 DEF RunsInv

\* A builder puts something else into its own directory and goes on.
LEMMA DirectoryWritten ==
    ASSUME RunsInv, NEW b \in Builders, pc[b] # "idle",
           NEW r \in Dirs, NEW step \in Steps, Goto(b, step), UNCHANGED build,
           runs' = [runs EXCEPT ![build[b]] = r],
           step # "idle" => ~Listed(r),
           step = "manifest" => r.snapshot = build[b],
           WholeRun(build[b], r)
    PROVE  RunsInv'
<1> DEFINE n == build[b]
<1>1. /\ n \in 1 .. Len(runs)
      /\ \A c \in Builders \ {b} : pc[c] # "idle" => build[c] # n /\ build[c] \in 1 .. Len(runs)
    BY DEF RunsInv, OwnDirectory
<1>2. /\ runs' \in Seq(Dirs) /\ Len(runs') = Len(runs) /\ runs'[n] = r
      /\ \A m \in 1 .. Len(runs) : m # n => runs'[m] = runs[m]
    BY <1>1 DEF RunsInv, RunsShape
<1>3. /\ pc'[b] = step /\ build' = build /\ pc' \in [Builders -> Steps]
      /\ \A c \in Builders \ {b} : pc'[c] = pc[c]
    BY DEF Goto, RunsInv, RunsShape
<1>4. RunsShape'
    BY <1>2, <1>3 DEF RunsInv, RunsShape
<1>5. OwnDirectory'
  <2> SUFFICES ASSUME NEW c \in Builders, pc'[c] # "idle"
               PROVE  /\ build'[c] \in 1 .. Len(runs') /\ ~Listed(Dir(c)')
                      /\ \A d \in Builders \ {c} : pc'[d] # "idle" => build'[d] # build'[c]
      BY DEF OwnDirectory, Listed
  <2>1. CASE c = b
      BY <2>1, <1>1, <1>2, <1>3 DEF Dir, Listed
  <2>2. CASE c # b
    <3>1. pc[c] # "idle" /\ build[c] \in 1 .. Len(runs) /\ Dir(c)' = Dir(c)
        BY <2>2, <1>1, <1>2, <1>3 DEF Dir
    <3>2. \A d \in Builders \ {c} : pc'[d] # "idle" => pc[d] # "idle"
        BY <1>3
    <3> QED
        BY <3>1, <3>2, <1>2, <1>3 DEF RunsInv, OwnDirectory, Listed
  <2> QED
      BY <2>1, <2>2
<1>6. SnapshotFirst'
  <2> SUFFICES ASSUME NEW c \in Builders, pc'[c] = "manifest" PROVE Dir(c)'.snapshot = build'[c]
      BY DEF SnapshotFirst
  <2>1. CASE c = b
      BY <2>1, <1>2, <1>3 DEF Dir
  <2>2. CASE c # b
      BY <2>2, <1>1, <1>2, <1>3 DEF RunsInv, SnapshotFirst, Dir
  <2> QED
      BY <2>1, <2>2
<1>7. ListedWhole'
  <2> SUFFICES ASSUME NEW m \in 1 .. Len(runs') PROVE WholeRun(m, runs'[m])
      BY DEF ListedWhole, WholeRun, Listed
  <2>1. CASE m = n
      BY <2>1, <1>2
  <2>2. CASE m # n
      BY <2>2, <1>2 DEF RunsInv, ListedWhole
  <2> QED
      BY <2>1, <2>2
<1> QED
    BY <1>4, <1>5, <1>6, <1>7 DEF RunsInv

LEMMA SnapshotWritten == ASSUME RunsInv, NEW b \in Builders, WriteSnapshot(b) PROVE RunsInv'
<1> DEFINE n == build[b]
           r == [runs[n] EXCEPT !.snapshot = n]
<1>1. pc[b] = "snapshot" /\ runs' = [runs EXCEPT ![n] = r] /\ Goto(b, "manifest") /\ build' = build
    BY DEF WriteSnapshot, WriteFile, Order
<1>2. n \in 1 .. Len(runs) /\ n \in Nat /\ runs[n] \in Dirs /\ ~Listed(runs[n])
    BY <1>1 DEF RunsInv, RunsShape, OwnDirectory, Dir
<1>3. r \in Dirs /\ r.snapshot = n /\ ~Listed(r)
    BY <1>2 DEF Dirs, Listed
<1> HIDE DEF r
<1> QED
    BY <1>1, <1>3, DirectoryWritten DEF Steps, WholeRun

LEMMA ManifestWritten == ASSUME RunsInv, NEW b \in Builders, WriteManifest(b) PROVE RunsInv'
<1> DEFINE n == build[b]
           r == [runs[n] EXCEPT !.manifest = [cites |-> n, digest |-> runs[n].snapshot]]
<1>1. pc[b] = "manifest" /\ runs' = [runs EXCEPT ![n] = r] /\ Goto(b, "idle") /\ build' = build
    BY DEF WriteManifest, WriteFile, Order
<1>2. n \in 1 .. Len(runs) /\ n \in Nat /\ runs[n] \in Dirs /\ runs[n].snapshot = n
    BY <1>1 DEF RunsInv, RunsShape, OwnDirectory, SnapshotFirst, Dir
<1>3. r \in Dirs /\ r.snapshot = n /\ r.manifest = [cites |-> n, digest |-> n]
    BY <1>2 DEF Dirs, Manifests
<1> HIDE DEF r
<1> QED
    BY <1>1, <1>3, DirectoryWritten DEF Steps, WholeRun

LEMMA BuilderDies == ASSUME RunsInv, NEW b \in Builders, Die(b) PROVE RunsInv'
<1>1. pc[b] # "idle" /\ Goto(b, "idle") /\ build' = build
    BY DEF Die
<1>2. CASE runs' = runs
    BY <1>1, <1>2, DirectoriesKept DEF Steps
<1>3. CASE runs' = [runs EXCEPT ![build[b]].snapshot = -1]
  <2> DEFINE n == build[b]
             r == [runs[n] EXCEPT !.snapshot = -1]
  <2>1. n \in 1 .. Len(runs) /\ runs[n] \in Dirs /\ ~Listed(runs[n])
      BY <1>1 DEF RunsInv, RunsShape, OwnDirectory, Dir
  <2>2. r \in Dirs /\ ~Listed(r) /\ runs' = [runs EXCEPT ![n] = r]
      BY <1>3, <2>1 DEF Dirs, Listed
  <2> HIDE DEF r
  <2> QED
      BY <1>1, <2>2, DirectoryWritten DEF Steps, WholeRun
<1> QED
    BY <1>2, <1>3 DEF Die

\* Run directories, builders' steps and what is listed stay sound.
LEMMA RunsPreserved == RunsInv /\ [Next]_vars => RunsInv'
<1> SUFFICES ASSUME RunsInv, [Next]_vars PROVE RunsInv'
    OBVIOUS
<1>1. ASSUME UNCHANGED runsVars PROVE RunsInv'
    BY <1>1 DEF runsVars, RunsInv, RunsShape, OwnDirectory, SnapshotFirst, ListedWhole, Dir
<1>2. ASSUME NEW b \in Builders, AppendRate(b) PROVE RunsInv'
    BY <1>2, DirectoriesKept DEF AppendRate, Steps
<1>3. ASSUME NEW b \in Builders, LoadTrend(b) PROVE RunsInv'
  <2> DEFINE step == IF Len(Records(trend)) > TrendMax THEN "replace" ELSE "judge"
  <2>1. Goto(b, step) /\ pc[b] = "load" /\ build' = build /\ runs' = runs
      BY <1>3 DEF LoadTrend
  <2>2. step \in Steps /\ step # "manifest"
      BY DEF Steps
  <2> HIDE DEF step
  <2> QED
      BY <2>1, <2>2, DirectoriesKept
<1>4. ASSUME NEW b \in Builders, ReplaceTrend(b) PROVE RunsInv'
    BY <1>4, DirectoriesKept DEF ReplaceTrend, Steps
<1>5. ASSUME NEW b \in Builders, Judge(b) PROVE RunsInv'
    BY <1>5, DirectoriesKept DEF Judge, Steps
<1> QED
    BY <1>1, <1>2, <1>3, <1>4, <1>5, NewRun, SnapshotWritten, ManifestWritten, BuilderDies
    DEF Next, RunsNext, vars

LEMMA ListedAreVerified == RunsInv => ListedRunsWhole
<1> SUFFICES ASSUME RunsInv, NEW n \in DOMAIN runs, Listed(runs[n])
             PROVE  Verified(runs[n]) /\ runs[n].snapshot = runs[n].manifest.cites
    BY DEF ListedRunsWhole
<1>1. n \in 1 .. Len(runs)
    BY DEF RunsInv, RunsShape
<1>2. runs[n].snapshot = n /\ runs[n].manifest = [cites |-> n, digest |-> n]
    BY <1>1 DEF RunsInv, ListedWhole, WholeRun
<1>3. runs[n].manifest.cites = n /\ runs[n].manifest.digest = n
    BY <1>2
<1> QED
    BY <1>2, <1>3 DEF Verified

(* However many builders work and die beside each other, a run that the    *)
(* registry lists has the whole snapshot its manifest cites, with the      *)
(* digest recorded (run_snapshot_build writes the manifest last, into a    *)
(* directory no other build uses).                                         *)
THEOREM RunsListedWhole == Spec => []ListedRunsWhole
<1>1. Init => RunsInv
    BY RunsStart DEF Init
<1> QED
    BY <1>1, RunsPreserved, ListedAreVerified, PTL DEF Spec

-----------------------------------------------------------------------------
(* Sorting *)

Orders(R, S) ==
    /\ \A x \in S : <<x, x>> \notin R
    /\ \A x, y \in S : x = y \/ <<x, y>> \in R \/ <<y, x>> \in R
    /\ \A x, y, z \in S : <<x, y>> \in R /\ <<y, z>> \in R => <<x, z>> \in R
Under(R, S, x) == {y \in S : <<y, x>> \in R}
Ranking(R, S) == [r \in 1 .. Cardinality(S) |-> CHOOSE x \in S : Cardinality(Under(R, S, x)) = r - 1]

\* Each element has a rank of its own, and every rank is taken.
LEMMA RanksExist ==
    ASSUME NEW S, IsFiniteSet(S), NEW R, Orders(R, S)
    PROVE  /\ \A x \in S : Cardinality(Under(R, S, x)) \in 0 .. Cardinality(S) - 1
           /\ \A x, z \in S : <<x, z>> \in R => Cardinality(Under(R, S, x)) < Cardinality(Under(R, S, z))
           /\ \A x, z \in S : Cardinality(Under(R, S, x)) = Cardinality(Under(R, S, z)) => x = z
           /\ \A r \in 1 .. Cardinality(S) : \E x \in S : Cardinality(Under(R, S, x)) = r - 1
<1> DEFINE n == Cardinality(S)
           rank(x) == Cardinality(Under(R, S, x))
<1>1. n \in Nat /\ \A s \in SUBSET S : IsFiniteSet(s) /\ Cardinality(s) \in Nat /\ Cardinality(s) <= n
  BY FS_Subset, FS_CardinalityType
<1>2. \A x \in S : /\ Under(R, S, x) \in SUBSET (S \ {x}) /\ Under(R, S, x) \in SUBSET S
                   /\ IsFiniteSet(S \ {x}) /\ Cardinality(S \ {x}) = n - 1
  BY <1>1, FS_RemoveElement DEF Under, Orders
<1>3. \A x \in S : rank(x) \in 0 .. n - 1
  <2> SUFFICES ASSUME NEW x \in S PROVE rank(x) \in 0 .. n - 1
    OBVIOUS
  <2>1. rank(x) <= Cardinality(S \ {x}) /\ rank(x) \in Nat
    BY <1>1, <1>2, FS_Subset
  <2> HIDE DEF rank, n
  <2> QED BY <1>1, <1>2, <2>1
<1>4. ASSUME NEW x \in S, NEW z \in S, <<x, z>> \in R PROVE rank(x) < rank(z)
  <2>1. Under(R, S, x) \in SUBSET (Under(R, S, z) \ {x}) /\ x \in Under(R, S, z)
    BY <1>4 DEF Under, Orders
  <2>2. Cardinality(Under(R, S, z) \ {x}) = rank(z) - 1 /\ IsFiniteSet(Under(R, S, z) \ {x}) /\ rank(z) \in Nat
    BY ZenonT(60), <1>1, <1>2, <2>1, FS_RemoveElement
  <2>3. rank(x) <= Cardinality(Under(R, S, z) \ {x}) /\ rank(x) \in Nat
    BY <1>1, <1>2, <2>1, <2>2, FS_Subset
  <2> HIDE DEF rank
  <2> QED BY <2>2, <2>3
<1>5. \A x, z \in S : rank(x) = rank(z) => x = z
  <2> SUFFICES ASSUME NEW x \in S, NEW z \in S, rank(x) = rank(z), x # z PROVE FALSE
    OBVIOUS
  <2>1. <<x, z>> \in R \/ <<z, x>> \in R
    BY DEF Orders
  <2>2. rank(x) < rank(z) \/ rank(z) < rank(x)
    BY <1>4, <2>1
  <2>3. rank(x) \in Nat /\ rank(z) \in Nat
    BY <1>1, <1>2
  <2> HIDE DEF rank
  <2> QED BY <2>2, <2>3
<1>6. ASSUME NEW r \in 1 .. n PROVE \E x \in S : rank(x) = r - 1
  <2> SUFFICES ASSUME \A x \in S : rank(x) # r - 1 PROVE FALSE
    OBVIOUS
  <2> DEFINE f == [x \in S |-> rank(x) + 1]
             rest == (1 .. n) \ {r}
  <2>1. f \in [S -> rest]
    <3> HIDE DEF rank, n
    <3>1. \A x \in S : rank(x) + 1 \in 1 .. n /\ rank(x) + 1 # r
      BY <1>1, <1>3
    <3> QED BY <3>1
  <2>2. \A x, z \in S : f[x] = f[z] => x = z
    <3>1. \A x, z \in S : f[x] = f[z] => rank(x) = rank(z)
      <4> HIDE DEF rank, n
      <4> QED BY <1>3
    <3> QED BY <1>5, <3>1
  <2>3. f \in Injection(S, rest)
    <3> HIDE DEF f, rest
    <3> QED BY <2>1, <2>2 DEF Injection, IsInjective
  <2>4. IsFiniteSet(rest) /\ Cardinality(rest) = n - 1
    <3>1. IsFiniteSet(1 .. n) /\ Cardinality(1 .. n) = n
      BY <1>1, FS_Interval
    <3> HIDE DEF n
    <3> QED BY <3>1, FS_RemoveElement
  <2>5. n <= n - 1
    <3> HIDE DEF f, rest
    <3> QED BY <2>3, <2>4, FS_Injection
  <2> QED BY <1>1, <2>5
<1> QED BY <1>3, <1>4, <1>5, <1>6

\* A set that is sorted is there completely, without repetition, in its order.
LEMMA RankingFacts ==
    ASSUME NEW S, IsFiniteSet(S), NEW R, Orders(R, S)
    PROVE  /\ Ranking(R, S) \in Seq(S) /\ Len(Ranking(R, S)) = Cardinality(S) /\ Cardinality(S) \in Nat
           /\ ToSet(Ranking(R, S)) = S
           /\ \A i, j \in 1 .. Cardinality(S) : Ranking(R, S)[i] = Ranking(R, S)[j] => i = j
<1> DEFINE n == Cardinality(S)
           rank(x) == Cardinality(Under(R, S, x))
           seq == Ranking(R, S)
<1>1. n \in Nat
  BY FS_CardinalityType
<1>2. /\ \A x \in S : rank(x) \in 0 .. n - 1
      /\ \A x, z \in S : rank(x) = rank(z) => x = z
      /\ \A r \in 1 .. n : \E x \in S : rank(x) = r - 1
  BY RanksExist
<1>3. \A r \in 1 .. n : seq[r] \in S /\ rank(seq[r]) = r - 1
  <2>1. \A r \in 1 .. n : seq[r] = CHOOSE x \in S : rank(x) = r - 1
    BY DEF Ranking
  <2> HIDE DEF rank, seq, n
  <2> QED BY <1>2, <2>1
<1>4. seq \in [1 .. n -> S]
  <2>1. seq = [r \in 1 .. n |-> seq[r]]
    BY DEF Ranking
  <2> HIDE DEF rank, seq, n
  <2> QED BY <1>3, <2>1
<1>5. seq \in Seq(S) /\ Len(seq) = n /\ DOMAIN seq = 1 .. n
  <2> HIDE DEF seq, n
  <2> QED BY <1>1, <1>4
<1>6. \A i, j \in 1 .. n : seq[i] = seq[j] => i = j
  <2>1. \A i, j \in 1 .. n : i - 1 = j - 1 => i = j
    BY <1>1
  <2> HIDE DEF rank, seq, n
  <2> QED BY <1>3, <2>1
<1>7. ASSUME NEW x \in S PROVE \E i \in 1 .. n : seq[i] = x
  <2>1. rank(x) + 1 \in 1 .. n /\ (rank(x) + 1) - 1 = rank(x)
    <3>1. rank(x) \in 0 .. n - 1
      BY <1>2
    <3> HIDE DEF rank, seq, n
    <3> QED BY <1>1, <3>1
  <2>2. seq[rank(x) + 1] \in S /\ rank(seq[rank(x) + 1]) = rank(x)
    <3>1. seq[rank(x) + 1] \in S /\ rank(seq[rank(x) + 1]) = (rank(x) + 1) - 1
      <4> HIDE DEF rank, seq, n
      <4> QED BY <1>3, <2>1
    <3> QED BY <2>1, <3>1
  <2>3. seq[rank(x) + 1] = x
    <3> DEFINE y == seq[rank(x) + 1]
    <3>1. y \in S /\ rank(y) = rank(x)
      BY <2>2
    <3>2. \A u, z \in S : rank(u) = rank(z) => u = z
      BY <1>2
    <3> HIDE DEF y, seq, rank
    <3>3. y = x
      BY <3>1, <3>2
    <3> QED BY <3>3 DEF y
  <2> HIDE DEF rank, seq, n
  <2> QED BY <2>1, <2>3
<1>8. ToSet(seq) = S
  <2> HIDE DEF seq, n
  <2> QED BY <1>4, <1>5, <1>7 DEF ToSet
<1> QED BY <1>1, <1>5, <1>6, <1>8

\* Whoever has r - 1 before it is the r-th.
LEMMA RankingIs ==
    ASSUME NEW S, IsFiniteSet(S), NEW R, Orders(R, S), NEW q, q = [r \in 1 .. Cardinality(S) |-> q[r]],
           \A r \in 1 .. Cardinality(S) : q[r] \in S /\ Cardinality(Under(R, S, q[r])) = r - 1
    PROVE  q = Ranking(R, S)
<1>1. \A x, z \in S : Cardinality(Under(R, S, x)) = Cardinality(Under(R, S, z)) => x = z
  BY RanksExist
<1>2. \A r \in 1 .. Cardinality(S) : \E x \in S : Cardinality(Under(R, S, x)) = r - 1
  BY RanksExist
<1>3. ASSUME NEW r \in 1 .. Cardinality(S) PROVE q[r] = CHOOSE x \in S : Cardinality(Under(R, S, x)) = r - 1
  <2> DEFINE z == CHOOSE x \in S : Cardinality(Under(R, S, x)) = r - 1
  <2>1. z \in S /\ Cardinality(Under(R, S, z)) = r - 1
    BY <1>2
  <2> HIDE DEF z
  <2>2. q[r] = z
    BY <1>1, <2>1
  <2> QED BY <2>2 DEF z
<1> QED BY <1>3, Zenon DEF Ranking

\* What is sorted is in order.
LEMMA RankingOrder ==
    ASSUME NEW S, IsFiniteSet(S), NEW R, Orders(R, S),
           NEW i \in 1 .. Cardinality(S), NEW j \in 1 .. Cardinality(S), i < j
    PROVE  <<Ranking(R, S)[i], Ranking(R, S)[j]>> \in R
<1> DEFINE q == Ranking(R, S)
           rank(x) == Cardinality(Under(R, S, x))
<1>1. \A r \in 1 .. Cardinality(S) : q[r] \in S /\ rank(q[r]) = r - 1
  <2>1. \A r \in 1 .. Cardinality(S) : \E x \in S : rank(x) = r - 1
    BY RanksExist
  <2>2. \A r \in 1 .. Cardinality(S) : q[r] = CHOOSE x \in S : rank(x) = r - 1
    BY DEF Ranking
  <2> HIDE DEF rank, q
  <2> QED BY <2>1, <2>2
<1>2. Cardinality(S) \in Nat
  BY FS_CardinalityType
<1>3. rank(q[i]) < rank(q[j])
  <2> HIDE DEF rank, q
  <2> QED BY <1>1, <1>2
<1>4. q[i] \in S /\ q[j] \in S
  BY <1>1
<1>5. CASE <<q[j], q[i]>> \in R
  <2>1. rank(q[j]) < rank(q[i])
    BY <1>4, <1>5, RanksExist
  <2>2. rank(q[i]) \in Nat /\ rank(q[j]) \in Nat
    <3> HIDE DEF rank, q
    <3> QED BY <1>1, <1>2
  <2> HIDE DEF rank, q
  <2> QED BY <1>3, <2>1, <2>2
<1>6. CASE q[j] = q[i]
  <2> HIDE DEF rank, q
  <2> QED BY <1>1, <1>2, <1>6
<1>7. <<q[i], q[j]>> \in R \/ <<q[j], q[i]>> \in R \/ q[j] = q[i]
  BY <1>4 DEF Orders
<1> QED BY <1>5, <1>6, <1>7

\* There is one way only to put a set in order.
LEMMA RankingOnly ==
    ASSUME NEW S, IsFiniteSet(S), NEW R, Orders(R, S), NEW p \in [1 .. Cardinality(S) -> S],
           \A i, j \in 1 .. Cardinality(S) : i < j => <<p[i], p[j]>> \in R
    PROVE  p = Ranking(R, S)
<1> DEFINE n == Cardinality(S)
<1>1. n \in Nat /\ IsFiniteSet(1 .. n) /\ Cardinality(1 .. n) = n
  BY FS_CardinalityType, FS_Interval
<1>2. \A i, j \in 1 .. n : p[i] = p[j] => i = j
  <2> SUFFICES ASSUME NEW i \in 1 .. n, NEW j \in 1 .. n, p[i] = p[j], i # j PROVE FALSE
    OBVIOUS
  <2>1. i < j \/ j < i
    BY <1>1
  <2>2. <<p[i], p[j]>> \in R \/ <<p[j], p[i]>> \in R
    BY <2>1
  <2>3. <<p[i], p[i]>> \in R /\ p[i] \in S
    BY <2>2
  <2> QED BY <2>3 DEF Orders
<1>3. \A s \in SUBSET (1 .. n) : IsFiniteSet({p[i] : i \in s}) /\ Cardinality({p[i] : i \in s}) = Cardinality(s)
  <2> SUFFICES ASSUME NEW s \in SUBSET (1 .. n)
               PROVE  IsFiniteSet({p[i] : i \in s}) /\ Cardinality({p[i] : i \in s}) = Cardinality(s)
    OBVIOUS
  <2> DEFINE T == {p[i] : i \in s}
             f == [i \in s |-> p[i]]
  <2>1. IsFiniteSet(s)
    BY <1>1, FS_Subset
  <2>2. f \in Bijection(s, T)
    <3>1. f \in [s -> T] /\ (\A a, b \in s : f[a] = f[b] => a = b) /\ \A t \in T : \E a \in s : f[a] = t
      BY <1>2
    <3> HIDE DEF f, T
    <3> QED BY <3>1 DEF Bijection, Injection, Surjection, IsInjective
  <2> HIDE DEF f, T
  <2>3. IsFiniteSet(T) /\ Cardinality(T) = Cardinality(s)
    BY <2>1, <2>2, FS_Bijection DEF ExistsBijection
  <2> QED BY <2>3 DEF T
<1>4. {p[i] : i \in 1 .. n} = S
  <2> DEFINE T == {p[i] : i \in 1 .. n}
  <2>1. T \in SUBSET S /\ Cardinality(T) = Cardinality(S)
    BY <1>1, <1>3
  <2> HIDE DEF T
  <2>2. T = S
    BY <2>1, FS_Subset
  <2> QED BY <2>2 DEF T
<1>5. ASSUME NEW r \in 1 .. n PROVE p[r] \in S /\ Cardinality(Under(R, S, p[r])) = r - 1
  <2>1. Under(R, S, p[r]) = {p[i] : i \in 1 .. r - 1}
    <3>1. ASSUME NEW y \in Under(R, S, p[r]) PROVE y \in {p[i] : i \in 1 .. r - 1}
      <4>1. y \in S /\ <<y, p[r]>> \in R
        BY DEF Under
      <4>2. PICK i \in 1 .. n : y = p[i]
        BY <1>4, <4>1
      <4>3. ~(r < i)
        <5> SUFFICES ASSUME r < i PROVE FALSE
          OBVIOUS
        <5>1. <<p[r], y>> \in R
          BY <1>5, <4>2
        <5>2. <<y, y>> \in R
          BY <1>5, <4>1, <5>1 DEF Orders
        <5> QED BY <4>1, <5>2 DEF Orders
      <4>4. i # r
        BY <4>1, <4>2 DEF Orders
      <4>5. i \in 1 .. r - 1
        BY <1>1, <4>3, <4>4
      <4> QED BY <4>2, <4>5
    <3>2. ASSUME NEW i \in 1 .. r - 1 PROVE p[i] \in Under(R, S, p[r])
      <4>1. i \in 1 .. n /\ i < r
        BY <1>1
      <4> QED BY <1>5, <4>1 DEF Under
    <3> QED BY <3>1, <3>2
  <2>2. 1 .. r - 1 \in SUBSET (1 .. n) /\ Cardinality(1 .. r - 1) = r - 1
    <3>1. r - 1 \in Nat
      BY <1>1
    <3>2. Cardinality(1 .. r - 1) = r - 1
      BY <3>1, FS_Interval
    <3>3. \A i \in 1 .. r - 1 : i \in 1 .. n
      BY <1>1
    <3> QED BY <3>2, <3>3
  <2>3. p[r] \in S
    OBVIOUS
  <2>4. Cardinality({p[i] : i \in 1 .. r - 1}) = r - 1
    BY <1>3, <2>2
  <2> QED BY <2>1, <2>3, <2>4
<1>6. p = [r \in 1 .. Cardinality(S) |-> p[r]]
  OBVIOUS
<1> QED BY <1>5, <1>6, RankingIs

Less(S) == {p \in S \X S : p[1] < p[2]}

LEMMA SortedNumbers ==
    ASSUME NEW S \in SUBSET Int, IsFiniteSet(S)
    PROVE  /\ Orders(Less(S), S)
           /\ Sorted(S, <) = Ranking(Less(S), S)
<1>1. \A x, y \in S : <<x, y>> \in Less(S) <=> x < y
  BY DEF Less
<1>2. Orders(Less(S), S)
  BY <1>1 DEF Orders
<1>3. ASSUME NEW x \in S PROVE {y \in S : y < x} = Under(Less(S), S, x)
  BY <1>1 DEF Under
<1>4. Sorted(S, <) = [r \in 1 .. Cardinality(S) |-> CHOOSE x \in S : Cardinality({y \in S : y < x}) = r - 1]
  BY Zenon DEF Sorted
<1>5. ASSUME NEW r \in 1 .. Cardinality(S)
      PROVE  (CHOOSE x \in S : Cardinality({y \in S : y < x}) = r - 1)
             = CHOOSE x \in S : Cardinality(Under(Less(S), S, x)) = r - 1
  BY <1>3
<1>6. Sorted(S, <) = Ranking(Less(S), S)
  BY <1>4, <1>5, Zenon DEF Ranking
<1> QED BY <1>2, <1>6

\* q lists the numbers of S upwards.
Lists(q, S) ==
    /\ q \in [1 .. Cardinality(S) -> S]
    /\ \A i, j \in 1 .. Cardinality(S) : i < j => q[i] < q[j]
    /\ \A x \in S : \E i \in 1 .. Cardinality(S) : q[i] = x

LEMMA SortedLists ==
    ASSUME NEW S \in SUBSET Int, IsFiniteSet(S)
    PROVE  Lists(Sorted(S, <), S) /\ Cardinality(S) \in Nat
<1> DEFINE q == Ranking(Less(S), S)
           n == Cardinality(S)
<1>1. Orders(Less(S), S) /\ Sorted(S, <) = q
  BY SortedNumbers
<1>2. n \in Nat
  BY FS_CardinalityType
<1>3. q \in Seq(S) /\ Len(q) = n /\ ToSet(q) = S
  BY <1>1, RankingFacts
<1>4. ASSUME NEW i \in 1 .. n, NEW j \in 1 .. n, i < j PROVE q[i] < q[j]
  <2>1. <<q[i], q[j]>> \in Less(S)
    BY <1>1, <1>4, RankingOrder
  <2> HIDE DEF q, n
  <2> QED BY <2>1 DEF Less
<1> HIDE DEF q, n
<1>5. q \in [1 .. n -> S] /\ DOMAIN q = 1 .. n
  BY <1>2, <1>3
<1>6. ASSUME NEW x \in S PROVE \E i \in 1 .. n : q[i] = x
  BY <1>3, <1>5 DEF ToSet
<1> QED BY <1>1, <1>2, <1>4, <1>5, <1>6 DEF Lists, n

LEMMA ThoseIs ==
    ASSUME NEW T, NEW s \in Seq(T), NEW S \in SUBSET DOMAIN s
    PROVE  /\ Those(s, S) \in Seq(T) /\ Len(Those(s, S)) = Cardinality(S) /\ Cardinality(S) \in Nat
           /\ \E q : Lists(q, S) /\ \A k \in 1 .. Cardinality(S) : Those(s, S)[k] = s[q[k]]
<1>1. DOMAIN s = 1 .. Len(s) /\ Len(s) \in Nat /\ \A i \in DOMAIN s : s[i] \in T
  OBVIOUS
<1>2. S \in SUBSET Int
  BY <1>1
<1>3. IsFiniteSet(S)
  <2>1. IsFiniteSet(1 .. Len(s))
    BY <1>1, FS_Interval
  <2> QED BY <1>1, <2>1, FS_Subset
<1> DEFINE q == Sorted(S, <)
           n == Cardinality(S)
<1>4. Lists(q, S) /\ n \in Nat
  BY <1>2, <1>3, SortedLists
<1>5. Those(s, S) = [k \in DOMAIN q |-> s[q[k]]]
  BY DEF Those, At
<1> HIDE DEF q, n
<1>6. DOMAIN q = 1 .. n /\ \A k \in 1 .. n : q[k] \in S
  BY <1>4 DEF Lists, n
<1>7. Those(s, S) \in [1 .. n -> T]
  BY <1>1, <1>5, <1>6
<1>8. Those(s, S) \in Seq(T) /\ Len(Those(s, S)) = n
  BY <1>4, <1>7
<1>9. \A k \in 1 .. n : Those(s, S)[k] = s[q[k]]
  BY <1>5, <1>6
<1> QED BY <1>4, <1>8, <1>9 DEF n

\* In order of time.
Timed(s) == \A i, j \in DOMAIN s : i <= j => s[i].at <= s[j].at
Instants(T) == \A r \in T : r.at \in Int

LEMMA ThoseTimed ==
    ASSUME NEW T, Instants(T), NEW s \in Seq(T), Timed(s), NEW S \in SUBSET DOMAIN s
    PROVE  Timed(Those(s, S))
<1>1. PICK q : Lists(q, S) /\ \A k \in 1 .. Cardinality(S) : Those(s, S)[k] = s[q[k]]
  BY ThoseIs
<1> DEFINE n == Cardinality(S)
           t == Those(s, S)
<1>2. t \in Seq(T) /\ DOMAIN t = 1 .. n /\ n \in Nat
  <2>1. t \in Seq(T) /\ Len(t) = n /\ n \in Nat
    BY ThoseIs
  <2> HIDE DEF t, n
  <2> QED BY <2>1
<1>3. \A k \in 1 .. n : q[k] \in DOMAIN s /\ t[k] = s[q[k]]
  BY <1>1 DEF Lists
<1>4. \A i, j \in 1 .. n : i < j => q[i] < q[j]
  BY <1>1 DEF Lists
<1>5. \A i \in DOMAIN s : i \in Int
  OBVIOUS
<1> HIDE DEF t, n
<1> SUFFICES ASSUME NEW i \in 1 .. n, NEW j \in 1 .. n, i <= j PROVE t[i].at <= t[j].at
  BY <1>2 DEF Timed, t
<1>6. q[i] <= q[j]
  <2>1. i = j \/ i < j
    BY <1>2
  <2> QED BY <1>3, <1>4, <1>5, <2>1
<1> QED BY <1>3, <1>6 DEF Timed

\* The last of those that include the last is the last.
LEMMA LastOfThose ==
    ASSUME NEW T, NEW s \in Seq(T), NEW S \in SUBSET DOMAIN s, Len(s) \in S
    PROVE  Those(s, S) # <<>> /\ Last(Those(s, S)) = Last(s)
<1> DEFINE n == Cardinality(S)
           t == Those(s, S)
<1>1. PICK q : Lists(q, S) /\ \A k \in 1 .. n : t[k] = s[q[k]]
  BY ThoseIs
<1>2. t \in Seq(T) /\ Len(t) = n /\ n \in Nat
  BY ThoseIs
<1>3. PICK i \in 1 .. n : q[i] = Len(s)
  BY <1>1 DEF Lists
<1>4. /\ \A k \in 1 .. n : q[k] \in S
      /\ \A k, l \in 1 .. n : k < l => q[k] < q[l]
  BY <1>1 DEF Lists
<1> HIDE DEF n, t
<1>5. n \in 1 .. n
  BY <1>2, <1>3
<1>6. q[n] \in 1 .. Len(s) /\ Len(s) \in Nat
  BY <1>4, <1>5
<1>7. ~(i < n)
  BY <1>3, <1>4, <1>5, <1>6
<1>8. i = n
  BY <1>2, <1>3, <1>7
<1>9. Last(t) = s[Len(s)]
  BY <1>1, <1>2, <1>3, <1>5, <1>8 DEF Last
<1> QED BY <1>2, <1>5, <1>9 DEF Last, t

LEMMA LesserOf ==
    ASSUME NEW x \in Int, NEW y \in Int
    PROVE  Min({x, y}) \in Int /\ Min({x, y}) = IF x <= y THEN x ELSE y
<1>1. \E v \in {x, y} : \A z \in {x, y} : v <= z
  OBVIOUS
<1>2. Min({x, y}) \in {x, y} /\ \A z \in {x, y} : Min({x, y}) <= z
  BY <1>1 DEF Min
<1> QED BY <1>2

LEMMA ScaledDown ==
    ASSUME NEW x \in Int, NEW y \in Int, NEW m \in Nat \ {0}, 0 <= x, x <= y, y > 0
    PROVE  /\ (x * m) \div y \in Int /\ (x * m) \div y >= 0
           /\ x = y => (x * m) \div y = m
<1>1. x * m \in Int /\ x * m >= 0
  OBVIOUS
<1>2. (x * m) \div y \in Int /\ (x * m) \div y >= 0
  <2> DEFINE z == x * m
  <2> HIDE DEF z
  <2>1. z \in Int /\ z >= 0
    BY <1>1 DEF z
  <2>2. z \div y \in Int /\ z \div y >= 0
    BY <2>1
  <2> QED BY <2>2 DEF z
<1>3. (y * m) \div y = m
  OBVIOUS
<1> QED BY <1>2, <1>3

\* The windows a span is divided into, and what is kept of each.
BucketOf(s, o) ==
    Min({((o.at - s[1].at) * MaxSeries) \div (Last(s).at - s[1].at), MaxSeries - 1})
Buckets(s) == {BucketOf(s, s[k]) : k \in DOMAIN s}
KeptOf(s) ==
    [b \in DOMAIN Sorted(Buckets(s), <) |->
        Last(Those(s, {k \in DOMAIN s : BucketOf(s, s[k]) = Sorted(Buckets(s), <)[b]}))]

LEMMA DownsampledIs ==
    ASSUME NEW s
    PROVE  Downsampled(s) =
              IF Last(s).at - s[1].at <= 0 THEN SubSeq(s, Len(s) - MaxSeries + 1, Len(s))
              ELSE IF KeptOf(s)[1] = s[1] THEN KeptOf(s) ELSE <<s[1]>> \o KeptOf(s)
BY DEF Downsampled, KeptOf, Buckets, BucketOf, Representative

LEMMA BucketsAre ==
    ASSUME AssessmentAssumption, NEW T, Instants(T), NEW s \in Seq(T), Timed(s), s # <<>>, s[1].at < Last(s).at
    PROVE  /\ Buckets(s) \in SUBSET (0 .. MaxSeries - 1)
           /\ BucketOf(s, Last(s)) = MaxSeries - 1 /\ MaxSeries - 1 \in Buckets(s)
<1>1. DOMAIN s = 1 .. Len(s) /\ Len(s) \in Nat /\ 1 \in DOMAIN s /\ Len(s) \in DOMAIN s /\ Last(s) = s[Len(s)]
  BY DEF Last
<1>2. \A k \in DOMAIN s : s[k].at \in Int /\ s[1].at <= s[k].at /\ s[k].at <= Last(s).at
  <2>1. \A k \in DOMAIN s : s[k] \in T
    OBVIOUS
  <2>2. \A k \in DOMAIN s : 1 <= k /\ k <= Len(s)
    BY <1>1
  <2> QED BY <1>1, <2>1, <2>2 DEF Timed, Instants
<1>3. MaxSeries \in Nat \ {0}
  BY DEF AssessmentAssumption
<1>4. ASSUME NEW k \in DOMAIN s
      PROVE  BucketOf(s, s[k]) \in 0 .. MaxSeries - 1 /\ (s[k].at = Last(s).at => BucketOf(s, s[k]) = MaxSeries - 1)
  <2> DEFINE x == s[k].at - s[1].at
             y == Last(s).at - s[1].at
             z == (x * MaxSeries) \div y
  <2>1. x \in Int /\ y \in Int /\ 0 <= x /\ x <= y /\ y > 0 /\ (s[k].at = Last(s).at => x = y)
    BY <1>1, <1>2
  <2>2. BucketOf(s, s[k]) = Min({z, MaxSeries - 1})
    BY DEF BucketOf
  <2> HIDE DEF x, y
  <2>3. z \in Int /\ z >= 0 /\ (x = y => z = MaxSeries)
    BY <1>3, <2>1, ScaledDown
  <2> HIDE DEF z
  <2>4. MaxSeries - 1 \in Int
    BY <1>3
  <2>5. BucketOf(s, s[k]) = IF z <= MaxSeries - 1 THEN z ELSE MaxSeries - 1
    BY <2>2, <2>3, <2>4, LesserOf
  <2> QED BY <1>3, <2>1, <2>3, <2>5
<1> QED BY <1>1, <1>4 DEF Buckets

LEMMA BucketsKept ==
    ASSUME AssessmentAssumption, NEW T, Instants(T), NEW s \in Seq(T), Timed(s), s # <<>>, s[1].at < Last(s).at
    PROVE  /\ KeptOf(s) \in Seq(T) /\ KeptOf(s) # <<>> /\ Len(KeptOf(s)) <= MaxSeries
           /\ Last(KeptOf(s)) = Last(s)
<1> DEFINE B == Buckets(s)
           q == Sorted(B, <)
           n == Cardinality(B)
           S(b) == {k \in DOMAIN s : BucketOf(s, s[k]) = q[b]}
           K == KeptOf(s)
<1>1. B \in SUBSET (0 .. MaxSeries - 1) /\ MaxSeries - 1 \in B /\ MaxSeries \in Nat \ {0}
  BY BucketsAre DEF AssessmentAssumption
<1>2. IsFiniteSet(B) /\ n <= MaxSeries /\ B \in SUBSET Int
  <2>1. IsFiniteSet(0 .. MaxSeries - 1) /\ Cardinality(0 .. MaxSeries - 1) = MaxSeries
    <3>1. 0 \in Int /\ MaxSeries - 1 \in Int /\ ~(0 > MaxSeries - 1) /\ (MaxSeries - 1) - 0 + 1 = MaxSeries
      BY <1>1
    <3> QED BY <3>1, FS_Interval
  <2>2. IsFiniteSet(B) /\ n <= MaxSeries
    <3> HIDE DEF B
    <3> QED BY <1>1, <2>1, FS_Subset
  <2> HIDE DEF n
  <2> QED BY <1>1, <2>2
<1>3. Lists(q, B) /\ n \in Nat
  <2> HIDE DEF B
  <2> QED BY <1>2, SortedLists
<1>4. K = [b \in DOMAIN q |-> Last(Those(s, S(b)))]
  BY DEF KeptOf
<1> HIDE DEF K
<1>5. /\ DOMAIN q = 1 .. n /\ (\A b \in 1 .. n : q[b] \in B)
      /\ \A i, j \in 1 .. n : i < j => q[i] < q[j]
      /\ \A x \in B : \E i \in 1 .. n : q[i] = x
  <2> HIDE DEF B, q
  <2> QED BY <1>3 DEF Lists
<1>6. ASSUME NEW b \in 1 .. n PROVE K[b] \in T
  <2> DEFINE t == Those(s, S(b))
  <2>1. S(b) \in SUBSET DOMAIN s /\ S(b) # {}
    <3>1. q[b] \in {BucketOf(s, s[k]) : k \in DOMAIN s}
      <4>1. q[b] \in B
        BY <1>5
      <4> HIDE DEF q
      <4> QED BY <4>1 DEF Buckets
    <3> HIDE DEF q
    <3> QED BY <3>1
  <2> HIDE DEF S
  <2>2. t \in Seq(T) /\ Len(t) = Cardinality(S(b)) /\ Cardinality(S(b)) \in Nat
    BY <2>1, ThoseIs
  <2>3. Cardinality(S(b)) # 0
    <3>1. IsFiniteSet(S(b))
      <4>1. IsFiniteSet(1 .. Len(s)) /\ DOMAIN s = 1 .. Len(s)
        BY FS_Interval
      <4> QED BY <2>1, <4>1, FS_Subset
    <3> QED BY <2>1, <3>1, FS_EmptySet
  <2>4. Len(t) \in DOMAIN t
    <3> HIDE DEF t
    <3> QED BY <2>2, <2>3
  <2>5. t[Len(t)] \in T
    <3> HIDE DEF t
    <3> QED BY <2>2, <2>4
  <2>6. K[b] = t[Len(t)]
    <3>1. K[b] = Last(t)
      <4> HIDE DEF q
      <4> QED BY <1>4, <1>5
    <3> HIDE DEF t
    <3> QED BY <3>1 DEF Last
  <2> QED BY <2>5, <2>6
<1>7. K \in [1 .. n -> T]
  <2> HIDE DEF q, n, S
  <2> QED BY <1>4, <1>5, <1>6
<1>8. K \in Seq(T) /\ Len(K) = n
  <2>1. n \in Nat
    BY <1>3
  <2> HIDE DEF q, n, B, S
  <2> QED BY <1>7, <2>1
<1>9. PICK i \in 1 .. n : q[i] = MaxSeries - 1
  <2> HIDE DEF q, n, B
  <2> QED BY <1>1, <1>5
<1>10. i = n
  <2> HIDE DEF q, n, B
  <2>1. n \in 1 .. n
    BY <1>3, <1>9
  <2>2. q[n] <= MaxSeries - 1 /\ q[n] \in Int
    <3>1. q[n] \in 0 .. MaxSeries - 1
      BY <1>1, <1>5, <2>1
    <3> QED BY <1>1, <3>1
  <2>3. ~(i < n)
    BY <1>1, <1>5, <1>9, <2>1, <2>2
  <2> QED BY <1>3, <1>9, <2>3
<1>11. Last(K) = Last(Those(s, S(n)))
  <2> HIDE DEF q, S
  <2>1. n \in DOMAIN q /\ n # 0
    <3> HIDE DEF n
    <3> QED BY <1>3, <1>5, <1>9
  <2>2. K[n] = Last(Those(s, S(n)))
    BY <1>4, <2>1
  <2>3. Last(K) = K[n]
    <3> HIDE DEF n
    <3> QED BY <1>8 DEF Last
  <2> QED BY <2>2, <2>3
<1>12. Len(s) \in S(n) /\ S(n) \in SUBSET DOMAIN s
  <2>1. BucketOf(s, s[Len(s)]) = MaxSeries - 1 /\ Len(s) \in DOMAIN s
    <3>1. BucketOf(s, Last(s)) = MaxSeries - 1
      BY BucketsAre
    <3> QED BY <3>1 DEF Last
  <2>2. q[n] = MaxSeries - 1
    <3> HIDE DEF q, n
    <3> QED BY <1>9, <1>10
  <2> HIDE DEF q, n
  <2> QED BY <2>1, <2>2
<1>13. Last(Those(s, S(n))) = Last(s)
  <2> HIDE DEF S, n
  <2> QED BY <1>12, LastOfThose
<1> HIDE DEF n, S
<1>14. K # <<>> /\ Len(K) <= MaxSeries
  <2>1. n >= 1
    <3>1. n \in Nat
      BY <1>3
    <3> HIDE DEF q, B
    <3>2. i \in 1 .. n
      BY <1>9
    <3> QED BY <3>1, <3>2
  <2> QED BY <1>2, <1>8, <2>1
<1> QED BY <1>8, <1>11, <1>13, <1>14 DEF K

-----------------------------------------------------------------------------
(* Histories *)

Mine(s, a, metric) == {i \in DOMAIN s : s[i].asset = a /\ s[i].metric = metric}
Earlier(s, S) == {p \in S \X S : s[p[1]].at < s[p[2]].at \/ (s[p[1]].at = s[p[2]].at /\ p[1] < p[2])}

LEMMA EarlierOrders ==
    ASSUME NEW T, Instants(T), NEW s \in Seq(T), NEW S \in SUBSET DOMAIN s
    PROVE  Orders(Earlier(s, S), S) /\ IsFiniteSet(S) /\ Cardinality(S) \in Nat
<1>1. \A i \in S : i \in Int /\ s[i].at \in Int
  BY DEF Instants
<1>2. \A i, j \in S : <<i, j>> \in Earlier(s, S) <=> s[i].at < s[j].at \/ (s[i].at = s[j].at /\ i < j)
  BY DEF Earlier
<1>3. Orders(Earlier(s, S), S)
  BY <1>1, <1>2 DEF Orders
<1>4. IsFiniteSet(S)
  <2>1. IsFiniteSet(1 .. Len(s)) /\ DOMAIN s = 1 .. Len(s)
    BY FS_Interval
  <2> QED BY <2>1, FS_Subset
<1> QED BY <1>3, <1>4, FS_CardinalityType

LEMMA HistoryIs ==
    ASSUME NEW T, Instants(T), NEW s \in Seq(T), NEW a, NEW metric
    PROVE  LET S == Mine(s, a, metric)
               q == Ranking(Earlier(s, S), S)
           IN  /\ History(s, a, metric) = [k \in 1 .. Cardinality(S) |-> s[q[k]]]
               /\ q \in [1 .. Cardinality(S) -> S] /\ Cardinality(S) \in Nat
               /\ \A i, j \in 1 .. Cardinality(S) : i < j => <<q[i], q[j]>> \in Earlier(s, S)
<1> DEFINE S == Mine(s, a, metric)
           R == Earlier(s, S)
           q == Ranking(R, S)
           n == Cardinality(S)
           Ahead(x) == {y \in S : s[y].at < s[x].at \/ (s[y].at = s[x].at /\ y < x)}
           srt == [r \in 1 .. n |-> CHOOSE x \in S : Cardinality(Ahead(x)) = r - 1]
<1>1. S \in SUBSET DOMAIN s
  BY DEF Mine
<1>2. Orders(R, S) /\ IsFiniteSet(S) /\ n \in Nat
  BY <1>1, EarlierOrders
<1>3. ASSUME NEW x \in S PROVE Ahead(x) = Under(R, S, x)
  BY DEF Under, Earlier
<1>4. History(s, a, metric) = [k \in DOMAIN srt |-> s[srt[k]]]
  BY Zenon DEF History, Sorted, At, Mine
<1>5. srt = q
  <2>1. ASSUME NEW r \in 1 .. n
        PROVE  (CHOOSE x \in S : Cardinality(Ahead(x)) = r - 1) = CHOOSE x \in S : Cardinality(Under(R, S, x)) = r - 1
    <3> HIDE DEF Ahead, R, S, n
    <3> QED BY <1>3
  <2>2. q = [r \in 1 .. n |-> CHOOSE x \in S : Cardinality(Under(R, S, x)) = r - 1]
    BY DEF Ranking
  <2>3. srt = [r \in 1 .. n |-> CHOOSE x \in S : Cardinality(Ahead(x)) = r - 1]
    OBVIOUS
  <2> DEFINE one(r) == CHOOSE x \in S : Cardinality(Under(R, S, x)) = r - 1
             two(r) == CHOOSE x \in S : Cardinality(Ahead(x)) = r - 1
  <2>4. q = [r \in 1 .. n |-> one(r)] /\ srt = [r \in 1 .. n |-> two(r)] /\ \A r \in 1 .. n : one(r) = two(r)
    BY <2>1, <2>2, <2>3
  <2> HIDE DEF one, two, q, srt
  <2> QED BY <2>4
<1>6. q \in Seq(S) /\ Len(q) = n
  <2> HIDE DEF R, S
  <2> QED BY <1>2, RankingFacts
<1>7. ASSUME NEW i \in 1 .. n, NEW j \in 1 .. n, i < j PROVE <<q[i], q[j]>> \in R
  <2> HIDE DEF R, S
  <2> QED BY <1>2, <1>7, RankingOrder
<1> HIDE DEF q, srt, R, S, n
<1>8. q \in [1 .. n -> S] /\ DOMAIN q = 1 .. n
  BY <1>2, <1>6
<1>9. History(s, a, metric) = [k \in 1 .. n |-> s[q[k]]]
  BY <1>4, <1>5, <1>8
<1> QED BY <1>2, <1>7, <1>8, <1>9 DEF q, R, S, n

LEMMA HistoryTimed ==
    ASSUME NEW T, Instants(T), NEW s \in Seq(T), NEW a, NEW metric
    PROVE  History(s, a, metric) \in Seq(T) /\ Timed(History(s, a, metric))
<1> DEFINE S == Mine(s, a, metric)
           q == Ranking(Earlier(s, S), S)
           n == Cardinality(S)
           h == History(s, a, metric)
<1>1. /\ h = [k \in 1 .. n |-> s[q[k]]] /\ q \in [1 .. n -> S] /\ n \in Nat
      /\ \A i, j \in 1 .. n : i < j => <<q[i], q[j]>> \in Earlier(s, S)
  BY HistoryIs
<1>2. S \in SUBSET DOMAIN s /\ \A i \in DOMAIN s : s[i] \in T /\ s[i].at \in Int
  BY DEF Mine, Instants
<1>3. ASSUME NEW i \in S, NEW j \in S, <<i, j>> \in Earlier(s, S) PROVE s[i].at <= s[j].at
  BY <1>2, <1>3 DEF Earlier
<1> HIDE DEF S, q, n, h
<1>4. h \in [1 .. n -> T] /\ DOMAIN h = 1 .. n
  BY <1>1, <1>2
<1>5. h \in Seq(T)
  BY <1>1, <1>4
<1>6. ASSUME NEW i \in 1 .. n, NEW j \in 1 .. n, i <= j PROVE h[i].at <= h[j].at
  <2>1. q[i] \in S /\ q[j] \in S /\ h[i] = s[q[i]] /\ h[j] = s[q[j]]
    BY <1>1
  <2>2. CASE i = j
    BY <1>2, <2>1, <2>2
  <2>3. CASE i < j
    BY <1>1, <1>3, <2>1, <2>3
  <2>4. i = j \/ i < j
    BY <1>1, <1>6
  <2> QED BY <2>2, <2>3, <2>4
<1> QED BY <1>4, <1>5, <1>6 DEF Timed, h

LEMMA SwappedHistory ==
    ASSUME NEW T, Instants(T), NEW s \in Seq(T), NEW k \in 1 .. Len(s) - 1, NEW a, NEW metric,
           s[k].at # s[k + 1].at \/ s[k].asset # s[k + 1].asset \/ s[k].metric # s[k + 1].metric
    PROVE  History(Swapped(s, k), a, metric) = History(s, a, metric)
<1> DEFINE u == Swapped(s, k)
           flip == [i \in DOMAIN s |-> IF i = k THEN k + 1 ELSE IF i = k + 1 THEN k ELSE i]
           S == Mine(s, a, metric)
           U == Mine(u, a, metric)
           q == Ranking(Earlier(s, S), S)
           v == Ranking(Earlier(u, U), U)
           p == [i \in 1 .. Cardinality(U) |-> flip[v[i]]]
<1>1. /\ DOMAIN s = 1 .. Len(s) /\ Len(s) \in Nat /\ k \in DOMAIN s /\ k + 1 \in DOMAIN s /\ k \in Int /\ k # k + 1
      /\ \A i \in DOMAIN s : s[i] \in T /\ s[i].at \in Int /\ i \in Int
  BY DEF Instants
<1>2. flip \in [DOMAIN s -> DOMAIN s] /\ \A i \in DOMAIN s : flip[flip[i]] = i
  BY <1>1
<1>3. DOMAIN u = DOMAIN s /\ \A i \in DOMAIN s : u[i] = s[flip[i]]
  BY <1>1 DEF Swapped
<1>4. u \in Seq(T)
  <2> HIDE DEF u, flip
  <2>1. u \in [1 .. Len(s) -> T]
    <3>1. \A i \in DOMAIN s : u[i] \in T
      BY <1>1, <1>2, <1>3
    <3>2. u = [i \in 1 .. Len(s) |-> u[i]]
      <4>1. u = [i \in DOMAIN u |-> u[i]]
        BY DEF u, Swapped
      <4> QED BY <1>1, <1>3, <4>1
    <3> QED BY <1>1, <3>1, <3>2
  <2> QED BY <1>1, <2>1
<1>5. /\ History(s, a, metric) = [i \in 1 .. Cardinality(S) |-> s[q[i]]]
      /\ q \in [1 .. Cardinality(S) -> S] /\ Cardinality(S) \in Nat
  BY HistoryIs
<1>6. /\ History(u, a, metric) = [i \in 1 .. Cardinality(U) |-> u[v[i]]]
      /\ v \in [1 .. Cardinality(U) -> U] /\ Cardinality(U) \in Nat
      /\ \A i, j \in 1 .. Cardinality(U) : i < j => <<v[i], v[j]>> \in Earlier(u, U)
  <2> HIDE DEF u
  <2> QED BY <1>4, HistoryIs
<1>7. S \in SUBSET DOMAIN s /\ U \in SUBSET DOMAIN s /\ \A i \in DOMAIN s : i \in U <=> flip[i] \in S
  <2> HIDE DEF u, flip
  <2> QED BY <1>2, <1>3 DEF Mine
<1>8. ~(k \in S /\ k + 1 \in S /\ s[k].at = s[k + 1].at)
  BY DEF Mine
<1>9. ASSUME NEW i \in U, NEW j \in U, <<i, j>> \in Earlier(u, U) PROVE <<flip[i], flip[j]>> \in Earlier(s, S)
  <2> DEFINE x == flip[i]
             y == flip[j]
  <2>1. x \in S /\ y \in S /\ u[i] = s[x] /\ u[j] = s[y] /\ flip[x] = i /\ flip[y] = j /\ x \in DOMAIN s /\ y \in DOMAIN s
    <3> HIDE DEF u, flip, S, U
    <3> QED BY <1>2, <1>3, <1>7
  <2>2. s[x].at < s[y].at \/ (s[x].at = s[y].at /\ flip[x] < flip[y])
    <3> HIDE DEF u, flip, S, U, x, y
    <3> QED BY <1>9, <2>1 DEF Earlier
  <2>3. s[x].at = s[y].at /\ flip[x] < flip[y] => x < y
    <3> SUFFICES ASSUME s[x].at = s[y].at, flip[x] < flip[y] PROVE x < y
      OBVIOUS
    <3> HIDE DEF u, S, U, x, y
    <3>1. ~(x = k /\ y = k + 1) /\ ~(x = k + 1 /\ y = k)
      BY <1>8, <2>1
    <3> QED BY <1>1, <2>1, <3>1
  <2> HIDE DEF x, y, S
  <2>4. <<x, y>> \in Earlier(s, S)
    BY <2>1, <2>2, <2>3 DEF Earlier
  <2> QED BY <2>4 DEF x, y
<1>10. Cardinality(U) = Cardinality(S)
  <2> DEFINE f == [i \in U |-> flip[i]]
  <2>1. IsFiniteSet(U)
    <3> HIDE DEF U
    <3>1. IsFiniteSet(1 .. Len(s))
      BY <1>1, FS_Interval
    <3> QED BY <1>1, <1>7, <3>1, FS_Subset
  <2>2. f \in [U -> S] /\ (\A i, j \in U : f[i] = f[j] => i = j) /\ \A x \in S : \E i \in U : f[i] = x
    <3> HIDE DEF flip, U, S, u
    <3>1. \A x \in S : flip[x] \in U /\ flip[flip[x]] = x
      BY <1>2, <1>7
    <3> QED BY <1>2, <1>7, <3>1
  <2>3. f \in Bijection(U, S)
    <3> HIDE DEF f, U, S
    <3> QED BY <2>2 DEF Bijection, Injection, Surjection, IsInjective
  <2>4. ExistsBijection(U, S)
    <3> HIDE DEF f, U, S
    <3> QED BY <2>3, Zenon DEF ExistsBijection
  <2> HIDE DEF U, S
  <2> QED BY <2>1, <2>4, FS_Bijection
<1>11. p \in [1 .. Cardinality(S) -> S] /\ \A i, j \in 1 .. Cardinality(S) : i < j => <<p[i], p[j]>> \in Earlier(s, S)
  <2> HIDE DEF flip, U, S, u, v
  <2>1. \A i \in 1 .. Cardinality(U) : v[i] \in U /\ p[i] = flip[v[i]] /\ p[i] \in S
    BY <1>6, <1>7
  <2>2. \A i, j \in 1 .. Cardinality(U) : i < j => <<p[i], p[j]>> \in Earlier(s, S)
    BY <1>6, <1>9, <2>1
  <2> QED BY <1>10, <2>1, <2>2
<1>12. p = q
  <2>1. Orders(Earlier(s, S), S) /\ IsFiniteSet(S)
    <3> HIDE DEF S
    <3> QED BY <1>7, EarlierOrders
  <2> HIDE DEF p, S
  <2> QED BY <1>11, <2>1, RankingOnly
<1>13. \A i \in 1 .. Cardinality(U) : u[v[i]] = s[q[i]]
  <2>1. \A i \in 1 .. Cardinality(U) : v[i] \in DOMAIN s /\ p[i] = flip[v[i]]
    <3> HIDE DEF flip, U, S, u, v
    <3> QED BY <1>6, <1>7
  <2> HIDE DEF flip, U, S, u, v, p, q
  <2> QED BY <1>3, <1>12, <2>1
<1> HIDE DEF U, S, u, v, q
<1> QED BY <1>5, <1>6, <1>10, <1>13 DEF u

-----------------------------------------------------------------------------
(* What the loop concludes from readings *)

LEMMA DerivedFromHistories ==
    ASSUME NEW r, NEW s, NEW dues, NEW pol, NEW asOf,
           \A a, metric : History(r, a, metric) = History(s, a, metric)
    PROVE  Derived(r, dues, pol, asOf) = Derived(s, dues, pol, asOf)
<1>1. \A a, metric : Usable(r, a, metric, asOf) = Usable(s, a, metric, asOf)
  BY DEF Usable
<1>2. \A a, metric : /\ Assessed(r, a, metric, asOf) = Assessed(s, a, metric, asOf)
                     /\ Passed(r, a, metric, asOf) = Passed(s, a, metric, asOf)
  BY <1>1 DEF Assessed, Passed
<1>3. \A a : View(r, a, asOf) = View(s, a, asOf)
  BY <1>2 DEF View
<1> QED BY <1>3 DEF Derived

\* Whatever stations may send, at any time.
Readings ==
    {[asset |-> r.asset, metric |-> r.metric, value |-> r.value, flag |-> r.flag, at |-> t] :
        r \in UNION {m.reports \cup m.landing : m \in Menus}, t \in Int}
ReadingsInv == menu \in Menus /\ now \in Int /\ obs \in Seq(Readings) /\ dataset \in Seq(Readings)

LEMMA ReadingTyped ==
    ASSUME ReadingsInv, NEW r \in menu.reports \cup menu.landing, NEW delay \in menu.delays
    PROVE  Reading(r, delay) \in Readings
<1>1. now - delay \in Int
  BY MonitoringAssumption DEF ReadingsInv
<1>2. r \in UNION {m.reports \cup m.landing : m \in Menus}
  BY DEF ReadingsInv
<1> QED BY <1>1, <1>2 DEF Reading, Readings

LEMMA ReadingsInstants == Instants(Readings)
BY DEF Instants, Readings

LEMMA ReadingsStart == MonitoringInit => ReadingsInv
BY MonitoringAssumption DEF MonitoringInit, ReadingsInv

LEMMA ReadingsPreserved == ReadingsInv /\ [Next]_vars => ReadingsInv'
<1> SUFFICES ASSUME ReadingsInv, [Next]_vars PROVE ReadingsInv'
  OBVIOUS
<1> USE DEF ReadingsInv, world, session, files
<1>1. ASSUME UNCHANGED monitoringVars PROVE ReadingsInv'
  BY <1>1 DEF monitoringVars
<1>2. ASSUME MonitoringNext PROVE ReadingsInv'
  <2>1. ASSUME NEW r \in menu.reports, NEW delay \in menu.delays, Report(r, delay) PROVE ReadingsInv'
    <3>1. Reading(r, delay) \in Readings
      BY ReadingTyped
    <3> QED BY <2>1, <3>1 DEF Report, Revise
  <2>2. ASSUME NEW r \in menu.landing, NEW delay \in menu.delays, Land(r, delay) PROVE ReadingsInv'
    <3>1. Reading(r, delay) \in Readings
      BY ReadingTyped
    <3> QED BY <2>2, <3>1 DEF Land
  <2>3. ASSUME NEW kind, NEW late, CompleteTask(kind, late) PROVE ReadingsInv'
    BY <2>3 DEF CompleteTask, Revise
  <2>4. ASSUME StartSession \/ Tick \/ AuditOnly \/ WriteOverlay \/ AppendAudit \/ DeleteOverlay PROVE ReadingsInv'
    BY <2>4 DEF StartSession, Baseline, Tick, AuditOnly, WriteOverlay, AppendAudit, DeleteOverlay
  <2>5. ASSUME NEW dies, PlanPeriodic(dies) PROVE ReadingsInv'
    BY <2>5 DEF PlanPeriodic
  <2>6. ASSUME DieTuning PROVE ReadingsInv'
    BY <2>6 DEF DieTuning, Baseline
  <2> QED BY <1>2, <2>1, <2>2, <2>3, <2>4, <2>5, <2>6 DEF MonitoringNext
<1> QED BY <1>1, <1>2 DEF Next, vars

LEMMA SpanKept ==
    ASSUME NEW w \in Seq(Readings), Timed(w), Len(w) > MaxSeries
    PROVE  /\ Len(Downsampled(w)) <= MaxSeries + 1
           /\ Downsampled(w)[1].at = w[1].at /\ Last(Downsampled(w)) = Last(w)
<1> DEFINE n == Len(w)
           d == Downsampled(w)
<1>1. MaxSeries \in Nat \ {0} /\ AssessmentAssumption
  BY AssessmentAssumption
<1>2. n \in Nat /\ DOMAIN w = 1 .. n /\ w # <<>> /\ 1 \in DOMAIN w /\ n \in DOMAIN w /\ Last(w) = w[n]
  BY <1>1 DEF Last
<1>3. \A i \in DOMAIN w : w[i].at \in Int /\ w[1].at <= w[i].at /\ w[i].at <= Last(w).at
  <2>1. \A i \in DOMAIN w : w[i] \in Readings
    OBVIOUS
  <2>2. \A i \in DOMAIN w : 1 <= i /\ i <= n
    BY <1>2
  <2> QED BY <1>2, <2>1, <2>2, ReadingsInstants DEF Timed, Instants
<1>4. CASE Last(w).at - w[1].at <= 0
  <2>1. d = SubSeq(w, n - MaxSeries + 1, n)
    BY <1>4, DownsampledIs
  <2>2. \A i \in DOMAIN w : w[i].at = w[1].at
    BY <1>2, <1>3, <1>4
  <2>3. n - MaxSeries + 1 \in 1 .. n + 1
    BY <1>1, <1>2
  <2>4. d \in Seq(Readings) /\ Len(d) = MaxSeries /\ \A i \in 1 .. MaxSeries : d[i] = w[n - MaxSeries + i]
    <3>1. n - MaxSeries + 1 \in Nat /\ n - (n - MaxSeries + 1) + 1 = MaxSeries
      BY <1>1, <1>2
    <3>2. \A i \in 1 .. MaxSeries : n - MaxSeries + 1 + i - 1 = n - MaxSeries + i
      BY <1>1, <1>2
    <3> HIDE DEF d, n
    <3> QED BY <1>1, <1>2, <2>1, <2>3, <3>1, <3>2
  <2> HIDE DEF d, n
  <2>5. d[1].at = w[1].at
    <3>1. 1 \in 1 .. MaxSeries /\ n - MaxSeries + 1 \in DOMAIN w
      BY <1>1, <1>2
    <3> QED BY <2>2, <2>4, <3>1
  <2>6. Last(d) = Last(w)
    <3>1. MaxSeries \in 1 .. MaxSeries /\ n - MaxSeries + MaxSeries = n
      BY <1>1, <1>2
    <3> QED BY <1>2, <2>4, <3>1 DEF Last
  <2> QED BY <1>1, <2>4, <2>5, <2>6 DEF d
<1>5. CASE ~(Last(w).at - w[1].at <= 0)
  <2> DEFINE K == KeptOf(w)
  <2>1. w[1].at < Last(w).at
    BY <1>2, <1>3, <1>5
  <2>2. K \in Seq(Readings) /\ K # <<>> /\ Len(K) <= MaxSeries /\ Last(K) = Last(w)
    BY <1>1, <1>2, <2>1, BucketsKept, ReadingsInstants
  <2>3. d = IF K[1] = w[1] THEN K ELSE <<w[1]>> \o K
    BY <1>5, DownsampledIs
  <2>4. w[1] \in Readings
    BY <1>2
  <2> HIDE DEF K, d
  <2>5. CASE K[1] = w[1]
    BY <1>1, <2>2, <2>3, <2>5 DEF d
  <2>6. CASE K[1] # w[1]
    <3>1. d = <<w[1]>> \o K /\ Len(d) = Len(K) + 1 /\ d[1] = w[1] /\ Len(K) >= 1 /\ d[Len(K) + 1] = K[Len(K)]
      BY <2>2, <2>3, <2>4, <2>6
    <3> QED BY <1>1, <2>2, <3>1 DEF d, Last
  <2> QED BY <2>5, <2>6
<1> QED BY <1>4, <1>5

LEMMA BurstIs == ReadingsInv => BurstKeepsSpan
<1> SUFFICES ASSUME ReadingsInv, NEW a \in Assets, NEW metric \in {"battery", "moisture", "health"},
                    InWindow(Trusted(History(obs, a, metric), effective), effective) # <<>>
             PROVE  LET window == InWindow(Trusted(History(obs, a, metric), effective), effective)
                        kept == Retained(Trusted(History(obs, a, metric), effective), effective)
                    IN  /\ Len(kept) <= MaxSeries + 1
                        /\ kept[1].at = window[1].at /\ Last(kept) = Last(window)
  BY DEF BurstKeepsSpan
<1> DEFINE h == History(obs, a, metric)
           t == Trusted(h, effective)
           w == InWindow(t, effective)
           S(s) == {k \in DOMAIN s : s[k].at <= effective + Skew}
           R(s) == {k \in DOMAIN s : s[k].at >= effective - Retention}
<1>1. h \in Seq(Readings) /\ Timed(h)
  BY HistoryTimed, ReadingsInstants DEF ReadingsInv
<1>2. t = Those(h, S(h)) /\ w = Those(t, R(t))
  BY DEF Trusted, InWindow
<1> HIDE DEF h, t, w
<1>3. t \in Seq(Readings) /\ Timed(t)
  <2>1. S(h) \in SUBSET DOMAIN h
    OBVIOUS
  <2> HIDE DEF S
  <2> QED BY <1>1, <1>2, <2>1, ThoseIs, ThoseTimed, ReadingsInstants
<1>4. w \in Seq(Readings) /\ Timed(w)
  <2>1. R(t) \in SUBSET DOMAIN t
    OBVIOUS
  <2> HIDE DEF R
  <2> QED BY <1>2, <1>3, <2>1, ThoseIs, ThoseTimed, ReadingsInstants
<1>5. Retained(t, effective) = IF Len(w) <= MaxSeries THEN w ELSE Downsampled(w)
  BY DEF Retained, w
<1>6. CASE Len(w) <= MaxSeries
  BY <1>4, <1>5, <1>6, AssessmentAssumption DEF w, t, h
<1>7. CASE ~(Len(w) <= MaxSeries)
  <2>1. Len(w) > MaxSeries
    BY <1>4, <1>7, AssessmentAssumption
  <2>2. /\ Len(Downsampled(w)) <= MaxSeries + 1
        /\ Downsampled(w)[1].at = w[1].at /\ Last(Downsampled(w)) = Last(w)
    BY <1>4, <2>1, SpanKept
  <2> QED BY <1>5, <1>7, <2>2 DEF w, t, h
<1> QED BY <1>6, <1>7

LEMMA EvidenceIs == ReadingsInv => EvidenceRobust
<1> SUFFICES ASSUME ReadingsInv PROVE EvidenceRobust
  OBVIOUS
<1>1. ASSUME NEW k \in 1 .. Len(obs) - 1,
             obs[k].at # obs[k + 1].at \/ obs[k].asset # obs[k + 1].asset \/ obs[k].metric # obs[k + 1].metric
      PROVE  Derived(Swapped(obs, k), due, policy, effective) = Derived(obs, due, policy, effective)
  <2>1. \A a, metric : History(Swapped(obs, k), a, metric) = History(obs, a, metric)
    BY <1>1, SwappedHistory, ReadingsInstants DEF ReadingsInv
  <2> QED BY <2>1, DerivedFromHistories
<1> QED BY <1>1, BurstIs DEF EvidenceRobust, ArrivalOrderIrrelevant

\* For any readings, in whatever order and number they arrive: neighbours in arrival
\* with different times or of different series may change places and the same service
\* tasks are derived (observation_history), and what _retained keeps of a burst spans
\* the same time as the burst, with at most one reading more than its limit.
THEOREM EvidenceIsRobust == Spec => []EvidenceRobust
BY ReadingsStart, ReadingsPreserved, EvidenceIs, PTL DEF Spec, Init

-----------------------------------------------------------------------------
(* Which way a tuning leans *)

\* Readings a drain can be measured on.
Gauged(T) == \A r \in T : r.at \in Int /\ r.value \in Int

\* q asks for a service no earlier than p.
Later(p, q) ==
    /\ q.critical = p.critical /\ q.confidence = p.confidence /\ q.mobile = p.mobile
    /\ \A f \in {"low", "horizon", "composite"} : p[f] \in Nat /\ q[f] \in Nat /\ q[f] <= p[f]

LEMMA BatteryLeans ==
    ASSUME NEW T, Gauged(T), NEW s \in Seq(T), NEW p, NEW q, Later(p, q), BatteryReason(s, p) = {}
    PROVE  BatteryReason(s, q) = {}
<1>1. Speaks(s, q) = Speaks(s, p)
  BY DEF Speaks, Confident, Later
<1>2. CASE ~Speaks(s, p)
  BY <1>1, <1>2 DEF BatteryReason
<1>3. CASE Speaks(s, p)
  <2>1. Level(s) \in Int
    <3>1. Last(s) \in T
      BY <1>3 DEF Speaks, Last
    <3> QED BY <3>1 DEF Gauged, Level
  <2>2. ~(Level(s) <= p.critical) /\ ~(Level(s) <= p.low)
    BY <1>3 DEF BatteryReason
  <2>3. ~(Level(s) <= q.critical) /\ ~(Level(s) <= q.low)
    BY <2>1, <2>2 DEF Later
  <2> QED BY <2>3 DEF BatteryReason
<1> QED BY <1>2, <1>3

LEMMA Projected ==
    ASSUME NEW level \in Int, NEW span \in Nat, NEW drain \in Nat, NEW h \in Nat, NEW g \in Nat, g <= h,
           NEW l \in Nat, NEW k \in Nat, k <= l, level * span - drain * g <= k * span
    PROVE  level * span - drain * h <= l * span
<1>1. PICK x \in Nat : h = g + x
  <2>1. h - g \in Nat /\ h = g + (h - g)
    OBVIOUS
  <2> QED BY <2>1
<1>2. PICK y \in Nat : l = k + y
  <2>1. l - k \in Nat /\ l = k + (l - k)
    OBVIOUS
  <2> QED BY <2>1
<1>3. drain * h = drain * g + drain * x /\ drain * x \in Nat /\ drain * g \in Nat
  BY <1>1
<1>4. l * span = k * span + y * span /\ y * span \in Nat /\ k * span \in Nat /\ level * span \in Int
  BY <1>2
<1> QED BY <1>3, <1>4

LEMMA ForecastLeans ==
    ASSUME NEW T, Gauged(T), NEW series \in Seq(T), NEW p, NEW q, Later(p, q), ForecastReason(series, p) = {}
    PROVE  ForecastReason(series, q) = {}
<1> DEFINE S(r) == {k \in DOMAIN series : Confident(series[k], r)}
           s == Those(series, S(p))
           span == Last(s).at - s[1].at
           drain == s[1].value - Last(s).value
           Falls(r) == Len(s) >= 2 /\ span > 0 /\ drain > 0 /\ Level(s) * span - drain * r.horizon <= r.low * span
<1>1. S(q) = S(p)
  BY DEF Confident, Later
<1>2. ForecastReason(series, p) = IF Falls(p) THEN {"forecast"} ELSE {}
  BY DEF ForecastReason
<1>3. ForecastReason(series, q) = IF Falls(q) THEN {"forecast"} ELSE {}
  BY <1>1 DEF ForecastReason
<1>4. ASSUME Falls(q) PROVE Falls(p)
  <2>1. s \in Seq(T)
    BY ThoseIs
  <2> HIDE DEF s
  <2>2. s[1] \in T /\ Last(s) \in T
    BY <2>1, <1>4 DEF Last
  <2>3. Level(s) \in Int /\ span \in Nat /\ drain \in Nat
    BY <2>2, <1>4 DEF Gauged, Level
  <2> HIDE DEF span, drain
  <2>4. Level(s) * span - drain * p.horizon <= p.low * span
    BY <2>3, <1>4, Projected DEF Later
  <2> QED BY <1>4, <2>4
<1> QED BY <1>2, <1>3, <1>4

LEMMA Clamped ==
    ASSUME NEW x \in Int
    PROVE  Clamp01(x) \in Nat /\ Clamp01(x) = IF x < 0 THEN 0 ELSE IF x > 10000 THEN 10000 ELSE x
BY BoundedByClamps DEF Clamp01

\* The more of a level lies above the threshold, the higher the signal.
LEMMA HeadroomLeans ==
    ASSUME NEW level \in Int, NEW l \in Nat, NEW k \in Nat, k <= l
    PROVE  /\ Clamp01(((level - l) * 10) \div 3) \in Nat /\ Clamp01(((level - k) * 10) \div 3) \in Nat
           /\ Clamp01(((level - l) * 10) \div 3) <= Clamp01(((level - k) * 10) \div 3)
<1> DEFINE x == ((level - l) * 10) \div 3
           y == ((level - k) * 10) \div 3
<1>1. x \in Int /\ y \in Int /\ x <= y
  OBVIOUS
<1> HIDE DEF x, y
<1>2. Clamp01(x) \in Nat /\ Clamp01(y) \in Nat /\ Clamp01(x) <= Clamp01(y)
  BY <1>1, Clamped
<1> QED BY <1>2 DEF x, y

LEMMA CompositeLeans ==
    ASSUME NEW T, Gauged(T), NEW view, view.battery.readings \in Seq(T), NEW d \in Int, NEW asOf \in Int,
           NEW p, NEW q, Later(p, q), CompositeReason(view, d, p, asOf) = {}
    PROVE  CompositeReason(view, d, q, asOf) = {}
<1> DEFINE battery(r) == Speaks(view.battery.readings, r)
           health(r) == Speaks(view.health, r)
           If(signal, x) == IF signal THEN x ELSE 0
           headroom(r) == Clamp01(((Level(view.battery.readings) - r.low) * 10) \div 3)
           state == ScoreOf(Last(view.health).value)
           time == Clamp01(((d - asOf) * 10000) \div 30)
           signals(r) == If(battery(r), 1) + If(health(r), 1) + If(d # 0, 1) + If(view.drifts, 1)
           score(r) == If(battery(r), 35 * headroom(r)) + If(health(r), 35 * state) + If(d # 0, 20 * time) + If(view.drifts, 0)
           weight(r) == If(battery(r), 35) + If(health(r), 35) + If(d # 0, 20) + If(view.drifts, 10)
           Low(r) == signals(r) >= 2 /\ score(r) < r.composite * weight(r)
<1>1. CompositeReason(view, d, p, asOf) = IF Low(p) THEN {"composite"} ELSE {}
  BY DEF CompositeReason
<1>2. CompositeReason(view, d, q, asOf) = IF Low(q) THEN {"composite"} ELSE {}
  BY DEF CompositeReason
<1>3. battery(q) = battery(p) /\ health(q) = health(p)
  BY DEF Speaks, Confident, Later
<1>4. state \in Nat
  BY DEF ScoreOf, HealthScore
<1>5. time \in Nat
  <2>1. ((d - asOf) * 10000) \div 30 \in Int
    OBVIOUS
  <2> QED BY <2>1, Clamped
<1>6. battery(p) => headroom(p) \in Nat /\ headroom(q) \in Nat /\ headroom(p) <= headroom(q)
  <2> SUFFICES ASSUME battery(p) PROVE headroom(p) \in Nat /\ headroom(q) \in Nat /\ headroom(p) <= headroom(q)
    OBVIOUS
  <2>1. Level(view.battery.readings) \in Int
    <3>1. Last(view.battery.readings) \in T
      BY DEF Speaks, Last
    <3> QED BY <3>1 DEF Gauged, Level
  <2>2. p.low \in Nat /\ q.low \in Nat /\ q.low <= p.low
    BY DEF Later
  <2> QED BY <2>1, <2>2, HeadroomLeans
<1>7. weight(q) = weight(p) /\ signals(q) = signals(p) /\ weight(p) \in Nat
  BY <1>3
<1>8. score(p) \in Nat /\ score(q) \in Nat /\ score(p) <= score(q)
  <2> HIDE DEF headroom, state, time
  <2>1. If(battery(p), 35 * headroom(p)) \in Nat /\ If(battery(q), 35 * headroom(q)) \in Nat
    BY <1>3, <1>6
  <2>2. If(battery(p), 35 * headroom(p)) <= If(battery(q), 35 * headroom(q))
    BY <1>3, <1>6
  <2>3. If(health(p), 35 * state) \in Nat /\ If(health(p), 35 * state) = If(health(q), 35 * state)
    BY <1>3, <1>4
  <2>4. If(d # 0, 20 * time) \in Nat /\ If(view.drifts, 0) = 0
    BY <1>5
  <2> HIDE DEF If, battery, health
  <2> QED BY <2>1, <2>2, <2>3, <2>4
<1>9. q.composite * weight(q) <= p.composite * weight(p)
      /\ q.composite * weight(q) \in Nat /\ p.composite * weight(p) \in Nat
  <2> HIDE DEF weight
  <2>1. p.composite \in Nat /\ q.composite \in Nat /\ q.composite <= p.composite
    BY DEF Later
  <2>2. PICK x \in Nat : p.composite = q.composite + x
    <3>1. p.composite - q.composite \in Nat /\ p.composite = q.composite + (p.composite - q.composite)
      BY <2>1
    <3> QED BY <3>1
  <2>3. p.composite * weight(p) = q.composite * weight(p) + x * weight(p) /\ x * weight(p) \in Nat
    BY <1>7, <2>1, <2>2
  <2> QED BY <1>7, <2>1, <2>2, <2>3, SMTT(30)
<1>10. Low(q) => Low(p)
  <2> HIDE DEF weight, score, signals
  <2> QED BY <1>7, <1>8, <1>9
<1> HIDE DEF Low
<1> QED BY <1>1, <1>2, <1>10

LEMMA ReasonsLean ==
    ASSUME NEW T, Gauged(T), NEW view, view.battery.readings \in Seq(T), NEW d \in Int, NEW asOf \in Int,
           NEW p, NEW q, Later(p, q), Reasons(view, d, p, asOf) = {}
    PROVE  Reasons(view, d, q, asOf) = {}
<1> DEFINE s == view.battery.readings
           other(r) == HealthReason(view.health, r) \cup OverdueReason(d, asOf) \cup (IF view.drifts THEN {"calibration"} ELSE {})
           single(r) == BatteryReason(s, r) \cup (IF BatteryReason(s, r) = {} THEN ForecastReason(s, r) ELSE {}) \cup other(r)
<1>1. \A r : Reasons(view, d, r, asOf) = IF single(r) # {} THEN single(r) ELSE CompositeReason(view, d, r, asOf)
  BY DEF Reasons
<1>2. other(q) = other(p)
  BY DEF HealthReason, Speaks, Confident, Later
<1> HIDE DEF other
<1>3. single(p) = {}
  BY <1>1
<1>4. BatteryReason(s, p) = {} /\ ForecastReason(s, p) = {} /\ other(p) = {}
  BY <1>3
<1>5. BatteryReason(s, q) = {} /\ ForecastReason(s, q) = {}
  BY <1>4, BatteryLeans, ForecastLeans
<1>6. single(q) = {}
  BY <1>2, <1>4, <1>5
<1>7. CompositeReason(view, d, p, asOf) = {}
  BY <1>1, <1>3
<1>8. CompositeReason(view, d, q, asOf) = {}
  BY <1>7, CompositeLeans
<1> HIDE DEF single
<1> QED BY <1>1, <1>6, <1>8

\* What the overlay does not tune it does not change.
LEMMA FieldKept ==
    ASSUME WriteOverlay, policy = Layered(overlay), NEW a \in Assets, NEW f \in DOMAIN Profile.base, f \notin Tunables
    PROVE  ForAsset(Layered(overlay'), a)[f] = ForAsset(policy, a)[f]
<1> DEFINE t == TypeOf[a]
           own == Profile.assets[a]
           ofType == Profile.types[t]
           new == Layered(overlay')
<1>1. t \in Types /\ t \in Scopes /\ "all" \in Scopes /\ t # "all"
  BY MonitoringAssumption DEF Scopes
<1>2. /\ policy.base = Merged(Profile.base, Tuned("all"))
      /\ policy.types[t] = Merged(ofType, Tuned(t))
      /\ policy.assets[a] = own
  BY <1>1, LayeredParts DEF Tuned
<1>3. /\ new.base = Merged(Profile.base, TunedNext("all"))
      /\ new.types[t] = Merged(ofType, TunedNext(t))
      /\ new.assets[a] = own
  BY <1>1, LayeredParts, WrittenOverlay
<1>4. ASSUME NEW of \in Scopes
      PROVE  /\ f \in DOMAIN TunedNext(of) <=> f \in DOMAIN Tuned(of)
             /\ f \in DOMAIN Tuned(of) => TunedNext(of)[f] = Tuned(of)[f]
  <2>1. TunedNext(of) = Stepped(Tuned(of), BaseOf(of), Direction(of))
    BY NextStepped
  <2>2. f \notin Moved(Tuned(of), BaseOf(of), Direction(of))
    BY DEF Moved
  <2> QED BY <2>1, <2>2 DEF Stepped
<1>5. f \in DOMAIN policy.base /\ f \in DOMAIN new.base /\ new.base[f] = policy.base[f]
  BY <1>1, <1>2, <1>3, <1>4 DEF Merged
<1>6. /\ f \in DOMAIN new.types[t] <=> f \in DOMAIN policy.types[t]
      /\ f \in DOMAIN new.types[t] => new.types[t][f] = policy.types[t][f]
  BY <1>1, <1>2, <1>3, <1>4 DEF Merged
<1>7. ForAsset(policy, a)[f] = IF f \in DOMAIN own THEN own[f]
                               ELSE IF f \in DOMAIN policy.types[t] THEN policy.types[t][f] ELSE policy.base[f]
  BY <1>2, <1>5, AssetField
<1>8. ForAsset(new, a)[f] = IF f \in DOMAIN own THEN own[f]
                            ELSE IF f \in DOMAIN new.types[t] THEN new.types[t][f] ELSE new.base[f]
  BY <1>3, <1>5, AssetField
<1> QED BY <1>5, <1>6, <1>7, <1>8

\* A tuning makes the policy of an asset later or earlier, as it is told.
LEMMA PolicyLeans ==
    ASSUME TuneInv, ReviewedWithin, WriteOverlay, policy = Layered(overlay), NEW a \in Assets
    PROVE  LET ways == {Direction("all"), Direction(TypeOf[a])}
               old == ForAsset(policy, a)
               new == ForAsset(Layered(overlay'), a)
           IN  /\ new.mobile = old.mobile
               /\ 1 \notin ways => Later(old, new)
               /\ -1 \notin ways => Later(new, old)
<1> DEFINE ways == {Direction("all"), Direction(TypeOf[a])}
           old == ForAsset(policy, a)
           new == ForAsset(Layered(overlay'), a)
<1>1. Tunables = {"low", "horizon", "composite"}
  BY MonitoringAssumption DEF Tunables
<1>2. {"critical", "confidence", "mobile"} \subseteq DOMAIN Profile.base \ Tunables
  BY <1>1, MonitoringAssumption
<1>3. new.critical = old.critical /\ new.confidence = old.confidence /\ new.mobile = old.mobile
  BY <1>2, FieldKept
<1>4. ASSUME NEW f \in Tunables
      PROVE  /\ old[f] \in Nat /\ new[f] \in Nat
             /\ 1 \notin ways => new[f] <= old[f]
             /\ -1 \notin ways => old[f] <= new[f]
  <2>1. OneStep(f, ways, old[f], new[f])
    BY TuningIsBounded
  <2>2. Clamps[f][1] \in Nat /\ Clamps[f][2] \in Nat
    BY DEF ReviewedWithin
  <2> HIDE DEF ways, old, new
  <2>3. old[f] \in Nat /\ new[f] \in Nat
    BY <2>1, <2>2 DEF OneStep, Within
  <2> QED BY <2>1, <2>3 DEF OneStep
<1> HIDE DEF ways, old, new
<1>5. 1 \notin ways => Later(old, new)
  BY <1>1, <1>3, <1>4 DEF Later
<1>6. -1 \notin ways => Later(new, old)
  BY <1>1, <1>3, <1>4 DEF Later
<1> QED BY <1>3, <1>5, <1>6 DEF ways, old, new

\* A later policy derives no task that an earlier one does not.
LEMMA DerivedLeans ==
    ASSUME NEW T, Gauged(T), NEW a \in Assets, View(obs, a, effective).battery.readings \in Seq(T),
           due[a] \in Int, effective \in Int, NEW pol, NEW new, Later(ForAsset(pol, a), ForAsset(new, a)),
           Derived(obs, due, pol, effective)[a] = "none"
    PROVE  Derived(obs, due, new, effective)[a] = "none"
<1> DEFINE p == ForAsset(pol, a)
           q == ForAsset(new, a)
           R(r) == Reasons(View(obs, a, effective), due[a], r, effective)
           Quiet(r) == (a \in Mobile /\ ~r.mobile) \/ R(r) = {} \/ a \notin Anchored
<1>1. \A x : Derived(obs, due, x, effective)[a] = "none" <=> Quiet(ForAsset(x, a))
  BY DEF Derived, Urgency
<1>2. Quiet(p)
  BY <1>1
<1>3. R(p) = {} => R(q) = {}
  BY ReasonsLean
<1>4. q.mobile = p.mobile
  BY DEF Later
<1> HIDE DEF R, p, q
<1>5. Quiet(q)
  BY <1>2, <1>3, <1>4
<1> USE DEF p, q
<1> QED BY <1>1, <1>5

\* The readings of one metric.
Of(metric) == {r \in Readings : r.metric = metric}

LEMMA HistoryOf ==
    ASSUME NEW s \in Seq(Readings), NEW a, NEW metric
    PROVE  History(s, a, metric) \in Seq(Of(metric)) /\ Timed(History(s, a, metric)) /\ Instants(Of(metric))
<1> DEFINE S == Mine(s, a, metric)
           q == Ranking(Earlier(s, S), S)
           n == Cardinality(S)
           h == History(s, a, metric)
<1>1. Instants(Readings) /\ Instants(Of(metric))
  BY ReadingsInstants DEF Of, Instants
<1>2. h = [k \in 1 .. n |-> s[q[k]]] /\ q \in [1 .. n -> S] /\ n \in Nat
  BY <1>1, HistoryIs
<1>3. \A i \in S : s[i] \in Of(metric)
  BY DEF Mine, Of
<1>4. Timed(h)
  BY <1>1, HistoryTimed
<1> HIDE DEF S, q, n, h
<1>5. h \in Seq(Of(metric))
  <2>1. \A k \in 1 .. n : s[q[k]] \in Of(metric)
    BY <1>2, <1>3
  <2>2. h \in [1 .. n -> Of(metric)]
    BY <1>2, <2>1
  <2> QED BY <1>2, <2>2
<1> QED BY <1>1, <1>4, <1>5 DEF h

LEMMA DownsampledTyped ==
    ASSUME NEW T, Instants(T), NEW w \in Seq(T), Timed(w), Len(w) > MaxSeries
    PROVE  Downsampled(w) \in Seq(T)
<1> DEFINE n == Len(w)
           d == Downsampled(w)
<1>1. MaxSeries \in Nat \ {0} /\ AssessmentAssumption
  BY AssessmentAssumption
<1>2. n \in Nat /\ DOMAIN w = 1 .. n /\ w # <<>> /\ 1 \in DOMAIN w /\ n \in DOMAIN w /\ Last(w) = w[n]
  BY <1>1 DEF Last
<1>3. w[1] \in T /\ w[1].at \in Int /\ Last(w).at \in Int
  <2>1. w[1] \in T /\ w[n] \in T
    BY <1>2
  <2> QED BY <1>2, <2>1 DEF Instants
<1>4. CASE Last(w).at - w[1].at <= 0
  <2>1. d = SubSeq(w, n - MaxSeries + 1, n)
    BY <1>4, DownsampledIs
  <2>2. n - MaxSeries + 1 \in 1 .. n + 1
    BY <1>1, <1>2
  <2> HIDE DEF d, n
  <2>3. d \in Seq(T)
    BY <1>1, <1>2, <2>1, <2>2
  <2> QED BY <2>3 DEF d
<1>5. CASE ~(Last(w).at - w[1].at <= 0)
  <2> DEFINE K == KeptOf(w)
  <2>1. w[1].at < Last(w).at
    BY <1>3, <1>5
  <2>2. K \in Seq(T)
    BY <1>1, <1>2, <2>1, BucketsKept
  <2>3. d = IF K[1] = w[1] THEN K ELSE <<w[1]>> \o K
    BY <1>5, DownsampledIs
  <2> HIDE DEF K, d
  <2>4. <<w[1]>> \o K \in Seq(T)
    BY <1>3, <2>2
  <2>5. d \in Seq(T)
    BY <2>2, <2>3, <2>4
  <2> QED BY <2>5 DEF d
<1> QED BY <1>4, <1>5

LEMMA UsableTyped ==
    ASSUME NEW s \in Seq(Readings), NEW a, NEW metric, NEW asOf
    PROVE  Usable(s, a, metric, asOf) \in Seq(Of(metric))
<1> DEFINE T == Of(metric)
           h == History(s, a, metric)
           t == Trusted(h, asOf)
           w == InWindow(t, asOf)
           r == Retained(t, asOf)
           Early(x) == {k \in DOMAIN x : x[k].at <= asOf + Skew}
           Recent(x) == {k \in DOMAIN x : x[k].at >= asOf - Retention}
           Sure(x) == {k \in DOMAIN x : FlagFactor(x[k]) > 0}
<1>1. h \in Seq(T) /\ Timed(h) /\ Instants(T)
  BY HistoryOf
<1> HIDE DEF T, h
<1>2. t \in Seq(T) /\ Timed(t)
  <2>1. t = Those(h, Early(h)) /\ Early(h) \in SUBSET DOMAIN h
    BY DEF Trusted
  <2> HIDE DEF t, Early
  <2> QED BY <1>1, <2>1, ThoseIs, ThoseTimed
<1> HIDE DEF t
<1>3. w \in Seq(T) /\ Timed(w)
  <2>1. w = Those(t, Recent(t)) /\ Recent(t) \in SUBSET DOMAIN t
    BY DEF InWindow
  <2> HIDE DEF w, Recent
  <2> QED BY <1>1, <1>2, <2>1, ThoseIs, ThoseTimed
<1>4. r = IF Len(w) <= MaxSeries THEN w ELSE Downsampled(w)
  BY DEF Retained
<1> HIDE DEF w, r
<1>5. r \in Seq(T)
  <2>1. Len(w) \in Nat /\ MaxSeries \in Nat
    BY <1>3, AssessmentAssumption DEF AssessmentAssumption
  <2>2. CASE Len(w) <= MaxSeries
    BY <1>3, <1>4, <2>2
  <2>3. CASE Len(w) > MaxSeries
    BY <1>1, <1>3, <1>4, <2>1, <2>3, DownsampledTyped
  <2> QED BY <2>1, <2>2, <2>3
<1>6. Unflagged(r) \in Seq(T)
  <2>1. Unflagged(r) = Those(r, Sure(r)) /\ Sure(r) \in SUBSET DOMAIN r
    BY DEF Unflagged
  <2> HIDE DEF Sure
  <2> QED BY <1>5, <2>1, ThoseIs
<1> QED BY <1>6 DEF T, h, t, w, r, Usable

\* What a battery's readings tell after assessment can be measured.
LEMMA BatteryGauged ==
    ASSUME ReadingsInv, NEW a, NEW asOf
    PROVE  \E T : Gauged(T) /\ View(obs, a, asOf).battery.readings \in Seq(T)
<1> DEFINE B == Of("battery")
           series == Usable(obs, a, "battery", asOf)
           kept == WithoutOutliers(series)
           w == Weighed("battery", series, kept)
<1>1. \A r \in B : r.at \in Int /\ r.value \in Int
  BY MonitoringAssumption DEF Of, Readings
<1>2. kept \in Seq(B)
  <2>1. series \in Seq(B)
    BY UsableTyped DEF ReadingsInv
  <2>2. kept = Those(series, DOMAIN series \ Outliers(ValuesOf(series)))
    BY DEF WithoutOutliers, Without
  <2> HIDE DEF series, kept, B
  <2> QED BY <2>1, <2>2, ThoseIs
<1>3. View(obs, a, asOf).battery.readings = w.readings
  BY DEF View, Assessed, AssessedSeries
<1> HIDE DEF B, series, kept
<1>4. PICK f : w.readings = IF kept = <<>> THEN <<>>
                ELSE [k \in DOMAIN kept |-> [at |-> kept[k].at, value |-> kept[k].value, confidence |-> f[k]]]
  <2> DEFINE c == IF Faulty("battery", ValuesOf(kept)) THEN 0 ELSE (100 * Len(kept)) \div Len(series)
             g == [k \in DOMAIN kept |-> Min({c, FlagFactor(kept[k])})]
  <2>1. w.readings = IF kept = <<>> THEN <<>>
                ELSE [k \in DOMAIN kept |-> [at |-> kept[k].at, value |-> kept[k].value, confidence |-> Min({c, FlagFactor(kept[k])})]]
    BY DEF Weighed
  <2>2. \A k \in DOMAIN kept : g[k] = Min({c, FlagFactor(kept[k])})
    OBVIOUS
  <2> HIDE DEF c, g, w
  <2>3. [k \in DOMAIN kept |-> [at |-> kept[k].at, value |-> kept[k].value, confidence |-> Min({c, FlagFactor(kept[k])})]]
        = [k \in DOMAIN kept |-> [at |-> kept[k].at, value |-> kept[k].value, confidence |-> g[k]]]
    BY <2>2
  <2> QED BY <2>1, <2>3
<1> HIDE DEF w
<1> DEFINE T == {[at |-> kept[k].at, value |-> kept[k].value, confidence |-> f[k]] : k \in DOMAIN kept}
<1>5. w.readings \in Seq(T)
  <2>1. DOMAIN kept = 1 .. Len(kept) /\ Len(kept) \in Nat
    BY <1>2
  <2>2. CASE kept = <<>>
    <3>1. <<>> \in Seq(T)
      OBVIOUS
    <3> QED BY <1>4, <2>2, <3>1
  <2>3. CASE kept # <<>>
    <3>1. w.readings \in [1 .. Len(kept) -> T]
      BY <1>4, <2>1, <2>3
    <3> HIDE DEF T
    <3> QED BY <2>1, <3>1
  <2> QED BY <2>2, <2>3
<1>6. Gauged(T)
  <2>1. \A k \in DOMAIN kept : kept[k].at \in Int /\ kept[k].value \in Int
    BY <1>1, <1>2
  <2> QED BY <2>1 DEF Gauged
<1> QED BY <1>3, <1>5, <1>6

\* The dates of planned services and the time of the session are days.
DaysInv == due \in [Assets -> Int] /\ effective \in Int /\ now \in Int /\ menu \in Menus

LEMMA DaysStart == MonitoringInit => DaysInv
BY MonitoringAssumption DEF MonitoringInit, DaysInv

LEMMA DaysPreserved == DaysInv /\ [Next]_vars => DaysInv'
<1> SUFFICES ASSUME DaysInv, [Next]_vars PROVE DaysInv'
  OBVIOUS
<1> USE DEF DaysInv, world, session, files
<1>1. ASSUME UNCHANGED monitoringVars PROVE DaysInv'
  BY <1>1 DEF monitoringVars
<1>2. ASSUME MonitoringNext PROVE DaysInv'
  <2>1. ASSUME NEW r, NEW delay, Report(r, delay) \/ Land(r, delay) PROVE DaysInv'
    BY <2>1 DEF Report, Land, Revise
  <2>2. ASSUME NEW kind, NEW late, CompleteTask(kind, late) PROVE DaysInv'
    BY <2>2 DEF CompleteTask, Revise
  <2>3. ASSUME StartSession \/ Tick \/ AuditOnly \/ WriteOverlay \/ AppendAudit \/ DeleteOverlay PROVE DaysInv'
    BY <2>3 DEF StartSession, Baseline, Tick, AuditOnly, WriteOverlay, AppendAudit, DeleteOverlay
  <2>4. ASSUME NEW dies, PlanPeriodic(dies) PROVE DaysInv'
    BY <2>4 DEF PlanPeriodic
  <2>5. ASSUME DieTuning PROVE DaysInv'
    BY <2>5 DEF DieTuning, Baseline
  <2> QED BY <1>2, <2>1, <2>2, <2>3, <2>4, <2>5 DEF MonitoringNext
<1> QED BY <1>1, <1>2 DEF Next, vars

LEMMA TuningLeans ==
    ASSUME TuneInv, ReadingsInv, DaysInv, ReviewedWithin, WriteOverlay, policy = Layered(overlay)
    PROVE  TuningLeansOneWay
<1> SUFFICES ASSUME NEW a \in Assets
             PROVE  LET before == Derived(obs, due, policy, effective)[a]
                        after == Derived(obs, due, Layered(overlay'), effective)[a]
                        both == {Direction("all"), Direction(TypeOf[a])}
                    IN  /\ 1 \notin both /\ before = "none" => after = "none"
                        /\ -1 \notin both /\ before # "none" => after # "none"
  BY DEF TuningLeansOneWay
<1> DEFINE new == Layered(overlay')
           both == {Direction("all"), Direction(TypeOf[a])}
<1>1. PICK T : Gauged(T) /\ View(obs, a, effective).battery.readings \in Seq(T)
  BY BatteryGauged
<1>2. due[a] \in Int /\ effective \in Int
  BY DEF DaysInv
<1>3. 1 \notin both => Later(ForAsset(policy, a), ForAsset(new, a))
  BY PolicyLeans
<1>4. -1 \notin both => Later(ForAsset(new, a), ForAsset(policy, a))
  BY PolicyLeans
<1> HIDE DEF new, both
<1>5. 1 \notin both /\ Derived(obs, due, policy, effective)[a] = "none" => Derived(obs, due, new, effective)[a] = "none"
  BY <1>1, <1>2, <1>3, DerivedLeans
<1>6. -1 \notin both /\ Derived(obs, due, new, effective)[a] = "none" => Derived(obs, due, policy, effective)[a] = "none"
  BY <1>1, <1>2, <1>4, DerivedLeans
<1> QED BY <1>5, <1>6 DEF new, both

(* Provided the profile was reviewed inside the clamps, every tuning, also *)
(* one in a session that holds an older policy than the overlay's, writes  *)
(* values inside the clamps, each one bounded step at most from what the   *)
(* overlay said or, where it was silent, from what the session holds.  One *)
(* by a session that holds the policy in force moves the policy of an      *)
(* asset by one bounded step in every field, also when fleet and type are  *)
(* tuned at once, after any earlier tunings, torn overlays and reverts     *)
(* (_bounded_step, _apply_steps, apply_tuned_overrides); tightening never  *)
(* derives a service task and loosening never drops one, whatever readings *)
(* there are.  The audit trail explains every value in the overlay unless  *)
(* a process died between the overlay and its record.                      *)
THEOREM TuningIsAccountable ==
    ASSUME ReviewedWithin PROVE Spec => TuningAccountable
<1> DEFINE I == TuneInv /\ ReadingsInv /\ DaysInv /\ AuditInv
<1>1. Init => I
  BY TuneStart, ReadingsStart, DaysStart, AuditStart DEF Init
<1>2. I /\ [Next]_vars => I'
  BY TunePreserved, ReadingsPreserved, DaysPreserved, AuditPreserved
<1>3. I /\ [Next]_vars => [Tuning => WrittenInBounds /\ (policy = Layered(overlay) => OneBoundedStep /\ TuningLeansOneWay)]_monitoringVars
  <2> SUFFICES ASSUME I, [Next]_vars, Tuning
               PROVE  WrittenInBounds /\ (policy = Layered(overlay) => OneBoundedStep /\ TuningLeansOneWay)
    OBVIOUS
  <2>0. WriteOverlay
    BY TuningStep DEF Tuning
  <2>4. WrittenInBounds
    BY <2>0, WrittenIs
  <2> SUFFICES ASSUME policy = Layered(overlay) PROVE OneBoundedStep /\ TuningLeansOneWay
    BY <2>4
  <2>1. WriteOverlay /\ policy = Layered(overlay)
    BY <2>0
  <2>2. \A a \in Assets, f \in Tunables :
           OneStep(f, {Direction("all"), Direction(TypeOf[a])}, ForAsset(policy, a)[f], ForAsset(Layered(overlay'), a)[f])
    BY <2>1, TuningIsBounded
  <2>3. OneBoundedStep
    BY <2>2 DEF OneBoundedStep, OneStep, Within
  <2> QED BY <2>1, <2>3, TuningLeans
<1>4. I => AuditExplains
  BY TrailExplains
<1> QED BY <1>1, <1>2, <1>3, <1>4, PTL DEF Spec, TuningAccountable

-----------------------------------------------------------------------------
(* The trend file *)

LEMMA ThoseAll ==
    ASSUME NEW T, NEW s \in Seq(T) PROVE Those(s, DOMAIN s) = s
<1> DEFINE S == DOMAIN s
           p == [i \in 1 .. Len(s) |-> i]
           q == Sorted(S, <)
<1>1. S = 1 .. Len(s) /\ Len(s) \in Nat /\ S \in SUBSET Int
  OBVIOUS
<1>2. IsFiniteSet(S) /\ Cardinality(S) = Len(s)
  BY <1>1, FS_Interval
<1>3. Orders(Less(S), S) /\ q = Ranking(Less(S), S)
  <2> HIDE DEF S
  <2> QED BY <1>1, <1>2, SortedNumbers
<1>4. p \in [1 .. Cardinality(S) -> S]
  BY <1>1, <1>2
<1>5. \A i, j \in 1 .. Cardinality(S) : i < j => <<p[i], p[j]>> \in Less(S)
  BY <1>1, <1>2 DEF Less
<1>6. p = q
  <2> HIDE DEF p, q, S
  <2> QED BY <1>2, <1>3, <1>4, <1>5, RankingOnly
<1>7. Those(s, S) = [k \in DOMAIN q |-> s[q[k]]]
  BY DEF Those, At
<1>8. [k \in DOMAIN p |-> s[p[k]]] = s
  BY <1>1
<1> HIDE DEF p, q
<1> QED BY <1>6, <1>7, <1>8

LEMMA GreaterOf ==
    ASSUME NEW x \in Int, NEW y \in Int
    PROVE  Max({x, y}) = IF x <= y THEN y ELSE x
<1>1. \E v \in {x, y} : \A z \in {x, y} : v >= z
  OBVIOUS
<1>2. Max({x, y}) \in {x, y} /\ \A z \in {x, y} : Max({x, y}) >= z
  BY <1>1 DEF Max
<1> QED BY <1>2

LEMMA LastOfIs ==
    ASSUME NEW T, NEW s \in Seq(T), NEW n \in Nat
    PROVE  /\ LastOf(s, n) \in Seq(T)
           /\ Len(LastOf(s, n)) = IF n <= Len(s) THEN n ELSE Len(s)
           /\ \A i \in 1 .. Len(LastOf(s, n)) : LastOf(s, n)[i] = s[Len(s) - Len(LastOf(s, n)) + i]
<1> DEFINE l == Len(s)
           a == IF n <= l THEN l - n + 1 ELSE 1
           t == LastOf(s, n)
<1>1. l \in Nat /\ DOMAIN s = 1 .. l
  OBVIOUS
<1>2. t = SubSeq(s, a, l)
  <2>1. Max({1, l - n + 1}) = IF 1 <= l - n + 1 THEN l - n + 1 ELSE 1
    BY <1>1, GreaterOf
  <2>2. Max({1, l - n + 1}) = a
    BY <1>1, <2>1
  <2> HIDE DEF a
  <2> QED BY <2>2 DEF LastOf
<1>3. a \in 1 .. l + 1
  BY <1>1
<1>4. l - a + 1 = IF n <= l THEN n ELSE l
  BY <1>1
<1> HIDE DEF a, t
<1>5. t \in Seq(T) /\ Len(t) = l - a + 1 /\ \A i \in 1 .. l - a + 1 : t[i] = s[a + i - 1]
  <2> HIDE DEF l
  <2> QED BY <1>1, <1>2, <1>3
<1>6. \A i \in 1 .. Len(t) : a + i - 1 = l - Len(t) + i
  <2> HIDE DEF l
  <2> QED BY <1>1, <1>3, <1>5
<1> QED BY <1>4, <1>5, <1>6 DEF t

\* The newest of the newest are the newest.
LEMMA LastOfLast ==
    ASSUME NEW T, NEW s \in Seq(T), NEW m \in Nat, NEW n \in Nat, n <= m
    PROVE  LastOf(LastOf(s, m), n) = LastOf(s, n)
<1> DEFINE l == Len(s)
           u == LastOf(s, m)
           v == LastOf(u, n)
           w == LastOf(s, n)
<1>1. l \in Nat
  OBVIOUS
<1>2. u \in Seq(T) /\ Len(u) = (IF m <= l THEN m ELSE l) /\ \A i \in 1 .. Len(u) : u[i] = s[l - Len(u) + i]
  BY LastOfIs
<1>3. w \in Seq(T) /\ Len(w) = (IF n <= l THEN n ELSE l) /\ \A i \in 1 .. Len(w) : w[i] = s[l - Len(w) + i]
  BY LastOfIs
<1>4. v \in Seq(T) /\ Len(v) = (IF n <= Len(u) THEN n ELSE Len(u))
      /\ \A i \in 1 .. Len(v) : v[i] = u[Len(u) - Len(v) + i]
  <2> HIDE DEF u
  <2> QED BY <1>2, LastOfIs
<1> HIDE DEF l, u, v, w
<1>5. Len(v) = Len(w) /\ Len(v) <= Len(u) /\ Len(u) <= l /\ Len(v) \in Nat /\ Len(u) \in Nat
  BY <1>1, <1>2, <1>3, <1>4
<1>6. ASSUME NEW i \in 1 .. Len(v) PROVE v[i] = w[i]
  <2>1. Len(u) - Len(v) + i \in 1 .. Len(u) /\ l - Len(u) + (Len(u) - Len(v) + i) = l - Len(w) + i
    BY <1>1, <1>5
  <2> QED BY <1>2, <1>3, <1>4, <1>5, <2>1
<1>7. v = w
  BY <1>3, <1>4, <1>5, <1>6
<1> QED BY <1>7 DEF u, v, w

LEMMA RecordsAre ==
    ASSUME NEW T, NEW s \in Seq(T)
    PROVE  /\ Records(s) \in Seq(T)
           /\ \A i \in 1 .. Len(Records(s)) : Records(s)[i] # Malformed
<1> DEFINE S == {k \in DOMAIN s : s[k] # Malformed}
           r == Records(s)
<1>1. S \in SUBSET DOMAIN s /\ r = Those(s, S)
  BY DEF Records
<1> HIDE DEF r, S
<1>2. r \in Seq(T) /\ Len(r) = Cardinality(S)
  BY <1>1, ThoseIs
<1>3. PICK q : Lists(q, S) /\ \A k \in 1 .. Cardinality(S) : r[k] = s[q[k]]
  BY <1>1, ThoseIs
<1>4. \A k \in 1 .. Len(r) : r[k] # Malformed
  <2>1. \A k \in 1 .. Cardinality(S) : q[k] \in S
    BY <1>3 DEF Lists
  <2> QED BY <1>2, <1>3, <2>1 DEF S
<1> QED BY <1>2, <1>4 DEF r

\* No record is malformed, so reading them again changes nothing.
LEMMA CleanRecords ==
    ASSUME NEW T, NEW s \in Seq(T), \A i \in 1 .. Len(s) : s[i] # Malformed PROVE Records(s) = s
<1>1. {k \in DOMAIN s : s[k] # Malformed} = DOMAIN s
  <2>1. DOMAIN s = 1 .. Len(s)
    OBVIOUS
  <2> HIDE DEF Malformed
  <2> QED BY <2>1
<1> QED BY <1>1, ThoseAll DEF Records

LEMMA CompactedVerdict ==
    ASSUME TrendAssumption, TrendRuns <= TrendMax, NEW T, NEW s \in Seq(T)
    PROVE  Degrading(Compacted(Records(s))) = Degrading(s)
<1> DEFINE r == Records(s)
           c == Compacted(r)
<1>1. r \in Seq(T) /\ \A i \in 1 .. Len(r) : r[i] # Malformed
  BY RecordsAre
<1>2. TrendMax \in Nat /\ TrendRuns \in Nat
  BY DEF TrendAssumption
<1> HIDE DEF r
<1>3. c = LastOf(r, TrendMax)
  BY DEF Compacted
<1>4. c \in Seq(T) /\ Len(c) = (IF TrendMax <= Len(r) THEN TrendMax ELSE Len(r))
      /\ \A i \in 1 .. Len(c) : c[i] = r[Len(r) - Len(c) + i]
  BY <1>1, <1>2, <1>3, LastOfIs
<1>5. LastOf(c, TrendRuns) = LastOf(r, TrendRuns)
  BY <1>1, <1>2, <1>3, LastOfLast
<1> HIDE DEF c
<1>6. \A i \in 1 .. Len(c) : c[i] # Malformed
  <2>1. \A i \in 1 .. Len(c) : Len(r) - Len(c) + i \in 1 .. Len(r)
    BY <1>1, <1>2, <1>4
  <2> QED BY <1>1, <1>4, <2>1
<1>7. Records(c) = c
  BY <1>4, <1>6, CleanRecords
<1>8. LastOf(Records(c), TrendRuns) = LastOf(Records(s), TrendRuns)
  BY <1>5, <1>7 DEF r
<1>9. Degrading(c) = Degrading(s)
  BY <1>8 DEF Degrading
<1> QED BY <1>9 DEF c, r

TrendOf(T) == trend \in Seq(T) /\ \A b \in Builders : loaded[b] \in Seq(T)
TrendInv == loaded = [b \in Builders |-> loaded[b]] /\ \E T : TrendOf(T)

LEMMA TrendStart == RunsInit => TrendInv
<1> SUFFICES ASSUME RunsInit PROVE TrendOf({}) /\ loaded = [b \in Builders |-> loaded[b]]
  BY DEF TrendInv
<1> QED BY DEF RunsInit, TrendOf

LEMMA WiderSeq == ASSUME NEW S, NEW T, S \in SUBSET T, NEW s \in Seq(S) PROVE s \in Seq(T)
<1>1. s \in [1 .. Len(s) -> T] /\ Len(s) \in Nat
  OBVIOUS
<1> QED BY <1>1

LEMMA TrendPreserved == TrendInv /\ [Next]_vars => TrendInv'
<1> SUFFICES ASSUME TrendInv, [Next]_vars PROVE TrendInv'
  OBVIOUS
<1>1. PICK T : TrendOf(T)
  BY DEF TrendInv
<1> PICK rate : rate = ErrorRate
  OBVIOUS
<1> DEFINE U == T \cup {Malformed, rate}
<1>2. TrendOf(U) /\ Malformed \in U /\ rate \in U /\ loaded = [b \in Builders |-> loaded[b]]
  <2>1. T \in SUBSET U
    OBVIOUS
  <2> HIDE DEF U
  <2>2. TrendOf(U)
    BY <1>1, <2>1, WiderSeq DEF TrendOf
  <2> QED BY <2>2 DEF TrendInv, U
<1> HIDE DEF U
<1>3. SUFFICES TrendOf(U)' /\ loaded' = [b \in Builders |-> loaded'[b]]
  <2> DEFINE ok(V) == trend' \in Seq(V) /\ \A b \in Builders : loaded'[b] \in Seq(V)
  <2>1. TrendInv' <=> loaded' = [b \in Builders |-> loaded'[b]] /\ \E V : ok(V)
    BY DEF TrendInv, TrendOf
  <2>2. TrendOf(U)' => \E V : ok(V)
    BY DEF TrendOf
  <2> QED BY <2>1, <2>2
<1>4. CASE UNCHANGED <<trend, loaded>>
  BY <1>2, <1>4 DEF TrendOf
<1>5. ASSUME NEW b \in Builders, AppendRate(b) PROVE TrendOf(U)' /\ loaded' = [c \in Builders |-> loaded'[c]]
  <2>1. trend' = [trend EXCEPT ![Len(trend)] = Malformed] \/ trend' = Append(trend, ErrorRate)
    BY <1>5 DEF AppendRate
  <2>2. loaded' = loaded
    BY <1>5 DEF AppendRate
  <2>3. trend' \in Seq(U)
    <3>1. trend \in Seq(U) /\ Malformed \in U /\ rate \in U
      BY <1>2 DEF TrendOf
    <3>2. [trend EXCEPT ![Len(trend)] = Malformed] \in [1 .. Len(trend) -> U] /\ Len(trend) \in Nat
      <4>1. trend \in [1 .. Len(trend) -> U] /\ Len(trend) \in Nat
        BY <3>1
      <4> HIDE DEF Malformed
      <4> QED BY <3>1, <4>1
    <3>3. [trend EXCEPT ![Len(trend)] = Malformed] \in Seq(U) /\ Append(trend, ErrorRate) \in Seq(U)
      BY <3>1, <3>2
    <3> QED BY <2>1, <3>3
  <2> QED BY <1>2, <2>2, <2>3 DEF TrendOf
<1>6. ASSUME NEW b \in Builders, NEW r \in Seq(U), loaded' = [loaded EXCEPT ![b] = r], trend' \in Seq(U)
      PROVE  TrendOf(U)' /\ loaded' = [c \in Builders |-> loaded'[c]]
  BY <1>2, <1>6 DEF TrendOf
<1>7. ASSUME NEW b \in Builders, LoadTrend(b) PROVE TrendOf(U)' /\ loaded' = [c \in Builders |-> loaded'[c]]
  <2>1. Records(trend) \in Seq(U) /\ <<>> \in Seq(U) /\ trend \in Seq(U)
    BY <1>2, RecordsAre DEF TrendOf
  <2>2. PICK r \in Seq(U) : loaded' = [loaded EXCEPT ![b] = r]
    BY <1>7, <2>1 DEF LoadTrend
  <2>3. trend' = trend
    BY <1>7 DEF LoadTrend
  <2> QED BY <1>6, <2>1, <2>2, <2>3
<1>8. ASSUME NEW b \in Builders, ReplaceTrend(b) PROVE TrendOf(U)' /\ loaded' = [c \in Builders |-> loaded'[c]]
  <2>1. loaded[b] \in Seq(U) /\ TrendMax \in Nat
    BY <1>2, TrendAssumption DEF TrendOf, TrendAssumption
  <2>2. LastOf(loaded[b], TrendMax) \in Seq(U)
    BY <2>1, LastOfIs
  <2>3. trend' \in Seq(U) /\ loaded' = [loaded EXCEPT ![b] = <<>>]
    BY <1>8, <2>2 DEF ReplaceTrend, Compacted
  <2>4. <<>> \in Seq(U)
    OBVIOUS
  <2> QED BY <1>6, <2>3, <2>4
<1>9. ASSUME NEW b \in Builders, Die(b) PROVE TrendOf(U)' /\ loaded' = [c \in Builders |-> loaded'[c]]
  <2>1. trend' = trend \/ trend' = Append(trend, Malformed)
    BY <1>9 DEF Die
  <2>2. trend' \in Seq(U)
    <3>1. trend \in Seq(U) /\ Malformed \in U
      BY <1>2 DEF TrendOf
    <3>2. Append(trend, Malformed) \in Seq(U)
      BY <3>1
    <3> QED BY <2>1, <3>1, <3>2
  <2>3. loaded' = [loaded EXCEPT ![b] = <<>>]
    BY <1>9 DEF Die
  <2>4. <<>> \in Seq(U)
    OBVIOUS
  <2> QED BY <1>6, <2>2, <2>3, <2>4
<1>10. CASE \E b \in Builders : StartBuild(b) \/ Judge(b) \/ WriteSnapshot(b) \/ WriteManifest(b)
  BY <1>4, <1>10 DEF StartBuild, Judge, WriteSnapshot, WriteManifest, WriteFile
<1>11. CASE UNCHANGED runsVars
  BY <1>4, <1>11 DEF runsVars
<1>12. CASE RunsNext
  BY <1>5, <1>7, <1>8, <1>9, <1>10, <1>12 DEF RunsNext
<1> QED BY <1>11, <1>12 DEF Next, vars

LEMMA VerdictKept ==
    ASSUME TrendRuns <= TrendMax, TrendInv, [Next]_vars
    PROVE  \A b \in Builders :
              pc[b] = "replace" /\ pc'[b] = "judge" /\ loaded[b] = Records(trend)
              => Degrading(trend') = Degrading(trend)
<1> SUFFICES ASSUME NEW b \in Builders, pc[b] = "replace", pc'[b] = "judge", loaded[b] = Records(trend)
             PROVE  Degrading(trend') = Degrading(trend)
  OBVIOUS
<1>1. CASE trend' = trend
  BY <1>1
<1>2. ASSUME ReplaceTrend(b) PROVE Degrading(trend') = Degrading(trend)
  <2>1. PICK T : trend \in Seq(T)
    BY DEF TrendInv, TrendOf
  <2>2. trend' = Compacted(Records(trend))
    BY <1>2 DEF ReplaceTrend
  <2>3. Degrading(Compacted(Records(trend))) = Degrading(trend)
    BY <2>1, TrendAssumption, CompactedVerdict
  <2> QED BY <2>2, <2>3
<1>3. CASE pc' = pc
  BY <1>3
<1>4. ASSUME NEW c \in Builders,
             \/ StartBuild(c) \/ AppendRate(c) \/ LoadTrend(c) \/ ReplaceTrend(c) \/ Judge(c)
             \/ WriteSnapshot(c) \/ WriteManifest(c) \/ Die(c)
      PROVE  c = b
  <2>1. \E step : pc' = [pc EXCEPT ![c] = step]
    BY <1>4 DEF StartBuild, AppendRate, LoadTrend, ReplaceTrend, Judge, WriteSnapshot, WriteManifest, WriteFile, Die, Goto
  <2> QED BY <2>1
<1>5. ~StartBuild(b) /\ ~AppendRate(b) /\ ~LoadTrend(b) /\ ~Judge(b) /\ ~WriteSnapshot(b) /\ ~WriteManifest(b)
  BY DEF StartBuild, AppendRate, LoadTrend, Judge, WriteSnapshot, WriteManifest, WriteFile
<1>6. ~Die(b)
  <2> SUFFICES ASSUME Die(b) PROVE FALSE
    OBVIOUS
  <2>1. pc' = [pc EXCEPT ![b] = "idle"]
    BY DEF Die, Goto
  <2>2. pc'[b] = pc[b] \/ pc'[b] = "idle"
    BY <2>1
  <2> QED BY <2>2
<1>7. CASE RunsNext
  BY <1>2, <1>4, <1>5, <1>6, <1>7 DEF RunsNext
<1>8. CASE UNCHANGED runsVars
  BY <1>3, <1>8 DEF runsVars
<1> QED BY <1>7, <1>8 DEF Next, vars

\* When the limit of the file is no less than the runs a verdict looks at (they are 500
\* and 3 as shipped): whatever lines it has, torn ones included, and whoever else builds,
\* compacting a file that nobody wrote since it was read (_compact) leaves what
\* degrading_sources says of it.
THEOREM CompactionIsSafe ==
    ASSUME TrendRuns <= TrendMax PROVE Spec => CompactionKeepsVerdict
<1>1. Init => TrendInv
  BY TrendStart DEF Init
<1>2. TrendInv /\ [Next]_vars
      => \A b \in Builders :
            pc[b] = "replace" /\ pc'[b] = "judge" /\ loaded[b] = Records(trend)
            => Degrading(trend') = Degrading(trend)
  BY VerdictKept
<1> QED BY <1>1, <1>2, TrendPreserved, PTL DEF Spec, CompactionKeepsVerdict

=============================================================================
