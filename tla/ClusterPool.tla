----------------------------- MODULE ClusterPool -----------------------------
(***************************************************************************)
(* The parallel solve of fl-op: backup operators are claimed for the       *)
(* clusters (solver/enforcement.py, apply_operator_qualification), the     *)
(* clusters that contend for an operator are grouped, and pool_solve       *)
(* (solver/cluster_pool.py) solves first the independent clusters and then *)
(* the groups in worker processes, collecting results as they complete     *)
(* under one overall timeout.  Workers may die at any moment and the timer *)
(* may expire at any moment.                                               *)
(*                                                                         *)
(* A job is what one future solves: one independent cluster, or a group    *)
(* whose clusters are solved one after the other.  Time is a set of slots; *)
(* what a cluster commits is, per operation, the slots in which it         *)
(* occupies its backup operator.  concurrent.futures is modelled from how  *)
(* the pool uses it.                                                       *)
(***************************************************************************)
EXTENDS Integers, FiniteSets

CONSTANTS
    Clusters,
    Operations,
    Operators,     \* operators that lead no cluster
    Certified,     \* per operation the operators certified for it
    NoOperator,    \* no backup claimed
    Slots,
    Demands,       \* demand patterns considered: [Needs -> SUBSET Slots]
    Sharing,       \* OPERATOR_SHARING_SEQUENTIAL
    Workers,       \* n_workers of a pool
    MaxDeaths      \* bound: worker processes that die

\* The tasks of a cluster that need a backup for one operation.
Needs == Clusters \X Operations

ASSUME PoolAssumption ==
    /\ IsFiniteSet(Clusters)
    /\ NoOperator \notin Operators
    /\ Certified \in [Operations -> SUBSET Operators]
    /\ Demands \subseteq [Needs -> SUBSET Slots]
    /\ Sharing \in BOOLEAN
    /\ Workers \in Nat \ {0}
    /\ MaxDeaths \in Nat

VARIABLES
    demand,     \* per need: slots of _operator_demand_window ({}: no backup needed)
    unclaimed,  \* needs the qualification pass has not come to
    owner,      \* per need its backup operator
    overlap,    \* operator_overlap: operators shared over overlapping windows
    groups,     \* operator-sharing groups of clusters
    stage,      \* "claim", "independent", "groups" or "done"
    phase,      \* where the collecting process is in the stage
    fut,        \* per job the state of its future
    solved,     \* clusters some worker has solved
    use,        \* per need: slots its solved cluster commits its operator to
    batch,      \* done futures taken by as_completed, not yet collected
    yielded,    \* futures collected
    toSweep,    \* futures the timeout handler has still to look at
    expired,    \* stages whose overall timeout has passed
    broken,     \* stages whose pool lost a worker
    deaths,     \* workers that died (bounded)
    nrec,       \* per cluster: telemetry records returned
    status      \* per cluster: status of its last record

claims == <<demand, unclaimed, owner, overlap, groups>>
workers == <<fut, solved, use, broken, deaths>>
collect == <<batch, yielded, toSweep>>
report == <<nrec, status>>
poolVars == <<claims, stage, phase, workers, collect, expired, report>>

-----------------------------------------------------------------------------
(* Backup operators *)

\* Slots operator o is committed to (backup_busy).
Busy(o) == UNION {demand[n] : n \in {m \in Needs : owner[m] = o}}

Free(n) == {o \in Certified[n[2]] : Busy(o) \cap demand[n] = {}}

\* Operators to choose from: a certified one that is free over the demand
\* window; failing that, with sharing, any certified one.
Candidates(n) == IF Free(n) # {} \/ ~Sharing THEN Free(n) ELSE Certified[n[2]]

Chosen(n) ==
    IF Candidates(n) = {} THEN {owner} ELSE {[owner EXCEPT ![n] = o] : o \in Candidates(n)}

\* _claim_backup_operator for one operation of one cluster.  An operator
\* taken although it is not free is remembered as shared over overlapping
\* windows.  Without any candidate the tasks are infeasible.
Claim(n) ==
    /\ stage = "claim"
    /\ n \in unclaimed
    /\ unclaimed' = unclaimed \ {n}
    /\ owner' \in Chosen(n)
    /\ overlap' = IF Free(n) = {} THEN overlap \cup ({owner'[n]} \ {NoOperator}) ELSE overlap
    /\ UNCHANGED <<demand, groups, stage, phase, workers, collect, expired, report>>

\* Clusters stamped with the same operator (shared_backup_operators).
SharedOperators(c) == {owner[<<c, k>>] : k \in Operations} \cap overlap

Linked(c, d) == SharedOperators(c) \cap SharedOperators(d) # {}

\* _operator_sharing_groups: the connected component of c.
GroupOf(c) ==
    {d \in Clusters :
        \A S \in SUBSET Clusters :
            (c \in S /\ \A x \in S, y \in Clusters : Linked(x, y) => y \in S) => d \in S}

Groups == {g \in {GroupOf(c) : c \in Clusters} : Cardinality(g) >= 2}

\* pool_solve begins: the groups are formed.
EndClaims ==
    /\ stage = "claim"
    /\ unclaimed = {}
    /\ groups' = Groups
    /\ stage' = "independent"
    /\ UNCHANGED <<demand, unclaimed, owner, overlap, phase, workers, collect, expired, report>>

-----------------------------------------------------------------------------
(* The executor and its workers *)

\* The futures of a stage.
Jobs ==
    CASE stage = "independent" -> {{c} : c \in Clusters \ UNION groups}
      [] stage = "groups" -> groups
      [] OTHER -> {}

Done(j) == fut[j] \in {"finished", "error", "cancelled"}

\* Futures the executor has handed to its workers: one more than there are
\* workers is taken from the queue, and these can no longer be cancelled.
Taken == {j \in Jobs : fut[j] = "running"}

Pickup(j) ==
    /\ j \in Jobs
    /\ fut[j] = "pending"
    /\ Cardinality(Taken) <= Workers
    /\ fut' = [fut EXCEPT ![j] = "running"]
    /\ UNCHANGED <<claims, stage, phase, solved, use, broken, deaths, collect, expired, report>>

\* Mutant of Held: each cluster starts from the run's held windows.
HeldNothing(j, o) == {}

\* Slots of shared operator o that earlier clusters of the job committed
\* (operator_held of _solve_group).
Held(j, o) ==
    UNION {use[n] : n \in {m \in Needs : m[1] \in j \cap solved /\ owner[m] = o /\ o \in overlap}}

\* What the routing model admits for cluster c of job j: work inside the
\* demand window, clear of held slots, and one task at a time per operator.
Routable(j, c, u) ==
    /\ \A k \in Operations :
        LET n == <<c, k>> IN
        /\ u[k] \subseteq demand[n]
        /\ owner[n] = NoOperator => u[k] = {}
        /\ u[k] \cap Held(j, owner[n]) = {}
    /\ \A k, l \in Operations :
        (k # l /\ owner[<<c, k>>] = owner[<<c, l>>]) => u[k] \cap u[l] = {}

\* A worker solves the next cluster of its job (solve_cluster_instrumented).
Solve(j, c, u) ==
    /\ j \in Jobs
    /\ fut[j] = "running"
    /\ c \in j \ solved
    /\ Routable(j, c, u)
    /\ solved' = solved \cup {c}
    /\ use' = [n \in Needs |-> IF n[1] = c THEN u[n[2]] ELSE use[n]]
    /\ UNCHANGED <<claims, stage, phase, fut, broken, deaths, collect, expired, report>>

Finish(j) ==
    /\ phase # "inline"
    /\ j \in Jobs
    /\ fut[j] = "running"
    /\ j \subseteq solved
    /\ fut' = [fut EXCEPT ![j] = "finished"]
    /\ UNCHANGED <<claims, stage, phase, solved, use, broken, deaths, collect, expired, report>>

\* A worker process dies: the pool is broken and every future that is not
\* done gets the exception.
WorkerDies ==
    /\ phase \notin {"idle", "inline"}
    /\ Taken # {}
    /\ deaths < MaxDeaths
    /\ deaths' = deaths + 1
    /\ broken' = broken \cup {stage}
    /\ fut' = [j \in SUBSET Clusters |-> IF j \in Jobs /\ ~Done(j) THEN "error" ELSE fut[j]]
    /\ UNCHANGED <<claims, stage, phase, solved, use, collect, expired, report>>

\* The overall timeout passes.
Expire ==
    /\ phase \in {"first", "top", "wait", "consume"}
    /\ stage \notin expired
    /\ expired' = expired \cup {stage}
    /\ UNCHANGED <<claims, stage, phase, workers, collect, report>>

-----------------------------------------------------------------------------
(* The collecting process *)

NextStage == stage' = IF stage = "independent" THEN "groups" ELSE "done"

\* Records of every cluster of job j, with status s.
RecordedAs(j, s) ==
    /\ nrec' = [c \in Clusters |-> IF c \in j THEN nrec[c] + 1 ELSE nrec[c]]
    /\ status' = [c \in Clusters |-> IF c \in j THEN s ELSE status[c]]

\* A cluster that stalls is a timeout, a group that stalls a worker error.
StalledStatus == IF stage = "independent" THEN "timeout" ELSE "error"

\* An empty batch.
SkipStage ==
    /\ stage \in {"independent", "groups"}
    /\ phase = "idle"
    /\ Jobs = {}
    /\ NextStage
    /\ UNCHANGED <<claims, phase, workers, collect, expired, report>>

\* Several groups go to a pool, a lone one is solved in this process.
Pooled == stage = "independent" \/ Cardinality(groups) > 1

Submit ==
    /\ stage \in {"independent", "groups"}
    /\ phase = "idle"
    /\ Jobs # {} /\ Pooled
    /\ fut' = [j \in SUBSET Clusters |-> IF j \in Jobs THEN "pending" ELSE fut[j]]
    /\ phase' = "first"
    /\ UNCHANGED <<claims, stage, solved, use, broken, deaths, collect, expired, report>>

StartInline ==
    /\ stage = "groups"
    /\ phase = "idle"
    /\ Jobs # {} /\ ~Pooled
    /\ fut' = [j \in SUBSET Clusters |-> IF j \in Jobs THEN "running" ELSE fut[j]]
    /\ phase' = "inline"
    /\ UNCHANGED <<claims, stage, solved, use, broken, deaths, collect, expired, report>>

EndInline ==
    /\ phase = "inline"
    /\ UNION Jobs \subseteq solved
    /\ fut' = [j \in SUBSET Clusters |-> IF j \in Jobs THEN "finished" ELSE fut[j]]
    /\ RecordedAs(UNION Jobs, "solved")
    /\ NextStage
    /\ phase' = "idle"
    /\ UNCHANGED <<claims, solved, use, broken, deaths, collect, expired>>

\* as_completed first yields what is done when it is called.
First ==
    /\ phase = "first"
    /\ batch' = {j \in Jobs : Done(j)}
    /\ phase' = "consume"
    /\ UNCHANGED <<claims, stage, workers, yielded, toSweep, expired, report>>

\* The head of its loop: everything collected, timed out, or wait.
Top ==
    /\ phase = "top"
    /\ \/ Jobs \subseteq yielded /\ phase' = "exit" /\ UNCHANGED toSweep
       \/ /\ ~(Jobs \subseteq yielded) /\ stage \in expired
          /\ phase' = "sweep" /\ toSweep' = Jobs
       \/ /\ ~(Jobs \subseteq yielded) /\ stage \notin expired
          /\ phase' = "wait" /\ UNCHANGED toSweep
    /\ UNCHANGED <<claims, stage, workers, batch, yielded, expired, report>>

\* Mutant of Wait: only results wake it up.
WaitFinished ==
    /\ phase = "wait"
    /\ \E j \in Jobs \ yielded : fut[j] = "finished"
    /\ batch' = {j \in Jobs \ yielded : Done(j)}
    /\ phase' = "consume"
    /\ UNCHANGED <<claims, stage, workers, yielded, toSweep, expired, report>>

\* It wakes up when a future is done or the time is over.
Wait ==
    /\ phase = "wait"
    /\ stage \in expired \/ \E j \in Jobs \ yielded : Done(j)
    /\ batch' = {j \in Jobs \ yielded : Done(j)}
    /\ phase' = "consume"
    /\ UNCHANGED <<claims, stage, workers, yielded, toSweep, expired, report>>

\* Mutant of Collect: a crashed worker leaves no record.
CollectSolved(j) ==
    /\ phase = "consume"
    /\ j \in batch
    /\ batch' = batch \ {j}
    /\ yielded' = yielded \cup {j}
    /\ IF fut[j] = "finished" THEN RecordedAs(j, "solved") ELSE UNCHANGED report
    /\ UNCHANGED <<claims, stage, phase, workers, toSweep, expired>>

\* future.result(): the worker's records, or those of a crashed worker.
Collect(j) ==
    /\ phase = "consume"
    /\ j \in batch
    /\ batch' = batch \ {j}
    /\ yielded' = yielded \cup {j}
    /\ RecordedAs(j, IF fut[j] = "finished" THEN "solved" ELSE "error")
    /\ UNCHANGED <<claims, stage, phase, workers, toSweep, expired>>

EndConsume ==
    /\ phase = "consume"
    /\ batch = {}
    /\ phase' = "top"
    /\ UNCHANGED <<claims, stage, workers, collect, expired, report>>

\* Mutant of Sweep: every future is taken for stalled.
SweepAll(j) ==
    /\ phase = "sweep"
    /\ j \in toSweep
    /\ toSweep' = toSweep \ {j}
    /\ RecordedAs(j, StalledStatus)
    /\ fut' = [fut EXCEPT ![j] = IF @ = "pending" THEN "cancelled" ELSE @]
    /\ UNCHANGED <<claims, stage, phase, solved, use, broken, deaths, batch, yielded, expired>>

\* Mutant of Sweep: only futures no worker has taken are recorded.
SweepPending(j) ==
    /\ phase = "sweep"
    /\ j \in toSweep
    /\ toSweep' = toSweep \ {j}
    /\ IF fut[j] = "pending"
         THEN RecordedAs(j, StalledStatus) /\ fut' = [fut EXCEPT ![j] = "cancelled"]
         ELSE UNCHANGED <<fut, report>>
    /\ UNCHANGED <<claims, stage, phase, solved, use, broken, deaths, batch, yielded, expired>>

\* The TimeoutError handler, future by future: one that is not done is
\* recorded as stalled and cancelled, which a taken one does not heed.
Sweep(j) ==
    /\ phase = "sweep"
    /\ j \in toSweep
    /\ toSweep' = toSweep \ {j}
    /\ IF Done(j)
         THEN UNCHANGED <<fut, report>>
         ELSE /\ RecordedAs(j, StalledStatus)
              /\ fut' = [fut EXCEPT ![j] = IF @ = "pending" THEN "cancelled" ELSE @]
    /\ UNCHANGED <<claims, stage, phase, solved, use, broken, deaths, batch, yielded, expired>>

EndSweep ==
    /\ phase = "sweep"
    /\ toSweep = {}
    /\ phase' = "exit"
    /\ UNCHANGED <<claims, stage, workers, collect, expired, report>>

\* Mutant of Exit: the pool is left without waiting for cancelled work.
ExitEarly ==
    /\ phase = "exit"
    /\ stage' = "done"
    /\ phase' = "idle"
    /\ UNCHANGED <<claims, workers, collect, expired, report>>

\* Leaving the with block waits for every worker.
Exit ==
    /\ phase = "exit"
    /\ \A j \in Jobs : Done(j)
    /\ NextStage
    /\ phase' = "idle"
    /\ UNCHANGED <<claims, workers, collect, expired, report>>

-----------------------------------------------------------------------------
(* Specification *)

PoolInit ==
    /\ demand \in Demands
    /\ unclaimed = {n \in Needs : demand[n] # {}}
    /\ owner = [n \in Needs |-> NoOperator]
    /\ overlap = {} /\ groups = {}
    /\ stage = "claim" /\ phase = "idle"
    /\ fut = [j \in SUBSET Clusters |-> "none"]
    /\ solved = {} /\ use = [n \in Needs |-> {}]
    /\ batch = {} /\ yielded = {} /\ toSweep = {}
    /\ expired = {} /\ broken = {} /\ deaths = 0
    /\ nrec = [c \in Clusters |-> 0]
    /\ status = [c \in Clusters |-> "none"]

\* Steps of this process and of living workers.
Step ==
    \/ \E n \in unclaimed : Claim(n)
    \/ EndClaims \/ SkipStage \/ Submit \/ StartInline \/ EndInline
    \/ \E j \in Jobs : Pickup(j) \/ Finish(j)
    \/ \E j \in Jobs : \E c \in j, u \in [Operations -> SUBSET Slots] : Solve(j, c, u)
    \/ First \/ Top \/ Wait \/ EndConsume \/ EndSweep \/ Exit
    \/ \E j \in batch : Collect(j)
    \/ \E j \in toSweep : Sweep(j)

PoolNext == Step \/ WorkerDies \/ Expire

PoolSpec == PoolInit /\ [][PoolNext]_poolVars

\* This process goes on, and a worker ends its search by its time limit.
FairSpec == PoolSpec /\ WF_poolVars(Step)

-----------------------------------------------------------------------------
(* Properties *)

Stages == {"claim", "independent", "groups", "done"}
Phases == {"idle", "inline", "first", "top", "wait", "consume", "sweep", "exit"}
FutStates == {"none", "pending", "running", "finished", "error", "cancelled"}
Statuses == {"none", "solved", "error", "timeout"}

\* The type of the state.
TypeOK ==
    /\ demand \in [Needs -> SUBSET Slots]
    /\ unclaimed \subseteq Needs
    /\ owner \in [Needs -> Operators \cup {NoOperator}]
    /\ overlap \subseteq Operators /\ groups \subseteq SUBSET Clusters
    /\ stage \in Stages /\ phase \in Phases
    /\ fut \in [SUBSET Clusters -> FutStates]
    /\ solved \subseteq Clusters
    /\ use \in [Needs -> SUBSET Slots]
    /\ batch \subseteq SUBSET Clusters
    /\ yielded \subseteq SUBSET Clusters
    /\ toSweep \subseteq SUBSET Clusters
    /\ expired \subseteq Stages /\ broken \subseteq Stages
    /\ deaths \in Nat
    /\ nrec \in [Clusters -> Nat]
    /\ status \in [Clusters -> Statuses]

\* A backup operator is never at two places at once: not in two operations
\* of one cluster, nor in two clusters, whether they claimed it over disjoint
\* windows or share it and are solved one after the other.
OperatorSingleTasking ==
    \A n, m \in Needs :
        (n # m /\ owner[n] = owner[m] /\ {n[1], m[1]} \subseteq solved)
            => use[n] \cap use[m] = {}

\* No cluster is returned twice: what was collected is not recorded again as
\* timed out, and no cluster is both in a group and independent.
AtMostOneRecord == \A c \in Clusters : nrec[c] <= 1

\* Without a timeout every cluster is returned exactly once, also when
\* workers die.
AllReportedInTime ==
    (stage = "done" /\ expired = {}) => \A c \in Clusters : nrec[c] = 1

\* When a stage ends, a cluster without a record has a future that is done:
\* a timeout can lose a result that is there, never work that is outstanding.
OnlyDoneLost ==
    phase = "exit" =>
        \A j \in Jobs : (\E c \in j : nrec[c] = 0) => Done(j) /\ j \notin yielded

\* pool_solve returns only when no worker is left running.
NoWorkLeftBehind ==
    stage = "done" => \A j \in SUBSET Clusters : fut[j] \notin {"pending", "running"}

\* What pool_solve answers: every cluster once, all of them without a timeout,
\* with a timeout all but those whose result was already there, and nothing is
\* left running behind the answer.
PoolAnswers == AtMostOneRecord /\ AllReportedInTime /\ OnlyDoneLost /\ NoWorkLeftBehind

\* pool_solve returns, whatever workers die and whether or not the timeout
\* expires.
PoolReturns == <>(stage = "done")

=============================================================================
