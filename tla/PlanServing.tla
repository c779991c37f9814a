---------------------------- MODULE PlanServing ----------------------------
(***************************************************************************)
(* The serving API over published runs: serving/api.py, artifacts.py,      *)
(* objectstore.py, the gateway of serving/security/ and the feasibility    *)
(* evaluation of solver/query_pipeline.py with its digest memo and its     *)
(* response cache.  Writers publish runs from other processes while the    *)
(* service answers, so every call of the store is a step of its own; the   *)
(* handlers hold no await, so one service answers one request at a time.   *)
(*                                                                         *)
(* A key is a path, a sequence such as <<"solve", 1, "schedule">>; run ids *)
(* are naturals in the order their names sort.  An object's content is the *)
(* attempt that wrote it and whether the write has ended; it also stands   *)
(* for its digest and for the (mtime, size) pair of a stat.                *)
(***************************************************************************)
EXTENDS Integers, Sequences, SequencesExt, FiniteSetsExt, TLC

CONSTANTS
    Setups,       \* instances: backend, the writers' jobs, callers, calls, bounds of
                  \* requests and time, SERVE_RATE_LIMIT_REQUESTS (0: off)
    None,
    Marker,       \* OBJECT_STORE_COMMIT_MARKER
    Missing,      \* _MISSING_DIGEST
    MaxRetries,   \* bound: crashes of each writer
    MaxRestarts,  \* bound: restarts of the service
    Window,       \* SERVE_RATE_LIMIT_WINDOW_S
    MemoMax,      \* FEASIBILITY_DIGEST_MEMO_MAX_ENTRIES
    CacheMax      \* FEASIBILITY_CACHE_MAX_ENTRIES

\* Runs are published under a mode's directory, revisions under their rolling
\* run's; each run is published by one writer, once, with the document its
\* readers ask for.  The revisions of a rolling run come from the process that
\* plans it, one after the other (run_plan_rolling).
Required(dir) == IF dir = <<"plan-periodic">> \/ Len(dir) = 3 THEN {"plan"}
                 ELSE IF dir = <<"plan-rolling">> THEN {"summary"} ELSE {}
JobShape(job) ==
    /\ \/ job.dir = <<job.dir[1]>>
       \/ job.dir = <<"plan-rolling", job.dir[2], "revisions">> /\ job.dir[2] \in Nat
    /\ job.run \in Nat
    /\ job.files \in Seq(Range(job.files)) /\ IsInjective(job.files)
    /\ Marker \notin Range(job.files) /\ Required(job.dir) \in SUBSET Range(job.files)
ASSUME JobsAssumption ==
    \A s \in Setups :
        /\ \A w \in DOMAIN s.jobs : /\ Len(s.jobs[w]) \in Nat /\ DOMAIN s.jobs[w] = 1 .. Len(s.jobs[w])
                                    /\ \A j \in DOMAIN s.jobs[w] : JobShape(s.jobs[w][j])
        /\ \A v, w \in DOMAIN s.jobs : \A i \in DOMAIN s.jobs[v], j \in DOMAIN s.jobs[w] :
                s.jobs[v][i].dir = s.jobs[w][j].dir /\ s.jobs[v][i].run = s.jobs[w][j].run => v = w /\ i = j
        /\ \A v, w \in DOMAIN s.jobs : \A i \in DOMAIN s.jobs[v], j \in DOMAIN s.jobs[w] :
                s.jobs[v][i].dir = s.jobs[w][j].dir /\ Len(s.jobs[v][i].dir) = 3
                => v = w /\ (i < j => s.jobs[v][i].run < s.jobs[w][j].run)
ASSUME CallsAssumption ==
    \A s \in Setups : \A call \in s.calls :
        /\ call.number \in Int
        /\ call.route \in {"summary", "revision"} => call.mode = "plan-rolling"
ASSUME MissingAssumption == Missing \notin [attempt : Nat, whole : BOOLEAN]
ASSUME BoundsAssumption == MemoMax \in Nat /\ CacheMax \in Nat
ASSUME LimiterAssumption == Window \in Int /\ \A s \in Setups : s.maxRequests \in Int

Latest == 0
Invalid == -1    \* an id with separators, '.' or '..'

VARIABLES
    setup,     \* the instance, chosen once
    store,     \* the object store, or the tree of the filesystem backend
    writer,    \* each writer's job, next file, attempt and open write
    local,     \* the directory runs are materialized into
    memo,      \* _DIGEST_MEMO, oldest insertion first
    cache,     \* the feasibility cache, oldest entry first
    windows,   \* the rate limiter's (window_start, count) per key
    now, restarts,
    req,       \* the request being handled, or Idle
    audit,     \* the audit trail: one decision per record
    replies    \* what was answered, in order

vars == <<setup, store, writer, local, memo, cache, windows, now, restarts, req, audit, replies>>
service == <<memo, cache, windows, restarts, req, audit, replies>>

Empty == [k \in {} |-> None]
Idle == [pc |-> "none"]
Put(f, key, value) == [k \in DOMAIN f \cup {key} |-> IF k = key THEN value ELSE f[k]]
KeepLast(s, n) == SubSeq(s, Max({1, Len(s) - n + 1}), Len(s))
ObjectStore == setup.backend = "object-store"
Job(w) == setup.jobs[w][writer[w].job]
Busy(w) == writer[w].job <= Len(setup.jobs[w])
Key(dir, run, file) == dir \o <<run, file>>
FileKey(w) == Key(Job(w).dir, Job(w).run, Job(w).files[writer[w].file])
NextJob(w) == [job |-> writer[w].job + 1, file |-> 1, attempt |-> 1, open |-> FALSE,
               crashes |-> writer[w].crashes]

------------------------------------------------------------------------
(* Writers: publish_run, or a planner writing its run directory.          *)

(* put_bytes or write_json opens the file, which empties it ...           *)
OpenFile(w) ==
    /\ Busy(w) /\ writer[w].file <= Len(Job(w).files) /\ ~writer[w].open
    /\ store' = Put(store, FileKey(w), [attempt |-> writer[w].attempt, whole |-> FALSE])
    /\ writer' = [writer EXCEPT ![w].open = TRUE]
    /\ UNCHANGED <<setup, local, now, service>>

(* ... and then fills it.                                                 *)
FillFile(w) ==
    /\ Busy(w) /\ writer[w].open
    /\ store' = [store EXCEPT ![FileKey(w)].whole = TRUE]
    /\ writer' = [writer EXCEPT ![w].open = FALSE, ![w].file = @ + 1]
    /\ UNCHANGED <<setup, local, now, service>>

(* The marker is the last object of a run; a run directory has none.      *)
PublishedAnytime(w) == ~writer[w].open
Published(w) == writer[w].file > Len(Job(w).files)
Publish(w) ==
    /\ Busy(w) /\ Published(w)
    /\ store' = IF ObjectStore
                THEN Put(store, Key(Job(w).dir, Job(w).run, Marker), [attempt |-> writer[w].attempt, whole |-> TRUE])
                ELSE store
    /\ writer' = [writer EXCEPT ![w] = NextJob(w)]
    /\ UNCHANGED <<setup, local, now, service>>

(* A writer dies in the middle of a run.  A publication is repeated under *)
(* its run id, from the first file; a planner starts a new run directory. *)
Crash(w) ==
    /\ Busy(w) /\ writer[w].crashes < MaxRetries
    /\ writer[w].file > 1 \/ writer[w].open
    /\ \/ writer' = [writer EXCEPT ![w] = [NextJob(w) EXCEPT !.crashes = @ + 1]]
       \/ /\ ObjectStore
          /\ writer' = [writer EXCEPT ![w].file = 1, ![w].open = FALSE,
                                      ![w].attempt = @ + 1, ![w].crashes = @ + 1]
    /\ UNCHANGED <<setup, store, local, now, service>>

------------------------------------------------------------------------
(* The stores' reads.                                                     *)

Under(base, k) == Len(k) >= Len(base) + 2 /\ IsPrefix(base, k)
(* list_run_ids: the runs with a marker of their own, or every directory. *)
CarriesAny(base, k) == TRUE
Carries(base, k) == ~ObjectStore \/ (Len(k) = Len(base) + 2 /\ k[Len(base) + 2] = Marker)
Increasing(s) == \A i, j \in DOMAIN s : i < j => s[i] < s[j]
SortedIdsNewestFirst(ids) == CHOOSE s \in [1 .. Cardinality(ids) -> ids] : Increasing(Reverse(s))
SortedIds(ids) == CHOOSE s \in [1 .. Cardinality(ids) -> ids] : Increasing(s)
ListRunIds(base) ==
    LET keys == {k \in DOMAIN store : Under(base, k) /\ Carries(base, k)}
    IN  SortedIds({k[Len(base) + 1] : k \in keys})

(* The directory local_path hands out: the copies, or the tree itself.    *)
Disk == IF ObjectStore THEN local ELSE store
OnDisk(k) == IF k \in DOMAIN Disk THEN Disk[k] ELSE Missing

------------------------------------------------------------------------
(* The gateway.                                                           *)

Scope(call) == IF call.route = "feasibility" THEN "feasibility:evaluate" ELSE "plans:read"

(* _build_authenticator: the configured mode, or the one the settings     *)
(* imply.                                                                 *)
AuthMode ==
    IF setup.auth.mode # "" THEN setup.auth.mode
    ELSE IF setup.auth.issuer THEN "oidc"
    ELSE IF setup.auth.tokens # {} THEN "static" ELSE "none"

(* The principal behind a caller: the anonymous one with every scope, one *)
(* per accepted static token with every scope, or the JWT's own claims.   *)
Anonymous == [subject |-> None, scopes |-> {"*"}]
TokenPrincipal(token) == [subject |-> token, scopes |-> {"*"}]
JwtPrincipal(caller) == [subject |-> caller.subject, scopes |-> caller.scopes]
Accepted(caller) ==
    \/ AuthMode = "none"
    \/ AuthMode = "static" /\ caller.token \in setup.auth.tokens
    \/ AuthMode = "oidc" /\ caller.token = "jwt"
PrincipalOf(caller) ==
    IF AuthMode = "none" THEN Anonymous
    ELSE IF AuthMode = "static" THEN TokenPrincipal(caller.token) ELSE JwtPrincipal(caller)

HasScope(caller, scope) == {"*", scope} \cap PrincipalOf(caller).scopes # {}
(* Throttle per subject, or per client host when the caller has none.     *)
RateKey(caller) == IF PrincipalOf(caller).subject = None THEN caller.client ELSE PrincipalOf(caller).subject

(* FixedWindowRateLimiter.check: the window after counting one request.   *)
CountOneKeepsStart(w) == [start |-> w.start, count |-> IF now - w.start >= Window THEN 1 ELSE w.count + 1]
CountOne(w) == IF now - w.start >= Window THEN [start |-> now, count |-> 1]
                                          ELSE [w EXCEPT !.count = @ + 1]
MaxRequests == setup.maxRequests
LimiterOn == MaxRequests > 0 /\ Window > 0
Counted(key) ==
    CountOne(IF key \in DOMAIN windows THEN windows[key] ELSE [start |-> now, count |-> 0])

(* authenticate -> authorize -> rate-limit; a failure of the              *)
(* authenticator that is no SecurityError ends in a plain 500.            *)
Fails(caller) == AuthMode # "none" /\ caller.token = "fails"
Reaches(caller, call) == ~Fails(caller) /\ Accepted(caller) /\ HasScope(caller, Scope(call))
Verdict(caller, call) ==
    IF Fails(caller) THEN 500
    ELSE IF ~Accepted(caller) THEN 401
    ELSE IF ~HasScope(caller, Scope(call)) THEN 403
    ELSE IF LimiterOn /\ Counted(RateKey(caller)).count > MaxRequests THEN 429 ELSE 200

Asked == Len(replies) + restarts
Answer(status, doc) ==
    /\ replies' = Append(replies, [call |-> req.call, status |-> status, doc |-> doc, key |-> req.key,
                                   at |-> req.at, admitted |-> TRUE])
    /\ req' = Idle
Refuse(status) == Answer(status, None)

Receive(caller, call) ==
    LET verdict == Verdict(caller, call)
        started == [call |-> call, pc |-> "resolve", path |-> <<>>, data |-> <<>>, todo |-> <<>>,
                    digests |-> Empty, fresh |-> {}, found |-> Empty,
                    key |-> RateKey(caller), at |-> now]
    IN  /\ req = Idle /\ Asked < setup.maxCalls
        /\ windows' = IF Reaches(caller, call) /\ LimiterOn
                      THEN Put(windows, RateKey(caller), Counted(RateKey(caller))) ELSE windows
        /\ audit' = IF verdict = 500 THEN audit ELSE Append(audit, verdict)
        /\ IF verdict = 200
           THEN req' = started /\ UNCHANGED replies
           ELSE replies' = Append(replies, [call |-> call, status |-> verdict, doc |-> None,
                                            key |-> RateKey(caller), at |-> now, admitted |-> FALSE]) /\ UNCHANGED req
        /\ UNCHANGED <<setup, store, writer, local, memo, cache, now, restarts>>

------------------------------------------------------------------------
(* Plan retrieval.                                                        *)

Step(pc) == req.pc = pc
Plans == {"list", "plan", "summary", "revision"}
kept == <<setup, store, writer, local, memo, cache, windows, now, restarts, audit>>

(* list_plans answers the listing itself.                                 *)
ListPlans ==
    /\ Step("resolve") /\ req.call.route = "list"
    /\ Answer(200, ListRunIds(<<req.call.mode>>))
    /\ UNCHANGED kept

(* _resolve_run_rel                                                       *)
ResolveRun ==
    LET runs == ListRunIds(<<req.call.mode>>)
        run == IF req.call.run = Latest THEN Last(runs) ELSE req.call.run
    IN  /\ Step("resolve") /\ req.call.route \in Plans \ {"list"}
        /\ IF req.call.run = Invalid THEN Refuse(400)
           ELSE IF runs = <<>> THEN Refuse(404)
           ELSE IF ~Contains(runs, run) THEN Refuse(404)
           ELSE /\ req' = IF req.call.route = "summary"
                          THEN [req EXCEPT !.pc = "exists", !.path = <<req.call.mode, run, "summary">>]
                          ELSE IF req.call.mode = "plan-periodic"
                          THEN [req EXCEPT !.pc = "exists", !.path = <<req.call.mode, run, "plan">>]
                          ELSE [req EXCEPT !.pc = "revisions", !.path = <<req.call.mode, run, "revisions">>]
                /\ UNCHANGED replies
        /\ UNCHANGED kept

(* The newest revision, or the one at the requested position.             *)
Newest(revisions) == Last(revisions)
ResolveRevision ==
    LET revisions == ListRunIds(req.path)
        n == req.call.number
    IN  /\ Step("revisions")
        /\ IF req.call.route = "plan" /\ revisions = <<>> THEN Refuse(404)
           ELSE IF req.call.route = "revision" /\ (n < 0 \/ n >= Len(revisions)) THEN Refuse(404)
           ELSE /\ req' = [req EXCEPT !.pc = "exists",
                              !.path = Key(req.path, IF req.call.route = "plan" THEN Newest(revisions) ELSE revisions[n + 1], "plan")]
                /\ UNCHANGED replies
        /\ UNCHANGED kept

CheckExists ==
    /\ Step("exists")
    /\ IF req.path \in DOMAIN store THEN req' = [req EXCEPT !.pc = "read"] /\ UNCHANGED replies
                                    ELSE Refuse(404)
    /\ UNCHANGED kept

(* A file that is still being written does not parse.                     *)
ReadJson ==
    /\ Step("read")
    /\ IF store[req.path].whole THEN Answer(200, [path |-> req.path, attempt |-> store[req.path].attempt])
                                ELSE Refuse(500)
    /\ UNCHANGED kept

------------------------------------------------------------------------
(* Feasibility: resolve and materialize both runs, then evaluate.         *)

(* _resolve_latest_artifact_dir: only 'latest' asks for the listing.      *)
Resolve(subdir, value, done) ==
    LET runs == ListRunIds(<<subdir>>)
        dir == <<subdir, IF value = Latest THEN Last(runs) ELSE value>>
        keys == {k \in DOMAIN store : IsPrefix(dir, k)}
    IN  IF value = Invalid THEN Refuse(400)
        ELSE IF value = Latest /\ runs = <<>> THEN Refuse(400)
        ELSE /\ req' = [req EXCEPT !.pc = done, !.path = dir,
                                   !.todo = IF ObjectStore THEN SetToSeq(keys) ELSE <<>>]
             /\ UNCHANGED replies

ResolveData ==
    /\ Step("resolve") /\ req.call.route = "feasibility"
    /\ Resolve("generate-data", req.call.run, "copy data")
    /\ UNCHANGED kept

ResolveSchedule ==
    /\ Step("schedule")
    /\ Resolve("solve", req.call.schedule, "copy schedule")
    /\ UNCHANGED kept

(* _materialize: one listed object; a copy that exists is kept.           *)
Keeps(k) == k \in DOMAIN local
Materialize ==
    /\ req # Idle /\ req.todo # <<>>
    /\ local' = IF Keeps(Head(req.todo)) THEN local ELSE Put(local, Head(req.todo), store[Head(req.todo)])
    /\ req' = [req EXCEPT !.todo = Tail(@)]
    /\ UNCHANGED <<setup, store, writer, memo, cache, windows, now, restarts, audit, replies>>

DataCopied ==
    /\ Step("copy data") /\ req.todo = <<>>
    /\ req' = [req EXCEPT !.pc = "schedule", !.data = req.path]
    /\ UNCHANGED <<kept, replies>>

(* detect_format needs the dataset's metadata.  What the disk holds now is *)
(* remembered for the properties only.                                    *)
Inputs == [source |-> req.data \o <<"vehicles">>, schedule |-> req.path \o <<"schedule">>]
DetectFormat ==
    LET meta == OnDisk(req.data \o <<"metadata">>)
    IN  /\ Step("copy schedule") /\ req.todo = <<>>
        /\ IF meta = Missing THEN Refuse(404)
           ELSE IF ~meta.whole THEN Refuse(500)
           ELSE /\ req' = [req EXCEPT !.pc = "source", !.found = [i \in DOMAIN Inputs |-> OnDisk(Inputs[i])]]
                /\ UNCHANGED replies
        /\ UNCHANGED kept

(* _stat_memoized_digest: an entry counts while the stat is the same.     *)
Entries(path) == {i \in DOMAIN memo : memo[i].path = path}
MemoizedByPath(path, stat) == Entries(path) # {}
Memoized(path, stat) == \E i \in Entries(path) : memo[i].stat = stat
Remember(path, content) ==
    LET entry == [path |-> path, stat |-> content, digest |-> content]
        added == IF Entries(path) = {} THEN Append(memo, entry)
                 ELSE [i \in DOMAIN memo |-> IF memo[i].path = path THEN entry ELSE memo[i]]
    IN  KeepLast(added, MemoMax)

(* A torn source parses with fewer rows; a torn schedule does not parse.  *)
Digest(input, done) ==
    LET path == Inputs[input]
        stat == OnDisk(path)
        hit == Memoized(path, stat)
        digest == IF hit THEN memo[CHOOSE i \in Entries(path) : TRUE].digest ELSE stat
    IN  IF input = "schedule" /\ ~hit /\ stat # Missing /\ ~stat.whole
        THEN Refuse(500) /\ UNCHANGED memo
        ELSE /\ req' = [req EXCEPT !.pc = done, !.digests = Put(@, input, digest),
                                   !.fresh = IF hit \/ stat = Missing THEN @ ELSE @ \cup {input}]
             /\ memo' = IF hit \/ stat = Missing THEN memo ELSE Remember(path, stat)
             /\ UNCHANGED replies

evaluation == <<setup, store, writer, local, windows, now, restarts, audit>>
DigestSource == Step("source") /\ Digest("source", "plan") /\ UNCHANGED <<cache, evaluation>>
DigestSchedule == Step("plan") /\ Digest("schedule", "lookup") /\ UNCHANGED <<cache, evaluation>>

(* feasibility_request_cache_key: the digests; the order is the call's.   *)
CacheKey == req.digests
Stored == {i \in DOMAIN cache : cache[i].key = CacheKey}
Cached == {i \in Stored : cache[i].value # None}

LookUp ==
    /\ Step("lookup")
    /\ IF Cached # {}
       THEN LET hit == cache[CHOOSE i \in Cached : TRUE].value
            IN  Answer(200, [inputs |-> hit.inputs, at |-> hit.at, found |-> req.found])
       ELSE req' = [req EXCEPT !.pc = "parse"] /\ UNCHANGED replies
    /\ UNCHANGED <<memo, cache, evaluation>>

(* On a miss the inputs the memo answered for are read again; an absent   *)
(* source ends the request, an absent schedule is an empty one.           *)
ReadAgain(input) == IF input \in req.fresh THEN req.digests[input]
                    ELSE IF req.digests[input] = Missing THEN Missing ELSE OnDisk(Inputs[input])
Prune(entries) == KeepLast(entries, CacheMax)
Others == IF Stored = {} THEN cache ELSE RemoveAt(cache, CHOOSE i \in Stored : TRUE)
Evaluate ==
    LET inputs == [i \in DOMAIN Inputs |-> ReadAgain(i)]
    IN  /\ Step("parse")
        /\ IF inputs.source = Missing THEN Refuse(404) /\ UNCHANGED cache
           ELSE /\ cache' = Append(Others, [key |-> CacheKey, value |-> None])
                /\ req' = [req EXCEPT !.pc = "store", !.found = [inputs |-> inputs, at |-> now, found |-> @]]
                /\ UNCHANGED replies
        /\ UNCHANGED <<memo, evaluation>>

(* The cache file is written in place; only then is the answer sent.      *)
StoreAnswer ==
    /\ Step("store")
    /\ cache' = Prune(Append(Others, [key |-> CacheKey, value |-> [inputs |-> req.found.inputs, at |-> req.found.at]]))
    /\ Answer(200, req.found)
    /\ UNCHANGED <<memo, evaluation>>

------------------------------------------------------------------------
Tick ==
    /\ now < setup.clock /\ now' = now + 1
    /\ UNCHANGED <<setup, store, writer, local, service>>

(* The service process dies: its memo, its windows and the request go.    *)
Restart ==
    /\ restarts < MaxRestarts /\ req # Idle
    /\ restarts' = restarts + 1 /\ req' = Idle /\ memo' = <<>> /\ windows' = Empty
    /\ UNCHANGED <<setup, store, writer, local, cache, now, audit, replies>>

Init ==
    /\ setup \in Setups
    /\ store = Empty /\ local = Empty /\ memo = <<>> /\ cache = <<>> /\ windows = Empty
    /\ writer = [w \in DOMAIN setup.jobs |-> [job |-> 1, file |-> 1, attempt |-> 1, open |-> FALSE, crashes |-> 0]]
    /\ now = 0 /\ restarts = 0 /\ req = Idle /\ audit = <<>> /\ replies = <<>>

Next ==
    \/ \E w \in DOMAIN setup.jobs : OpenFile(w) \/ FillFile(w) \/ Publish(w) \/ Crash(w)
    \/ \E caller \in setup.callers, call \in setup.calls : Receive(caller, call)
    \/ ListPlans \/ ResolveRun \/ ResolveRevision \/ CheckExists \/ ReadJson
    \/ ResolveData \/ ResolveSchedule \/ Materialize \/ DataCopied \/ DetectFormat
    \/ DigestSource \/ DigestSchedule \/ LookUp \/ Evaluate \/ StoreAnswer
    \/ Tick \/ Restart

Spec == Init /\ [][Next]_vars

------------------------------------------------------------------------
(* Properties.                                                            *)

Ok(i) == replies[i].status = 200
IsRoute(i, routes) == replies[i].call.route \in routes
Committed(path) == Append(Front(path), Marker) \in DOMAIN store

(* From an object store every plan document the API answers belongs to a  *)
(* published run, and a run that resolved is never found missing or cut:  *)
(* the marker is written last and every listing asks for it.              *)
PublishedPlansWhole ==
    ObjectStore =>
        /\ \A i \in DOMAIN replies : IsRoute(i, {"plan", "summary", "revision"}) =>
              /\ replies[i].admitted => replies[i].status # 500
              /\ Ok(i) => Committed(replies[i].doc.path)
        /\ Step("exists") => req.path \in DOMAIN store
        /\ Step("read") => store[req.path].whole

(* A client that repeats a request never gets an older document: runs and *)
(* revisions are only added, and added in the order their names sort.     *)
Older(d, e) == \/ d.path[2] < e.path[2]
               \/ d.path[2] = e.path[2] /\ Len(d.path) = 5 /\ Len(e.path) = 5 /\ d.path[4] < e.path[4]
AnswersNeverGoBack ==
    \A i, j \in DOMAIN replies :
        /\ i < j /\ replies[i].call = replies[j].call /\ Ok(i) /\ Ok(j) /\ IsRoute(i, {"plan", "revision"})
        => /\ ~Older(replies[j].doc, replies[i].doc)
           /\ IsRoute(i, {"revision"}) /\ replies[i].call.run # Latest => replies[j].doc.path = replies[i].doc.path

(* An answer about feasibility is never about inputs older than those on  *)
(* disk when its evaluation began, whether it came from the digest memo,  *)
(* the response cache or a fresh evaluation, a restart included.          *)
NoOlder(a, b) == b = Missing \/ (a # Missing /\ (a.attempt > b.attempt \/ (a.attempt = b.attempt /\ (b.whole => a.whole))))
FeasibilityCurrent ==
    \A i \in DOMAIN replies : IsRoute(i, {"feasibility"}) /\ Ok(i) =>
        \A f \in {"source", "schedule"} : NoOlder(replies[i].doc.inputs[f], replies[i].doc.found[f])

(* A materialized copy outlives the request that made it, so this is about *)
(* every earlier request too: as long as clients ask for 'latest', copies *)
(* are of published runs, whole, and stay equal to what was published.    *)
LatestOnly == /\ \A i \in DOMAIN replies : IsRoute(i, {"feasibility"}) => replies[i].call.run = Latest /\ replies[i].call.schedule = Latest
              /\ req # Idle /\ req.call.route = "feasibility" => req.call.run = Latest /\ req.call.schedule = Latest
CopiesOfPublishedRuns == restarts = 0 /\ LatestOnly => \A k \in DOMAIN local : Committed(k) /\ local[k] = store[k]

(* Neither an answer nor a materialized copy shows a run that another      *)
(* writer is still publishing, has left unfinished or has repeated.        *)
OnlyPublishedRunsServed == PublishedPlansWhole /\ CopiesOfPublishedRuns

(* A caller is let through at most 2 * MaxRequests - 1 times in any       *)
(* interval of the window's length: windows open at a request, not at the *)
(* clock's multiples.                                                     *)
Admitted(key, from) == {i \in DOMAIN replies : /\ replies[i].key = key /\ replies[i].admitted
                                               /\ replies[i].at \in from .. from + Window - 1}
ThrottleHolds ==
    LimiterOn /\ restarts = 0 =>
        \A key \in {replies[i].key : i \in DOMAIN replies}, from \in 0 .. now :
            Cardinality(Admitted(key, from)) <= 2 * MaxRequests - 1

========================================================================
