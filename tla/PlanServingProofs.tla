------------------------- MODULE PlanServingProofs -------------------------
(***************************************************************************)
(* Proofs about the serving API (PlanServing), for every set of instances. *)
(***************************************************************************)
EXTENDS PlanServing, FiniteSetTheorems, SequenceTheorems, WellFoundedInduction, TLAPS

-----------------------------------------------------------------------------
(* Sequences and requests                                                  *)

IsSeq(s) == s \in Seq(Range(s))

LEMMA Appended ==
    ASSUME NEW s, IsSeq(s), NEW x
    PROVE  /\ IsSeq(Append(s, x))
           /\ DOMAIN s = 1 .. Len(s) /\ Len(s) \in Nat
           /\ DOMAIN Append(s, x) = 1 .. Len(s) + 1 /\ Len(Append(s, x)) = Len(s) + 1
           /\ \A i \in DOMAIN s : Append(s, x)[i] = s[i]
           /\ Append(s, x)[Len(s) + 1] = x
<1> DEFINE S == Range(s) \cup {x}
           a == Append(s, x)
<1>1. s \in Seq(S) /\ x \in S /\ a \in Seq(S)
  <2>1. s \in Seq(Range(s)) /\ Range(s) \in SUBSET S
    BY DEF IsSeq
  <2>2. s \in Seq(S)
    BY <2>1, SeqMonotonic
  <2> QED BY <2>2
<1>2. /\ DOMAIN s = 1 .. Len(s) /\ Len(s) \in Nat
      /\ DOMAIN a = 1 .. Len(s) + 1 /\ Len(a) = Len(s) + 1
      /\ \A i \in DOMAIN s : a[i] = s[i]
      /\ a[Len(s) + 1] = x
  BY <1>1
<1>3. a \in Seq(Range(a))
  <2>1. Len(a) \in Nat /\ a \in [1 .. Len(a) -> S]
    BY <1>1, LenProperties
  <2>2. \A i \in 1 .. Len(a) : a[i] \in Range(a)
    BY <1>2 DEF Range
  <2> HIDE DEF a
  <2>3. a \in [1 .. Len(a) -> Range(a)]
    BY <2>1, <2>2
  <2> QED BY <2>1, <2>3, IsASeq
<1> QED BY <1>2, <1>3 DEF IsSeq

RequestFields == {"call", "pc", "path", "data", "todo", "digests", "fresh", "found", "key", "at"}

\* The shape of the state every argument below needs.
Core ==
    /\ setup \in Setups /\ now \in Nat /\ restarts \in Nat
    /\ IsSeq(replies)
    /\ req # Idle => DOMAIN req = RequestFields /\ req.pc # "none"

\* What a step is to the clients.
Beside ==
    /\ req' = req /\ replies' = replies /\ windows' = windows /\ restarts' = restarts
    /\ now' \in Nat /\ now' >= now
Advances ==
    /\ req # Idle /\ req' # Idle /\ DOMAIN req' = RequestFields /\ req'.pc # "none"
    /\ req'.key = req.key /\ req'.at = req.at /\ req'.call = req.call
    /\ replies' = replies /\ windows' = windows /\ restarts' = restarts /\ now' = now
Answers ==
    /\ req # Idle
    /\ \E status, doc : Answer(status, doc)
    /\ windows' = windows /\ restarts' = restarts /\ now' = now
Receives == \E caller \in setup.callers, call \in setup.calls : Receive(caller, call)

Untouched == windows' = windows /\ restarts' = restarts /\ now' = now /\ setup' = setup
Replies == \E status, doc : Answer(status, doc)
Goes ==
    /\ replies' = replies /\ DOMAIN req' = DOMAIN req
    /\ DOMAIN req = RequestFields => /\ req'.pc # "none"
                                     /\ req'.key = req.key /\ req'.at = req.at /\ req'.call = req.call

LEMMA StepShapes ==
    ASSUME Core, [Next]_vars
    PROVE  setup' = setup /\ (Beside \/ Advances \/ Answers \/ Receives \/ Restart)
<1> USE DEF Step, Refuse, RequestFields
<1>1. ASSUME NEW w \in DOMAIN setup.jobs, OpenFile(w) \/ FillFile(w) \/ Publish(w) \/ Crash(w)
      PROVE  setup' = setup /\ Beside
  BY <1>1 DEF OpenFile, FillFile, Publish, Crash, service, Beside, Core
<1>0. ASSUME req.pc # "none", Untouched, Replies \/ Goes
      PROVE  setup' = setup /\ (Advances \/ Answers)
  BY <1>0 DEF Core, Advances, Answers, Replies, Goes, Untouched, Idle, RequestFields
<1>2. CASE ListPlans
  <2>1. req.pc # "none" /\ Untouched /\ (Replies \/ Goes)
    BY <1>2 DEF ListPlans, kept, Replies, Goes, Untouched
  <2> QED BY <1>0, <2>1
<1>3. CASE ResolveRun
  <2>1. req.pc # "none" /\ Untouched
    BY <1>3 DEF ResolveRun, kept, Untouched
  <2>2. \/ \E status, doc : Answer(status, doc)
        \/ \E pc \in {"exists", "revisions"} : \E p : req' = [req EXCEPT !.pc = pc, !.path = p] /\ replies' = replies
    BY ZenonT(60), <1>3 DEF ResolveRun, kept
  <2>3. CASE \E status, doc : Answer(status, doc)
    BY <1>0, <2>1, <2>3 DEF Replies
  <2>4. CASE \E pc \in {"exists", "revisions"} : \E p : req' = [req EXCEPT !.pc = pc, !.path = p] /\ replies' = replies
    <3>1. Goes
      BY <2>4 DEF Goes
    <3> QED BY <1>0, <2>1, <3>1
  <2> QED BY <2>2, <2>3, <2>4
<1>4. CASE ResolveRevision
  <2>1. req.pc # "none" /\ Untouched
    BY <1>4 DEF ResolveRevision, kept, Untouched
  <2>2. \/ \E status, doc : Answer(status, doc)
        \/ \E p : req' = [req EXCEPT !.pc = "exists", !.path = p] /\ replies' = replies
    BY ZenonT(60), <1>4 DEF ResolveRevision, kept
  <2>3. Replies \/ Goes
    BY <2>2 DEF Replies, Goes
  <2> QED BY <1>0, <2>1, <2>3
<1>5. CASE CheckExists
  <2>1. req.pc # "none" /\ Untouched /\ (Replies \/ Goes)
    BY <1>5 DEF CheckExists, kept, Replies, Goes, Untouched
  <2> QED BY <1>0, <2>1
<1>6. CASE ReadJson
  <2>1. req.pc # "none" /\ Untouched /\ (Replies \/ Goes)
    BY <1>6 DEF ReadJson, kept, Replies, Goes, Untouched
  <2> QED BY <1>0, <2>1
<1>7. CASE ResolveData
  <2>1. req.pc # "none" /\ Untouched
    BY <1>7 DEF ResolveData, Resolve, kept, Untouched
  <2>2. \/ \E status, doc : Answer(status, doc)
        \/ \E p, t : req' = [req EXCEPT !.pc = "copy data", !.path = p, !.todo = t] /\ replies' = replies
    BY ZenonT(60), <1>7 DEF ResolveData, Resolve, kept
  <2>3. Replies \/ Goes
    BY <2>2 DEF Replies, Goes
  <2> QED BY <1>0, <2>1, <2>3
<1>8. CASE ResolveSchedule
  <2>1. req.pc # "none" /\ Untouched
    BY <1>8 DEF ResolveSchedule, Resolve, kept, Untouched
  <2>2. \/ \E status, doc : Answer(status, doc)
        \/ \E p, t : req' = [req EXCEPT !.pc = "copy schedule", !.path = p, !.todo = t] /\ replies' = replies
    BY ZenonT(60), <1>8 DEF ResolveSchedule, Resolve, kept
  <2>3. Replies \/ Goes
    BY <2>2 DEF Replies, Goes
  <2> QED BY <1>0, <2>1, <2>3
<1>9. CASE Materialize
  <2>1. req.pc # "none" /\ Untouched /\ (Replies \/ Goes)
    BY <1>9 DEF Materialize, Goes, Untouched, Core
  <2> QED BY <1>0, <2>1
<1>10. CASE DataCopied
  <2>1. req.pc # "none" /\ Untouched /\ (Replies \/ Goes)
    BY <1>10 DEF DataCopied, kept, Replies, Goes, Untouched
  <2> QED BY <1>0, <2>1
<1>11. CASE DetectFormat
  <2>1. req.pc # "none" /\ Untouched
    BY <1>11 DEF DetectFormat, kept, Untouched
  <2>2. \/ \E status, doc : Answer(status, doc)
        \/ \E f : req' = [req EXCEPT !.pc = "source", !.found = f] /\ replies' = replies
    BY ZenonT(60), <1>11 DEF DetectFormat, kept
  <2>3. Replies \/ Goes
    BY <2>2 DEF Replies, Goes
  <2> QED BY <1>0, <2>1, <2>3
<1>12. CASE DigestSource
  <2>1. req.pc # "none" /\ Untouched
    BY <1>12 DEF DigestSource, Digest, evaluation, Untouched
  <2>2. \/ \E status, doc : Answer(status, doc)
        \/ \E d, f : req' = [req EXCEPT !.pc = "plan", !.digests = d, !.fresh = f] /\ replies' = replies
    BY <1>12 DEF DigestSource, Digest, evaluation
  <2>3. Replies \/ Goes
    BY <2>2 DEF Replies, Goes
  <2> QED BY <1>0, <2>1, <2>3
<1>13. CASE DigestSchedule
  <2>1. req.pc # "none" /\ Untouched
    BY <1>13 DEF DigestSchedule, Digest, evaluation, Untouched
  <2>2. \/ \E status, doc : Answer(status, doc)
        \/ \E d, f : req' = [req EXCEPT !.pc = "lookup", !.digests = d, !.fresh = f] /\ replies' = replies
    BY ZenonT(60), <1>13 DEF DigestSchedule, Digest, evaluation
  <2>3. Replies \/ Goes
    BY <2>2 DEF Replies, Goes
  <2> QED BY <1>0, <2>1, <2>3
<1>14. CASE LookUp
  <2>1. req.pc # "none" /\ Untouched
    BY <1>14 DEF LookUp, evaluation, Untouched
  <2>2. \/ \E status, doc : Answer(status, doc)
        \/ req' = [req EXCEPT !.pc = "parse"] /\ replies' = replies
    BY <1>14 DEF LookUp, evaluation
  <2>3. Replies \/ Goes
    BY <2>2 DEF Replies, Goes
  <2> QED BY <1>0, <2>1, <2>3
<1>15. CASE Evaluate
  <2>1. req.pc # "none" /\ Untouched /\ (Replies \/ Goes)
    BY ZenonT(60), <1>15 DEF Evaluate, evaluation, Replies, Goes, Untouched
  <2> QED BY <1>0, <2>1
<1>16. CASE StoreAnswer
  <2>1. req.pc # "none" /\ Untouched /\ (Replies \/ Goes)
    BY <1>16 DEF StoreAnswer, evaluation, Replies, Goes, Untouched
  <2> QED BY <1>0, <2>1
<1>17. CASE Tick
  BY <1>17 DEF Tick, service, Beside, Core
<1>18. CASE Receives
  BY <1>18 DEF Receives, Receive
<1>19. CASE Restart
  BY <1>19 DEF Restart
<1>20. CASE UNCHANGED vars
  BY <1>20 DEF vars, Beside, Core
<1> QED BY <1>1, <1>2, <1>3, <1>4, <1>5, <1>6, <1>7, <1>8, <1>9, <1>10, <1>11, <1>12, <1>13, <1>14,
       <1>15, <1>16, <1>17, <1>18, <1>19, <1>20 DEF Next, Receives

LEMMA CoreHolds == Spec => []Core
<1>1. Init => Core
  <2> SUFFICES ASSUME Init PROVE Core
    OBVIOUS
  <2>1. IsSeq(<<>>)
    BY EmptySeq DEF IsSeq
  <2> QED BY <2>1 DEF Init, Core
<1>2. Core /\ [Next]_vars => Core'
  <2> SUFFICES ASSUME Core, [Next]_vars PROVE Core'
    OBVIOUS
  <2>1. setup' \in Setups
    BY StepShapes DEF Core
  <2>2. CASE Beside
    BY <2>1, <2>2 DEF Core, Beside
  <2>3. CASE Advances
    BY <2>1, <2>3 DEF Core, Advances
  <2>4. CASE Answers
    <3>1. PICK status, doc : Answer(status, doc)
      BY <2>4 DEF Answers
    <3>2. IsSeq(replies')
      BY <3>1, Appended DEF Answer, Core
    <3> QED BY <2>1, <2>4, <3>1, <3>2 DEF Core, Answers, Answer
  <2>5. CASE Receives
    <3>1. PICK caller \in setup.callers, call \in setup.calls : Receive(caller, call)
      BY <2>5 DEF Receives
    <3>2. IsSeq(replies')
      <4>1. replies' = replies \/ \E reply : replies' = Append(replies, reply)
        BY <3>1 DEF Receive
      <4>2. IsSeq(replies) /\ \A reply : IsSeq(Append(replies, reply))
        BY Appended DEF Core
      <4> QED BY <4>1, <4>2
    <3>3. req' # Idle => DOMAIN req' = RequestFields /\ req'.pc # "none"
      BY <3>1 DEF Receive, Core, RequestFields
    <3> QED BY <2>1, <3>1, <3>2, <3>3 DEF Core, Receive
  <2>6. CASE Restart
    BY <2>1, <2>6 DEF Core, Restart
  <2> QED BY <2>2, <2>3, <2>4, <2>5, <2>6, StepShapes
<1> QED BY <1>1, <1>2, PTL DEF Spec

-----------------------------------------------------------------------------
(* The throttle                                                            *)

\* The requests that were answered or are being handled, in order: those that
\* the limiter let through, and those that were refused before.
Passage(r, admitted) == [key |-> r.key, at |-> r.at, admitted |-> admitted]
Answered == [i \in DOMAIN replies |-> Passage(replies[i], replies[i].admitted)]
Passages == IF req = Idle THEN Answered ELSE Append(Answered, Passage(req, TRUE))

Lets(p, key) == p.key = key /\ p.admitted = TRUE
LetThrough(h, key) == {i \in DOMAIN h : Lets(h[i], key)}
InWindow(h, key, s) == {i \in LetThrough(h, key) : h[i].at \in s .. s + Window - 1}

\* S are the starts of the windows the requests of a key fall into: each was
\* opened by a request at its start, and lets through MaxRequests at most.
Divided(h, key, S, max) ==
    /\ S \in SUBSET Nat
    /\ \A s, t \in S : s < t => s + Window <= t
    /\ \A i \in LetThrough(h, key) : \E s \in S : h[i].at \in s .. s + Window - 1
    /\ \A s \in S : /\ \E i \in LetThrough(h, key) : h[i].at = s
                    /\ Cardinality(InWindow(h, key, s)) <= max

\* The newest window is the limiter's, which counts at least what it let through.
Counts(h, key, S, entries, time) ==
    IF key \in DOMAIN entries
    THEN /\ entries[key].start \in S
         /\ entries[key] \in [start : 0 .. time, count : Nat]
         /\ \A s \in S : s <= entries[key].start
         /\ Cardinality(InWindow(h, key, entries[key].start)) <= entries[key].count
    ELSE S = {}

History(h) ==
    /\ IsSeq(h)
    /\ \A i \in DOMAIN h : h[i].at \in 0 .. now /\ h[i].admitted \in BOOLEAN
Throttling ==
    /\ History(Passages)
    /\ LimiterOn /\ restarts = 0 =>
        \A key : \E S : Divided(Passages, key, S, MaxRequests) /\ Counts(Passages, key, S, windows, now)

LEMMA AnsweredSeq ==
    ASSUME Core
    PROVE  /\ IsSeq(Answered) /\ DOMAIN Answered = DOMAIN replies
           /\ DOMAIN replies = 1 .. Len(replies) /\ Len(replies) \in Nat /\ Len(Answered) = Len(replies)
<1> DEFINE n == Len(replies)
           e(i) == Passage(replies[i], replies[i].admitted)
<1>1. DOMAIN replies = 1 .. n /\ n \in Nat
  BY Appended DEF Core
<1>2. Answered = [i \in 1 .. n |-> e(i)] /\ \A i \in 1 .. n : Answered[i] \in Range(Answered)
  BY <1>1 DEF Answered, Range
<1>3. Answered \in Seq(Range(Answered)) /\ Len(Answered) = n
  <2> HIDE DEF n, e
  <2>1. Answered \in [1 .. n -> Range(Answered)]
    BY <1>2
  <2> QED BY <1>1, <2>1, IsASeq
<1> QED BY <1>1, <1>2, <1>3 DEF IsSeq

LEMMA AnsweredGrows ==
    ASSUME Core, NEW r, replies' = Append(replies, r)
    PROVE  Answered' = Append(Answered, Passage(r, r.admitted))
<1> DEFINE n == Len(replies) + 1
           p == Passage(r, r.admitted)
           old == Append(replies, r)
           new == Append(Answered, p)
<1>1. /\ DOMAIN replies = 1 .. n - 1 /\ n - 1 \in Nat /\ DOMAIN old = 1 .. n
      /\ old[n] = r /\ \A i \in DOMAIN replies : old[i] = replies[i]
  BY Appended DEF Core
<1>2. /\ IsSeq(new) /\ Len(new) = n
      /\ new[n] = p /\ \A i \in DOMAIN replies : new[i] = Answered[i]
  <2> HIDE DEF p
  <2>1. IsSeq(Answered) /\ DOMAIN Answered = DOMAIN replies /\ Len(Answered) + 1 = n
    BY AnsweredSeq
  <2> QED BY <2>1, Appended
<1>3. Answered' = [i \in 1 .. n |-> Passage(old[i], old[i].admitted)]
  BY <1>1 DEF Answered
<1>4. ASSUME NEW i \in 1 .. n PROVE Passage(old[i], old[i].admitted) = new[i]
  <2>1. CASE i = n
    BY <2>1, <1>1, <1>2
  <2>2. CASE i \in DOMAIN replies
    <3>1. old[i] = replies[i] /\ new[i] = Answered[i]
      BY <2>2, <1>1, <1>2
    <3>2. Answered[i] = Passage(replies[i], replies[i].admitted)
      BY <2>2 DEF Answered
    <3> QED BY <3>1, <3>2
  <2>3. i = n \/ i \in DOMAIN replies
    BY <1>1
  <2> QED BY <2>1, <2>2, <2>3
<1>5. new = [i \in 1 .. n |-> new[i]]
  <2> HIDE DEF new, n
  <2>1. new \in [1 .. Len(new) -> Range(new)]
    BY <1>2, LenProperties DEF IsSeq
  <2> QED BY <1>2, <2>1
<1> HIDE DEF new, old, n
<1>6. Answered' = new
  BY <1>3, <1>4, <1>5
<1> QED BY <1>6 DEF new

\* Only a new request adds a passage, and only a restart loses one.
LEMMA PassagesKept ==
    ASSUME Core, Beside \/ Advances \/ Answers
    PROVE  Passages' = Passages
<1>1. CASE Beside
  BY <1>1 DEF Beside, Passages, Answered
<1>2. CASE Advances
  BY <1>2 DEF Advances, Passages, Answered, Passage
<1>3. CASE Answers
  <2>1. PICK status, doc : Answer(status, doc)
    BY <1>3 DEF Answers
  <2> DEFINE r == [call |-> req.call, status |-> status, doc |-> doc, key |-> req.key,
                   at |-> req.at, admitted |-> TRUE]
  <2>2. replies' = Append(replies, r) /\ Passages' = Answered' /\ Passages = Append(Answered, Passage(req, TRUE))
    BY <1>3, <2>1 DEF Answer, Answers, Passages
  <2>3. Passage(r, r.admitted) = Passage(req, TRUE)
    BY DEF Passage
  <2> QED BY <2>2, <2>3, AnsweredGrows
<1> QED BY <1>1, <1>2, <1>3

LEMMA PassageAdded ==
    ASSUME Core, NEW caller, NEW call, Receive(caller, call)
    PROVE  Passages' = Append(Passages, [key |-> RateKey(caller), at |-> now, admitted |-> Verdict(caller, call) = 200])
<1> DEFINE p == [key |-> RateKey(caller), at |-> now, admitted |-> Verdict(caller, call) = 200]
<1>1. req = Idle /\ Passages = Answered
  BY DEF Receive, Passages
<1>2. CASE Verdict(caller, call) = 200
  <2>1. /\ replies' = replies
        /\ req' = [call |-> call, pc |-> "resolve", path |-> <<>>, data |-> <<>>, todo |-> <<>>,
                   digests |-> Empty, fresh |-> {}, found |-> Empty, key |-> RateKey(caller), at |-> now]
    BY <1>2 DEF Receive
  <2>2. req' # Idle /\ Passage(req', TRUE) = p
    BY <1>2, <2>1 DEF Idle, Passage
  <2>3. Passages' = Append(Answered, Passage(req', TRUE))
    BY <2>1, <2>2 DEF Passages, Answered
  <2> QED BY <1>1, <2>2, <2>3
<1>3. CASE Verdict(caller, call) # 200
  <2> DEFINE r == [call |-> call, status |-> Verdict(caller, call), doc |-> None,
                   key |-> RateKey(caller), at |-> now, admitted |-> FALSE]
  <2>1. replies' = Append(replies, r) /\ req' = req
    BY <1>3 DEF Receive
  <2>2. Passage(r, r.admitted) = p
    BY <1>3 DEF Passage
  <2>3. Answered' = Append(Answered, p)
    <3> HIDE DEF r, p
    <3> QED BY <2>1, <2>2, AnsweredGrows
  <2>4. Passages' = Answered'
    BY <1>1, <2>1 DEF Passages
  <2> QED BY <1>1, <2>3, <2>4
<1> QED BY <1>2, <1>3

SameOn(S, h, more) == \A i \in S : more[i] = h[i]

\* What a passage behind the others adds to the requests let through.
LEMMA LetThroughGrows ==
    ASSUME NEW h, IsSeq(h), NEW p, NEW key
    PROVE  /\ IsFiniteSet(LetThrough(h, key))
           /\ Lets(p, key) => LetThrough(Append(h, p), key) = LetThrough(h, key) \cup {Len(h) + 1}
           /\ ~Lets(p, key) => LetThrough(Append(h, p), key) = LetThrough(h, key)
           /\ SameOn(LetThrough(h, key), h, Append(h, p)) /\ Len(h) + 1 \notin LetThrough(h, key)
           /\ Append(h, p)[Len(h) + 1] = p
<1>1. /\ DOMAIN h = 1 .. Len(h) /\ Len(h) \in Nat
      /\ DOMAIN Append(h, p) = 1 .. Len(h) + 1
      /\ \A i \in DOMAIN h : Append(h, p)[i] = h[i]
      /\ Append(h, p)[Len(h) + 1] = p
  BY Appended
<1>2. IsFiniteSet(LetThrough(h, key))
  <2>1. LetThrough(h, key) \in SUBSET (1 .. Len(h)) /\ IsFiniteSet(1 .. Len(h))
    BY <1>1, FS_Interval DEF LetThrough
  <2> QED BY <2>1, FS_Subset
<1>3. /\ Lets(p, key) => LetThrough(Append(h, p), key) = LetThrough(h, key) \cup {Len(h) + 1}
      /\ ~Lets(p, key) => LetThrough(Append(h, p), key) = LetThrough(h, key)
  <2> DEFINE more == Append(h, p)
             n == Len(h) + 1
  <2>1. /\ DOMAIN more = DOMAIN h \cup {n} /\ n \notin DOMAIN h
        /\ \A k \in DOMAIN h : more[k] = h[k]
        /\ more[n] = p
    BY <1>1
  <2> HIDE DEF more, n
  <2>2. CASE Lets(p, key)
    <3>1. LetThrough(more, key) = LetThrough(h, key) \cup {n}
      BY <2>1, <2>2, Zenon DEF LetThrough
    <3> QED BY <3>1, <2>2 DEF more, n
  <2>3. CASE ~Lets(p, key)
    <3>1. LetThrough(more, key) = LetThrough(h, key)
      BY <2>1, <2>3, Zenon DEF LetThrough
    <3> QED BY <3>1, <2>3 DEF more
  <2> QED BY <2>2, <2>3
<1>4. \A i \in LetThrough(h, key) : i \in DOMAIN h
  BY DEF LetThrough
<1> QED BY <1>1, <1>2, <1>3, <1>4 DEF SameOn

\* A passage that is refused, or another's, changes nothing for a key.
LEMMA OthersPassage ==
    ASSUME NEW h, IsSeq(h), NEW p, NEW key, ~Lets(p, key)
    PROVE  /\ LetThrough(Append(h, p), key) = LetThrough(h, key)
           /\ \A s : InWindow(Append(h, p), key, s) = InWindow(h, key, s)
           /\ \A S, max : Divided(h, key, S, max) => Divided(Append(h, p), key, S, max)
<1>1. /\ LetThrough(Append(h, p), key) = LetThrough(h, key)
      /\ SameOn(LetThrough(h, key), h, Append(h, p))
  BY LetThroughGrows
<1> DEFINE more == Append(h, p)
<1> HIDE DEF more
<1>2. \A s : InWindow(more, key, s) = InWindow(h, key, s)
  BY <1>1 DEF InWindow, SameOn, more
<1>3. ASSUME NEW S, NEW max, Divided(h, key, S, max) PROVE Divided(more, key, S, max)
  BY <1>1, <1>2, <1>3 DEF Divided, SameOn, more
<1> QED BY <1>1, <1>2, <1>3 DEF more

LEMMA OwnPassage ==
    ASSUME NEW h, IsSeq(h), NEW p, NEW key, Lets(p, key), NEW s
    PROVE  /\ IsFiniteSet(InWindow(h, key, s)) /\ Cardinality(InWindow(h, key, s)) \in Nat
           /\ p.at \notin s .. s + Window - 1 => InWindow(Append(h, p), key, s) = InWindow(h, key, s)
           /\ p.at \in s .. s + Window - 1 =>
                /\ InWindow(Append(h, p), key, s) = InWindow(h, key, s) \cup {Len(h) + 1}
                /\ Cardinality(InWindow(Append(h, p), key, s)) = Cardinality(InWindow(h, key, s)) + 1
<1>1. /\ IsFiniteSet(LetThrough(h, key))
      /\ LetThrough(Append(h, p), key) = LetThrough(h, key) \cup {Len(h) + 1}
      /\ SameOn(LetThrough(h, key), h, Append(h, p)) /\ Len(h) + 1 \notin LetThrough(h, key)
      /\ Append(h, p)[Len(h) + 1] = p
  BY LetThroughGrows
<1>2. IsFiniteSet(InWindow(h, key, s)) /\ Cardinality(InWindow(h, key, s)) \in Nat
  BY <1>1, FS_Subset, FS_CardinalityType DEF InWindow
<1> DEFINE more == Append(h, p)
           win == s .. s + Window - 1
<1> HIDE DEF more, win
<1>3. InWindow(more, key, s) = InWindow(h, key, s) \cup (IF p.at \in win THEN {Len(h) + 1} ELSE {})
  BY <1>1 DEF InWindow, SameOn, more, win
<1>4. Len(h) + 1 \notin InWindow(h, key, s)
  BY <1>1 DEF InWindow
<1>5. Cardinality(InWindow(h, key, s) \cup {Len(h) + 1}) = Cardinality(InWindow(h, key, s)) + 1
  BY <1>2, <1>4, FS_AddElement
<1> QED BY <1>2, <1>3, <1>5 DEF more, win

\* The two ways the limiter lets a request through: it counts it in the window
\* there is, or it opens a window.
LEMMA CountedIn ==
    ASSUME NEW h, History(h), NEW p, NEW key, Lets(p, key), p.at = now, now \in Nat,
           NEW S, NEW max \in Int, Divided(h, key, S, max), NEW w \in [start : 0 .. now, count : Nat], w.start \in S,
           \A s \in S : s <= w.start, Window \in Int, now - w.start < Window,
           Cardinality(InWindow(h, key, w.start)) <= w.count, w.count + 1 <= max
    PROVE  /\ Divided(Append(h, p), key, S, max)
           /\ Cardinality(InWindow(Append(h, p), key, w.start)) <= w.count + 1
<1> DEFINE more == Append(h, p)
           n == Len(h) + 1
<1>1. /\ LetThrough(more, key) = LetThrough(h, key) \cup {n}
      /\ SameOn(LetThrough(h, key), h, more)
      /\ more[n] = p
  BY LetThroughGrows DEF History
<1>2. ASSUME NEW s
      PROVE  /\ IsFiniteSet(InWindow(h, key, s)) /\ Cardinality(InWindow(h, key, s)) \in Nat
             /\ now \notin s .. s + Window - 1 => InWindow(more, key, s) = InWindow(h, key, s)
             /\ now \in s .. s + Window - 1 => Cardinality(InWindow(more, key, s)) = Cardinality(InWindow(h, key, s)) + 1
  BY OwnPassage DEF History
<1> HIDE DEF more, n
<1>3. /\ S \in SUBSET Nat
      /\ \A s, t \in S : s < t => s + Window <= t
      /\ \A i \in LetThrough(h, key) : \E s \in S : h[i].at \in s .. s + Window - 1
      /\ \A s \in S : /\ \E i \in LetThrough(h, key) : h[i].at = s
                      /\ Cardinality(InWindow(h, key, s)) <= max
  BY DEF Divided
<1>4. w.start \in Nat /\ w.count \in Nat /\ now \in w.start .. w.start + Window - 1
  BY <1>3
<1>5. Cardinality(InWindow(more, key, w.start)) <= w.count + 1
  BY <1>2, <1>4
<1>6. \A i \in LetThrough(more, key) : \E s \in S : more[i].at \in s .. s + Window - 1
  BY <1>1, <1>3, <1>4 DEF SameOn
<1>7. \A s \in S : \E i \in LetThrough(more, key) : more[i].at = s
  BY <1>1, <1>3 DEF SameOn
<1>8. ASSUME NEW s \in S PROVE Cardinality(InWindow(more, key, s)) <= max
  <2>1. CASE s = w.start
    BY <2>1, <1>2, <1>4, <1>5
  <2>2. CASE s # w.start
    <3>1. now \notin s .. s + Window - 1
      BY <2>2, <1>3, <1>4
    <3> QED BY <3>1, <1>2, <1>3
  <2> QED BY <2>1, <2>2
<1> QED BY <1>3, <1>5, <1>6, <1>7, <1>8 DEF Divided, more

LEMMA OpensWindow ==
    ASSUME NEW h, History(h), NEW p, NEW key, Lets(p, key), p.at = now, now \in Nat,
           NEW S, NEW max \in Int, Divided(h, key, S, max), Window \in Int, Window > 0, max >= 1,
           \A s \in S : s + Window <= now
    PROVE  /\ Divided(Append(h, p), key, S \cup {now}, max)
           /\ Cardinality(InWindow(Append(h, p), key, now)) <= 1
<1> DEFINE more == Append(h, p)
           n == Len(h) + 1
<1>1. /\ LetThrough(more, key) = LetThrough(h, key) \cup {n}
      /\ SameOn(LetThrough(h, key), h, more)
      /\ more[n] = p
  BY LetThroughGrows DEF History
<1>2. ASSUME NEW s
      PROVE  /\ IsFiniteSet(InWindow(h, key, s)) /\ Cardinality(InWindow(h, key, s)) \in Nat
             /\ now \notin s .. s + Window - 1 => InWindow(more, key, s) = InWindow(h, key, s)
             /\ now \in s .. s + Window - 1 => Cardinality(InWindow(more, key, s)) = Cardinality(InWindow(h, key, s)) + 1
  BY OwnPassage DEF History
<1> HIDE DEF more, n
<1>3. /\ S \in SUBSET Nat
      /\ \A s, t \in S : s < t => s + Window <= t
      /\ \A i \in LetThrough(h, key) : \E s \in S : h[i].at \in s .. s + Window - 1
      /\ \A s \in S : /\ \E i \in LetThrough(h, key) : h[i].at = s
                      /\ Cardinality(InWindow(h, key, s)) <= max
  BY DEF Divided
<1> DEFINE T == S \cup {now}
<1>4. T \in SUBSET Nat /\ \A s, t \in T : s < t => s + Window <= t
  BY <1>3
<1>5. \A i \in LetThrough(more, key) : \E s \in T : more[i].at \in s .. s + Window - 1
  BY <1>1, <1>3 DEF SameOn
<1>6. \A s \in T : \E i \in LetThrough(more, key) : more[i].at = s
  BY <1>1, <1>3 DEF SameOn
<1>7. Cardinality(InWindow(more, key, now)) <= 1
  <2>1. ASSUME NEW i \in LetThrough(h, key), h[i].at \in now .. now + Window - 1 PROVE FALSE
    <3>1. PICK s \in S : h[i].at \in s .. s + Window - 1
      BY <1>3
    <3>2. s + Window <= now /\ s \in Nat
      BY <1>3
    <3> QED BY <2>1, <3>1, <3>2
  <2>2. InWindow(h, key, now) = {}
    BY <2>1 DEF InWindow
  <2>3. now \in now .. now + Window - 1
    OBVIOUS
  <2> QED BY <1>2, <2>2, <2>3, FS_EmptySet
<1>8. ASSUME NEW s \in T PROVE Cardinality(InWindow(more, key, s)) <= max
  <2>1. CASE s = now
    <3>1. Cardinality(InWindow(more, key, now)) \in Nat
      BY <1>2
    <3> QED BY <2>1, <3>1, <1>7
  <2>2. CASE s \in S
    <3>1. now \notin s .. s + Window - 1
      BY <2>2, <1>3
    <3> QED BY <2>2, <3>1, <1>2, <1>3
  <2> QED BY <2>1, <2>2
<1> QED BY <1>4, <1>5, <1>6, <1>7, <1>8 DEF Divided, more

LEMMA AppendedSame ==
    ASSUME NEW s, IsSeq(s), NEW x
    PROVE  DOMAIN s \in SUBSET DOMAIN Append(s, x) /\ SameOn(DOMAIN s, s, Append(s, x))
<1>1. DOMAIN s \in SUBSET DOMAIN Append(s, x)
  BY Appended
<1>2. \A i \in DOMAIN s : Append(s, x)[i] = s[i]
  BY Appended
<1> QED BY <1>1, <1>2 DEF SameOn

LEMMA HistoryGrows ==
    ASSUME NEW h, History(h), NEW p, p.at = now, now \in Nat, p.admitted \in BOOLEAN
    PROVE  History(Append(h, p))
<1> DEFINE more == Append(h, p)
<1>1. /\ IsSeq(more) /\ DOMAIN more = DOMAIN h \cup {Len(h) + 1}
      /\ SameOn(DOMAIN h, h, more) /\ more[Len(h) + 1] = p
  BY Appended DEF History, SameOn
<1> HIDE DEF more
<1>2. History(more)
  BY <1>1 DEF History, SameOn
<1> QED BY <1>2 DEF more

\* The limiter's entry for the caller after a request that reaches it.
LEMMA EntryCounted ==
    ASSUME NEW key, now \in Nat
    PROVE  /\ key \in DOMAIN windows /\ windows[key] \in [start : 0 .. now, count : Nat] /\ now - windows[key].start < Window
                => Counted(key) = [start |-> windows[key].start, count |-> windows[key].count + 1]
           /\ key \in DOMAIN windows /\ now - windows[key].start >= Window => Counted(key) = [start |-> now, count |-> 1]
           /\ key \notin DOMAIN windows /\ now \in Nat /\ Window \in Int /\ Window > 0
                => Counted(key) = [start |-> now, count |-> 1]
<1> DEFINE w == windows[key]
<1>1. ASSUME key \in DOMAIN windows PROVE Counted(key) = CountOne(w)
  BY <1>1 DEF Counted
<1>2. ASSUME key \in DOMAIN windows, w \in [start : 0 .. now, count : Nat], now - w.start < Window
      PROVE  Counted(key) = [start |-> w.start, count |-> w.count + 1]
  <2> HIDE DEF w
  <2>1. CountOne(w) = [w EXCEPT !.count = @ + 1]
    BY <1>2, LimiterAssumption DEF CountOne
  <2>2. [w EXCEPT !.count = @ + 1] = [start |-> w.start, count |-> w.count + 1]
    BY <1>2
  <2> QED BY <1>1, <1>2, <2>1, <2>2
<1>3. ASSUME key \in DOMAIN windows, now - w.start >= Window
      PROVE  Counted(key) = [start |-> now, count |-> 1]
  <2> HIDE DEF w
  <2> QED BY <1>1, <1>3 DEF CountOne
<1>4. ASSUME key \notin DOMAIN windows, now \in Nat, Window \in Int, Window > 0
      PROVE  Counted(key) = [start |-> now, count |-> 1]
  BY <1>4 DEF Counted, CountOne
<1> QED BY <1>2, <1>3, <1>4

LEMMA LimiterStep ==
    ASSUME Core, Throttling, LimiterOn, restarts = 0,
           NEW caller, NEW call, Receive(caller, call), NEW key
    PROVE  \E S : Divided(Passages', key, S, MaxRequests) /\ Counts(Passages', key, S, windows', now')
<1> DEFINE p == [key |-> RateKey(caller), at |-> now, admitted |-> Verdict(caller, call) = 200]
           h == Passages
           max == MaxRequests
<1>1. /\ Passages' = Append(h, p) /\ now' = now
      /\ windows' = IF Reaches(caller, call) THEN Put(windows, RateKey(caller), Counted(RateKey(caller))) ELSE windows
  BY PassageAdded DEF Receive
<1>2. /\ History(h) /\ IsSeq(h) /\ now \in Nat /\ max \in Int /\ max > 0 /\ Window \in Int /\ Window > 0
      /\ p.at = now
      /\ Lets(p, key) <=> RateKey(caller) = key /\ Verdict(caller, call) = 200
  BY LimiterAssumption DEF Throttling, History, Core, LimiterOn, MaxRequests, Lets
<1>3. PICK S : Divided(h, key, S, max) /\ Counts(h, key, S, windows, now)
  BY DEF Throttling
<1> HIDE DEF p, h, max
<1>4. CASE ~(key = RateKey(caller) /\ Reaches(caller, call))
  <2>1. (key \in DOMAIN windows' <=> key \in DOMAIN windows) /\ (key \in DOMAIN windows => windows'[key] = windows[key])
    BY <1>1, <1>4 DEF Put
  <2>2. ~Lets(p, key)
    BY <1>2, <1>4 DEF Reaches, Verdict
  <2>3. Divided(Append(h, p), key, S, max) /\ \A s : InWindow(Append(h, p), key, s) = InWindow(h, key, s)
    BY <1>2, <1>3, <2>2, OthersPassage
  <2>4. Counts(Append(h, p), key, S, windows', now')
    BY <1>1, <1>3, <2>1, <2>3 DEF Counts
  <2> QED BY <1>1, <2>3, <2>4 DEF max
<1>5. CASE key = RateKey(caller) /\ Reaches(caller, call)
  <2>1. key \in DOMAIN windows' /\ windows'[key] = Counted(key)
    BY <1>1, <1>5 DEF Put
  <2>2. Lets(p, key) <=> ~(Counted(key).count > max)
    BY <1>2, <1>5 DEF Reaches, Verdict, max
  <2>3. CASE key \in DOMAIN windows /\ now - windows[key].start < Window
    <3> DEFINE w == windows[key]
    <3>1. /\ w \in [start : 0 .. now, count : Nat] /\ w.start \in S
          /\ \A s \in S : s <= w.start
          /\ Cardinality(InWindow(h, key, w.start)) <= w.count
      BY <1>3, <2>3 DEF Counts
    <3>2. Counted(key) = [start |-> w.start, count |-> w.count + 1]
      BY <1>2, <2>3, <3>1, EntryCounted
    <3> HIDE DEF w
    <3>3. Divided(Append(h, p), key, S, max) /\ Cardinality(InWindow(Append(h, p), key, w.start)) <= w.count + 1
      <4>1. CASE Lets(p, key)
        <5>1. w.count + 1 <= max
          BY <4>1, <2>2, <3>1, <3>2, <1>2
        <5> QED BY <4>1, <5>1, <1>2, <1>3, <2>3, <3>1, CountedIn DEF w
      <4>2. CASE ~Lets(p, key)
        <5>1. /\ Divided(Append(h, p), key, S, max)
              /\ InWindow(Append(h, p), key, w.start) = InWindow(h, key, w.start)
          BY <4>2, <1>2, <1>3, OthersPassage
        <5>2. Cardinality(InWindow(h, key, w.start)) \in Int
          BY <1>2, LetThroughGrows, FS_Subset, FS_CardinalityType DEF InWindow
        <5> QED BY <5>1, <5>2, <3>1
      <4> QED BY <4>1, <4>2
    <3>4. Counts(Append(h, p), key, S, windows', now')
      BY <1>1, <2>1, <3>1, <3>2, <3>3 DEF Counts
    <3> QED BY <1>1, <3>3, <3>4 DEF max
  <2>4. CASE ~(key \in DOMAIN windows /\ now - windows[key].start < Window)
    <3>1. Counted(key) = [start |-> now, count |-> 1]
      <4>1. key \in DOMAIN windows => windows[key].start \in Int
        BY <1>3 DEF Counts
      <4> QED BY <4>1, <1>2, <2>4, EntryCounted
    <3>2. Lets(p, key)
      BY <3>1, <1>2, <2>2
    <3>3. \A s \in S : s + Window <= now
      <4>1. CASE key \in DOMAIN windows
        <5> DEFINE start == windows[key].start
        <5>1. start \in Int /\ \A s \in S : s <= start
          BY <1>3, <4>1 DEF Counts
        <5>2. S \in SUBSET Nat
          BY <1>3 DEF Divided
        <5>3. ~(now - start < Window)
          BY <4>1, <2>4
        <5> HIDE DEF start
        <5>4. start + Window <= now
          BY <5>1, <5>3, <1>2
        <5> QED BY <5>1, <5>2, <5>4, <1>2
      <4>2. CASE key \notin DOMAIN windows
        BY <4>2, <1>3 DEF Counts
      <4> QED BY <4>1, <4>2
    <3>4. /\ Divided(Append(h, p), key, S \cup {now}, max)
          /\ Cardinality(InWindow(Append(h, p), key, now)) <= 1
      <4>1. max >= 1
        BY <1>2
      <4> QED BY <1>2, <1>3, <3>2, <3>3, <4>1, OpensWindow, Zenon
    <3>5. \A s \in S \cup {now} : s <= now
      BY <1>2, <1>3, <3>3 DEF Divided
    <3>6. Counts(Append(h, p), key, S \cup {now}, windows', now')
      BY <1>1, <1>2, <2>1, <3>1, <3>4, <3>5 DEF Counts
    <3> QED BY <1>1, <3>4, <3>6 DEF max
  <2> QED BY <2>3, <2>4
<1> QED BY <1>4, <1>5

\* An interval of a window's length meets two windows at most, and not the
\* request that opened the first of two.
LEMMA AnyInterval ==
    ASSUME NEW h, History(h), NEW key, NEW S, NEW max \in Int, max > 0, Window \in Int, Window > 0,
           Divided(h, key, S, max), NEW from \in Int
    PROVE  Cardinality(InWindow(h, key, from)) <= 2 * max - 1
<1> DEFINE A == InWindow(h, key, from)
           In(s) == InWindow(h, key, s)
<1>1. /\ S \in SUBSET Nat
      /\ \A s, t \in S : s < t => s + Window <= t
      /\ \A i \in LetThrough(h, key) : \E s \in S : h[i].at \in s .. s + Window - 1
      /\ \A s \in S : /\ \E i \in LetThrough(h, key) : h[i].at = s
                      /\ Cardinality(In(s)) <= max
  BY DEF Divided
<1>2. \A i \in LetThrough(h, key) : h[i].at \in Int
  BY DEF LetThrough, History
<1>3. IsFiniteSet(LetThrough(h, key))
  BY LetThroughGrows DEF History
<1>4. \A s : IsFiniteSet(In(s)) /\ Cardinality(In(s)) \in Nat
  BY <1>3, FS_Subset, FS_CardinalityType DEF InWindow
<1>5. CASE \E s \in S : A \in SUBSET In(s)
  <2>1. PICK s \in S : A \in SUBSET In(s)
    BY <1>5
  <2> HIDE DEF A, In
  <2>2. Cardinality(A) <= Cardinality(In(s)) /\ Cardinality(A) \in Nat
    BY <2>1, <1>4, FS_Subset, FS_CardinalityType
  <2> QED BY <1>1, <1>4, <2>2 DEF A
<1>6. CASE A = {}
  BY <1>6, FS_EmptySet
<1>7. CASE A # {} /\ \A s \in S : ~(A \in SUBSET In(s))
  <2>1. PICK i \in A : TRUE
    BY <1>7
  <2>2. PICK s0 \in S : h[i].at \in s0 .. s0 + Window - 1
    BY <1>1, <2>1 DEF InWindow
  <2>3. PICK j \in A : j \notin In(s0)
    BY <1>7
  <2>4. PICK t0 \in S : h[j].at \in t0 .. t0 + Window - 1
    BY <1>1, <2>3 DEF InWindow
  <2>5. s0 # t0
    BY <2>3, <2>4 DEF InWindow
  <2>6. \E s, t \in S : /\ s < t
                        /\ \E a, b \in A : h[a].at \in s .. s + Window - 1 /\ h[b].at \in t .. t + Window - 1
    BY <1>1, <2>1, <2>2, <2>3, <2>4, <2>5
  <2>7. PICK s \in S, t \in S : /\ s < t
                                /\ \E a, b \in A : h[a].at \in s .. s + Window - 1 /\ h[b].at \in t .. t + Window - 1
    BY <2>6
  <2>8. /\ s \in Nat /\ t \in Nat /\ s + Window <= t
        /\ s + Window - 1 >= from /\ t <= from + Window - 1 /\ s < from
    BY <1>1, <1>2, <2>7 DEF InWindow
  <2>9. A \in SUBSET (In(s) \cup In(t))
    <3>1. ASSUME NEW k \in A PROVE k \in In(s) \cup In(t)
      <4>1. PICK u \in S : h[k].at \in u .. u + Window - 1
        BY <1>1 DEF InWindow
      <4>2. u \in Nat /\ h[k].at \in from .. from + Window - 1
        BY <1>1 DEF InWindow
      <4>3. u = s \/ u = t
        BY <1>1, <2>8, <4>1, <4>2
      <4> QED BY <4>1, <4>3 DEF InWindow
    <3> QED BY <3>1
  <2>10. PICK o \in LetThrough(h, key) : h[o].at = s
    BY <1>1
  <2>11. o \in In(s) /\ o \notin A
    BY <2>8, <2>10 DEF InWindow
  <2> DEFINE B == In(s) \ {o}
  <2>12. A \in SUBSET (B \cup In(t))
    BY <2>9, <2>11
  <2> HIDE DEF A, In
  <2>13. IsFiniteSet(B) /\ Cardinality(B) = Cardinality(In(s)) - 1 /\ Cardinality(B) \in Nat
    BY <1>4, <2>11, FS_RemoveElement, FS_CardinalityType
  <2> HIDE DEF B
  <2>14. /\ IsFiniteSet(B \cup In(t))
         /\ Cardinality(B \cup In(t)) <= Cardinality(B) + Cardinality(In(t))
    <3>1. /\ IsFiniteSet(B \cup In(t)) /\ IsFiniteSet(B \cap In(t))
          /\ Cardinality(B \cup In(t)) = Cardinality(B) + Cardinality(In(t)) - Cardinality(B \cap In(t))
      BY <1>4, <2>13, FS_Union, FS_Subset
    <3>2. Cardinality(B \cap In(t)) \in Nat
      BY <3>1, FS_CardinalityType
    <3> QED BY <1>4, <2>13, <3>1, <3>2
  <2>15. Cardinality(A) <= Cardinality(B \cup In(t)) /\ Cardinality(A) \in Nat /\ Cardinality(B \cup In(t)) \in Nat
    BY <2>12, <2>14, FS_Subset, FS_CardinalityType
  <2>16. Cardinality(In(s)) <= max /\ Cardinality(In(t)) <= max /\ Cardinality(In(s)) \in Nat /\ Cardinality(In(t)) \in Nat
    BY <1>1, <1>4
  <2> QED BY <2>13, <2>14, <2>15, <2>16 DEF A
<1> QED BY <1>5, <1>6, <1>7

LEMMA ThrottlingHolds == Spec => []Throttling
<1>1. Init => Throttling
  <2> SUFFICES ASSUME Init PROVE Throttling
    OBVIOUS
  <2>1. Passages = <<>> /\ DOMAIN windows = {}
    BY DEF Init, Passages, Answered, Empty
  <2>2. IsSeq(<<>>)
    BY EmptySeq DEF IsSeq
  <2>3. \A key : LetThrough(<<>>, key) = {}
    BY DEF LetThrough
  <2>4. \A key : Divided(<<>>, key, {}, MaxRequests) /\ Counts(<<>>, key, {}, windows, now)
    BY <2>1, <2>3 DEF Divided, Counts
  <2> QED BY <2>1, <2>2, <2>4 DEF Throttling, History
<1>2. Core /\ Throttling /\ [Next]_vars => Throttling'
  <2> SUFFICES ASSUME Core, Throttling, [Next]_vars PROVE Throttling'
    OBVIOUS
  <2>1. /\ LimiterOn' = LimiterOn /\ MaxRequests' = MaxRequests
        /\ Beside \/ Advances \/ Answers \/ Receives \/ Restart
    BY StepShapes DEF LimiterOn, MaxRequests
  <2>2. CASE Beside \/ Advances \/ Answers
    <3>1. Passages' = Passages /\ windows' = windows /\ restarts' = restarts
      BY <2>2, PassagesKept DEF Beside, Advances, Answers
    <3>2. now \in Nat /\ now' \in Nat /\ now' >= now
      BY <2>2 DEF Core, Beside, Advances, Answers
    <3>3. History(Passages)'
      BY <3>1, <3>2 DEF Throttling, History
    <3>4. \A key, S : Counts(Passages, key, S, windows, now) => Counts(Passages, key, S, windows, now')
      BY <3>2 DEF Counts
    <3> QED BY <2>1, <3>1, <3>3, <3>4 DEF Throttling
  <2>3. CASE Receives
    <3>1. PICK caller, call : Receive(caller, call)
      BY <2>3 DEF Receives
    <3> DEFINE p == [key |-> RateKey(caller), at |-> now, admitted |-> Verdict(caller, call) = 200]
    <3>2. Passages' = Append(Passages, p) /\ now' = now /\ restarts' = restarts
      BY <3>1, PassageAdded DEF Receive
    <3>3. History(Append(Passages, p))
      <4>1. p.at = now /\ p.admitted \in BOOLEAN /\ now \in Nat /\ History(Passages)
        BY DEF Core, Throttling
      <4> HIDE DEF p
      <4> QED BY <4>1, HistoryGrows
    <3>4. History(Passages)'
      BY <3>2, <3>3 DEF History
    <3>5. LimiterOn /\ restarts = 0 =>
            \A key : \E S : Divided(Passages', key, S, MaxRequests) /\ Counts(Passages', key, S, windows', now')
      BY <3>1, LimiterStep
    <3> QED BY <2>1, <3>2, <3>4, <3>5 DEF Throttling
  <2>4. CASE Restart
    <3>1. restarts' # 0 /\ Passages' = Answered /\ now' = now /\ Passages = Append(Answered, Passage(req, TRUE))
      <4>1. req # Idle /\ req' = Idle /\ replies' = replies /\ now' = now
        BY <2>4 DEF Restart
      <4>2. Passages' = Answered
        BY <4>1 DEF Passages, Answered
      <4>3. restarts' # 0
        BY <2>4 DEF Restart, Core
      <4> QED BY <4>1, <4>2, <4>3 DEF Passages
    <3>2. IsSeq(Answered) /\ DOMAIN Answered \in SUBSET DOMAIN Passages /\ SameOn(DOMAIN Answered, Answered, Passages)
      BY <3>1, AnsweredSeq, AppendedSame
    <3>3. History(Answered)
      BY <3>2 DEF History, Throttling, SameOn
    <3>4. History(Passages)'
      BY <3>1, <3>3 DEF History
    <3> QED BY <3>1, <3>4 DEF Throttling
  <2> QED BY <2>1, <2>2, <2>3, <2>4
<1> QED BY <1>1, <1>2, CoreHolds, PTL DEF Spec

(* However callers time their requests, none is let through more than      *)
(* 2 * MaxRequests - 1 times in an interval of the window's length, while  *)
(* the service lives (FixedWindowRateLimiter.check).                       *)
THEOREM ThrottleIsHeld == Spec => []ThrottleHolds
<1>1. Core /\ Throttling => ThrottleHolds
  <2> SUFFICES ASSUME Core, Throttling, LimiterOn, restarts = 0, NEW key, NEW from \in 0 .. now
               PROVE  Cardinality(Admitted(key, from)) <= 2 * MaxRequests - 1
    BY DEF ThrottleHolds
  <2> DEFINE h == Passages
  <2>1. PICK S : Divided(h, key, S, MaxRequests)
    BY DEF Throttling
  <2>2. /\ History(h) /\ MaxRequests \in Int /\ MaxRequests > 0 /\ Window \in Int /\ Window > 0 /\ from \in Int
    BY LimiterAssumption DEF Throttling, Core, LimiterOn, MaxRequests
  <2>3. DOMAIN replies \in SUBSET DOMAIN h /\ \A i \in DOMAIN replies : h[i] = Passage(replies[i], replies[i].admitted)
    <3>1. CASE req = Idle
      BY <3>1 DEF Passages, Answered
    <3>2. CASE req # Idle
      <4>1. DOMAIN Answered \in SUBSET DOMAIN h /\ \A i \in DOMAIN Answered : h[i] = Answered[i]
        <5>1. h = Append(Answered, Passage(req, TRUE))
          BY <3>2 DEF Passages
        <5>2. DOMAIN Answered \in SUBSET DOMAIN h /\ SameOn(DOMAIN Answered, Answered, h)
          BY <5>1, AnsweredSeq, AppendedSame
        <5> QED BY <5>2 DEF SameOn
      <4> QED BY <4>1, AnsweredSeq DEF Answered
    <3> QED BY <3>1, <3>2
  <2> HIDE DEF h
  <2>4. Admitted(key, from) \in SUBSET InWindow(h, key, from)
    <3>1. ASSUME NEW i \in Admitted(key, from) PROVE i \in InWindow(h, key, from)
      <4>1. i \in DOMAIN h /\ h[i] = Passage(replies[i], replies[i].admitted)
        BY <2>3 DEF Admitted
      <4>2. /\ h[i].key = replies[i].key /\ h[i].at = replies[i].at /\ h[i].admitted = replies[i].admitted
            /\ h[i].admitted \in BOOLEAN
        BY <2>2, <4>1 DEF Passage, History
      <4>3. replies[i].key = key /\ replies[i].admitted /\ replies[i].at \in from .. from + Window - 1
        BY Zenon DEF Admitted
      <4>4. h[i].admitted = TRUE
        BY <4>2, <4>3, Zenon
      <4> QED BY <4>1, <4>2, <4>3, <4>4 DEF InWindow, LetThrough, Lets
    <3> QED BY <3>1
  <2>5. IsFiniteSet(InWindow(h, key, from))
    BY <2>2, LetThroughGrows, FS_Subset DEF InWindow, History
  <2>6. /\ Cardinality(Admitted(key, from)) <= Cardinality(InWindow(h, key, from))
        /\ Cardinality(Admitted(key, from)) \in Nat /\ Cardinality(InWindow(h, key, from)) \in Nat
    BY <2>4, <2>5, FS_Subset, FS_CardinalityType
  <2> QED BY <2>1, <2>2, <2>6, AnyInterval
<1> QED BY <1>1, CoreHolds, ThrottlingHolds, PTL

-----------------------------------------------------------------------------
(* The writers and the store                                               *)

JobAt(w, j) == setup.jobs[w][j]
Jobs(w) == DOMAIN setup.jobs[w]
Files(w, j) == DOMAIN JobAt(w, j).files
KeyOf(w, j, file) == Key(JobAt(w, j).dir, JobAt(w, j).run, file)
PathOf(w, j, i) == KeyOf(w, j, JobAt(w, j).files[i])
MarkerOf(w, j) == KeyOf(w, j, Marker)
Writers == DOMAIN setup.jobs
Content == [attempt : Nat, whole : BOOLEAN]
WriterState == [job : Nat \ {0}, file : Nat \ {0}, attempt : Nat, open : BOOLEAN, crashes : Nat]

\* The parts of the invariant, of a store st and the writers' states wr.
WritersTyped(wr) ==
    /\ DOMAIN wr = Writers
    /\ \A w \in Writers : /\ wr[w] \in WriterState
                          /\ wr[w].job \in Jobs(w) /\ wr[w].open => wr[w].file \in Files(w, wr[w].job)
StoreTyped(st) ==
    /\ IsFiniteSet(DOMAIN st)
    /\ \A k \in DOMAIN st :
        /\ st[k] \in Content
        /\ \E w \in Writers : \E j \in Jobs(w) :
                \E f \in Range(JobAt(w, j).files) \cup {Marker} : k = KeyOf(w, j, f)
\* On a filesystem a file is opened once.
Unopened(st, wr) ==
    ~ObjectStore =>
        \A w \in Writers : \A j \in Jobs(w) : \A i \in Files(w, j) :
            j > wr[w].job \/ (j = wr[w].job /\ (i > wr[w].file \/ (i = wr[w].file /\ ~wr[w].open)))
            => PathOf(w, j, i) \notin DOMAIN st
Unpublished(st, wr) ==
    \A w \in Writers : \A j \in Jobs(w) : j >= wr[w].job => MarkerOf(w, j) \notin DOMAIN st
WrittenWhole(st, wr) ==
    \A w \in Writers : \A j \in Jobs(w) : \A i \in Files(w, j) :
        \/ j = wr[w].job /\ i < wr[w].file
        \/ j < wr[w].job /\ MarkerOf(w, j) \in DOMAIN st
        => PathOf(w, j, i) \in DOMAIN st /\ st[PathOf(w, j, i)].whole
OpenedThere(st, wr) ==
    \A w \in Writers : wr[w].job \in Jobs(w) /\ wr[w].open => PathOf(w, wr[w].job, wr[w].file) \in DOMAIN st
WritingOf(st, wr) ==
    /\ setup \in Setups /\ OpenedThere(st, wr)
    /\ WritersTyped(wr) /\ StoreTyped(st) /\ Unopened(st, wr) /\ Unpublished(st, wr) /\ WrittenWhole(st, wr)
Writing == WritingOf(store, writer)

LEMMA WritingNext ==
    ASSUME setup' = setup, WritingOf(store', writer')
    PROVE  Writing'
BY DEF Writing, WritingOf, WritersTyped, StoreTyped, Unopened, Unpublished, WrittenWhole, OpenedThere, Writers, ObjectStore,
       Jobs, Files, JobAt, MarkerOf, KeyOf, PathOf

LEMMA JobFacts ==
    ASSUME setup \in Setups, NEW w \in Writers
    PROVE  /\ Len(setup.jobs[w]) \in Nat /\ Jobs(w) = 1 .. Len(setup.jobs[w])
           /\ \A j \in Jobs(w) :
                /\ JobShape(JobAt(w, j))
                /\ Files(w, j) = 1 .. Len(JobAt(w, j).files) /\ Len(JobAt(w, j).files) \in Nat
                /\ \A i \in Files(w, j) : JobAt(w, j).files[i] # Marker /\ JobAt(w, j).files[i] \in Range(JobAt(w, j).files)
                /\ \A i, n \in Files(w, j) : JobAt(w, j).files[i] = JobAt(w, j).files[n] => i = n
<1>1. /\ Len(setup.jobs[w]) \in Nat /\ Jobs(w) = 1 .. Len(setup.jobs[w])
      /\ \A j \in Jobs(w) : JobShape(JobAt(w, j))
  BY JobsAssumption DEF Jobs, JobAt, Writers
<1>2. ASSUME NEW job, JobShape(job)
      PROVE  /\ DOMAIN job.files = 1 .. Len(job.files) /\ Len(job.files) \in Nat
             /\ \A i \in DOMAIN job.files : job.files[i] # Marker /\ job.files[i] \in Range(job.files)
             /\ \A i, n \in DOMAIN job.files : job.files[i] = job.files[n] => i = n
  <2>1. job.files \in Seq(Range(job.files)) /\ IsInjective(job.files) /\ Marker \notin Range(job.files)
    BY <1>2 DEF JobShape
  <2>2. \A i \in DOMAIN job.files : job.files[i] \in Range(job.files)
    BY DEF Range
  <2> QED BY <2>1, <2>2, LenProperties DEF IsInjective
<1> QED BY <1>1, <1>2 DEF Files

LEMMA LongKey ==
    ASSUME NEW m, NEW n, NEW o, NEW r, NEW f
    PROVE  Key(<<m, n, o>>, r, f) = <<m, n, o, r, f>>
<1> DEFINE S == {m, n, o, r, f}
           s == <<m, n, o>>
           t == <<r, f>>
           u == <<m, n, o, r, f>>
<1>1. s \in Seq(S) /\ t \in Seq(S) /\ u \in Seq(S) /\ Len(u) = 5 /\ Len(s) = 3 /\ Len(t) = 2
  OBVIOUS
<1>2. s \o t \in Seq(S) /\ Len(s \o t) = 5
      /\ \A i \in 1 .. 5 : (s \o t)[i] = IF i <= 3 THEN s[i] ELSE t[i - 3]
  <2> HIDE DEF S, s, t, u
  <2>1. s \o t \in Seq(S) /\ Len(s \o t) = Len(s) + Len(t)
    BY <1>1, ConcatProperties
  <2>2. \A i \in 1 .. Len(s) + Len(t) : (s \o t)[i] = IF i <= Len(s) THEN s[i] ELSE t[i - Len(s)]
    BY <1>1, ConcatProperties
  <2> QED BY <1>1, <2>1, <2>2
<1>3. \A i \in 1 .. 5 : u[i] = IF i <= 3 THEN s[i] ELSE t[i - 3]
  OBVIOUS
<1> HIDE DEF S, s, t, u
<1>4. s \o t = u
  <2>1. Len(s \o t) = Len(u) /\ \A i \in 1 .. Len(s \o t) : (s \o t)[i] = u[i]
    BY <1>1, <1>2, <1>3
  <2> QED BY <1>1, <1>2, <2>1, SeqEqual
<1> QED BY <1>4 DEF Key, s, t, u

LEMMA KeyShape ==
    ASSUME NEW job, JobShape(job), NEW f
    PROVE  \/ job.dir = <<job.dir[1]>> /\ Key(job.dir, job.run, f) = <<job.dir[1], job.run, f>>
           \/ /\ job.dir = <<"plan-rolling", job.dir[2], "revisions">>
              /\ Key(job.dir, job.run, f) = <<"plan-rolling", job.dir[2], "revisions", job.run, f>>
<1>1. ASSUME NEW m, NEW r PROVE <<m>> \o <<r, f>> = <<m, r, f>>
  <2> DEFINE S == {m, r, f}
             s == <<m>>
             t == <<r, f>>
             u == <<m, r, f>>
  <2>1. s \in Seq(S) /\ t \in Seq(S) /\ u \in Seq(S) /\ Len(u) = 3 /\ Len(s) = 1 /\ Len(t) = 2
    OBVIOUS
  <2>2. s \o t \in Seq(S) /\ Len(s \o t) = 3
        /\ \A i \in 1 .. 3 : (s \o t)[i] = IF i <= 1 THEN s[i] ELSE t[i - 1]
    <3> HIDE DEF S, s, t, u
    <3>1. s \o t \in Seq(S) /\ Len(s \o t) = Len(s) + Len(t)
      BY <2>1, ConcatProperties
    <3>2. \A i \in 1 .. Len(s) + Len(t) : (s \o t)[i] = IF i <= Len(s) THEN s[i] ELSE t[i - Len(s)]
      BY <2>1, ConcatProperties
    <3> QED BY <2>1, <3>1, <3>2
  <2>3. \A i \in 1 .. 3 : u[i] = IF i <= 1 THEN s[i] ELSE t[i - 1]
    OBVIOUS
  <2> HIDE DEF S, s, t, u
  <2>4. s \o t = u
    <3>1. Len(s \o t) = Len(u) /\ \A i \in 1 .. Len(s \o t) : (s \o t)[i] = u[i]
      BY <2>1, <2>2, <2>3
    <3> QED BY <2>1, <2>2, <3>1, SeqEqual
  <2> QED BY <2>4 DEF s, t, u
<1>2. \A m, n, o, r : Key(<<m, n, o>>, r, f) = <<m, n, o, r, f>>
  BY LongKey
<1>3. job.dir = <<job.dir[1]>> \/ job.dir = <<"plan-rolling", job.dir[2], "revisions">>
  BY DEF JobShape
<1> DEFINE d == job.dir
           one == d[1]
           two == d[2]
<1> HIDE DEF d, one, two
<1>4. d = <<one>> \/ d = <<"plan-rolling", two, "revisions">>
  BY <1>3 DEF d, one, two
<1>5. \/ d = <<one>> /\ Key(d, job.run, f) = <<one, job.run, f>>
      \/ d = <<"plan-rolling", two, "revisions">> /\ Key(d, job.run, f) = <<"plan-rolling", two, "revisions", job.run, f>>
  BY <1>1, <1>2, <1>4 DEF Key
<1> QED BY <1>5 DEF d, one, two

\* A directory has one of two lengths, and so have the keys in it.
LEMMA KeyShapes ==
    ASSUME NEW job, JobShape(job)
    PROVE  \/ /\ Len(job.dir) = 1
              /\ \A f : Key(job.dir, job.run, f) = <<job.dir[1], job.run, f>>
           \/ /\ Len(job.dir) = 3
              /\ \A f : Key(job.dir, job.run, f) = <<"plan-rolling", job.dir[2], "revisions", job.run, f>>
<1> DEFINE d == job.dir
           one == d[1]
           two == d[2]
<1>1. \A f : \/ d = <<one>> /\ Key(d, job.run, f) = <<one, job.run, f>>
             \/ d = <<"plan-rolling", two, "revisions">> /\ Key(d, job.run, f) = <<"plan-rolling", two, "revisions", job.run, f>>
  BY KeyShape
<1> HIDE DEF d, one, two
<1>2. (d = <<one>> => Len(d) = 1) /\ (d = <<"plan-rolling", two, "revisions">> => Len(d) = 3)
  OBVIOUS
<1>3. CASE d = <<one>>
  BY <1>1, <1>2, <1>3 DEF d, one, two
<1>4. CASE d # <<one>>
  BY <1>1, <1>2, <1>4 DEF d, one, two
<1> QED BY <1>3, <1>4

LEMMA KeysDiffer ==
    ASSUME setup \in Setups, NEW v \in Writers, NEW w \in Writers, NEW i \in Jobs(v), NEW j \in Jobs(w),
           NEW f, NEW g, KeyOf(v, i, f) = KeyOf(w, j, g)
    PROVE  v = w /\ i = j /\ f = g
<1> DEFINE a == JobAt(v, i)
           b == JobAt(w, j)
<1>1. JobShape(a) /\ JobShape(b) /\ Key(a.dir, a.run, f) = Key(b.dir, b.run, g)
  BY JobFacts DEF KeyOf
<1>2. a.dir = b.dir /\ a.run = b.run => v = w /\ i = j
  BY JobsAssumption DEF JobAt, Jobs, Writers
<1> HIDE DEF a, b
<1>3. a.dir = b.dir /\ a.run = b.run /\ f = g
  BY <1>1, KeyShape
<1> QED BY <1>2, <1>3

WriterStep == \E w \in Writers : OpenFile(w) \/ FillFile(w) \/ Publish(w) \/ Crash(w)

LEMMA StoreQuiet ==
    ASSUME [Next]_vars, ~WriterStep
    PROVE  store' = store /\ writer' = writer
BY DEF Next, WriterStep, Writers, vars, Receive, ListPlans, ResolveRun, ResolveRevision, CheckExists, ReadJson,
       ResolveData, ResolveSchedule, Materialize, DataCopied, DetectFormat, DigestSource, DigestSchedule, LookUp,
       Evaluate, StoreAnswer, Tick, Restart, kept, evaluation

\* The file a writer has open is one of the run it works on.
LEMMA WriterAt ==
    ASSUME setup \in Setups, WritersTyped(writer), NEW w \in Writers, Busy(w)
    PROVE  /\ writer[w].job \in Jobs(w) /\ Job(w) = JobAt(w, writer[w].job)
           /\ Files(w, writer[w].job) = 1 .. Len(Job(w).files) /\ Len(Job(w).files) \in Nat
           /\ FileKey(w) = PathOf(w, writer[w].job, writer[w].file)
           /\ Key(Job(w).dir, Job(w).run, Marker) = MarkerOf(w, writer[w].job)
<1>1. Job(w) = JobAt(w, writer[w].job) /\ writer[w].job \in Nat \ {0} /\ writer[w].file \in Nat \ {0}
  BY DEF Job, JobAt, WritersTyped, WriterState
<1>2. Len(setup.jobs[w]) \in Nat /\ Jobs(w) = 1 .. Len(setup.jobs[w])
  BY JobFacts
<1>3. writer[w].job \in Jobs(w)
  BY <1>1, <1>2 DEF Busy
<1>4. Files(w, writer[w].job) = 1 .. Len(Job(w).files) /\ Len(Job(w).files) \in Nat
  BY <1>1, <1>3, JobFacts
<1>5. FileKey(w) = PathOf(w, writer[w].job, writer[w].file)
  BY <1>1 DEF FileKey, PathOf, KeyOf
<1>6. Key(Job(w).dir, Job(w).run, Marker) = MarkerOf(w, writer[w].job)
  BY <1>1 DEF MarkerOf, KeyOf
<1> QED BY <1>1, <1>3, <1>4, <1>5, <1>6

\* Distinct files, and markers, have keys of their own.
LEMMA PathsDiffer ==
    ASSUME setup \in Setups, NEW w \in Writers, NEW j \in Jobs(w), NEW i \in Files(w, j)
    PROVE  \A v \in Writers : \A l \in Jobs(v) :
                /\ MarkerOf(v, l) # PathOf(w, j, i)
                /\ \A n \in Files(v, l) : PathOf(v, l, n) = PathOf(w, j, i) => v = w /\ l = j /\ n = i
<1>1. SUFFICES ASSUME NEW v \in Writers, NEW l \in Jobs(v)
               PROVE  /\ MarkerOf(v, l) # PathOf(w, j, i)
                      /\ \A n \in Files(v, l) : PathOf(v, l, n) = PathOf(w, j, i) => v = w /\ l = j /\ n = i
  OBVIOUS
<1>2. MarkerOf(v, l) # PathOf(w, j, i)
  BY KeysDiffer, JobFacts DEF MarkerOf, PathOf
<1>3. ASSUME NEW n \in Files(v, l), PathOf(v, l, n) = PathOf(w, j, i) PROVE v = w /\ l = j /\ n = i
  <2>1. v = w /\ l = j /\ JobAt(v, l).files[n] = JobAt(w, j).files[i]
    BY <1>3, KeysDiffer DEF PathOf
  <2> QED BY <2>1, JobFacts
<1> QED BY <1>2, <1>3

\* A file is written: the keys of the others stay.
LEMMA StoreWritten ==
    ASSUME setup \in Setups, StoreTyped(store), NEW w \in Writers, NEW j \in Jobs(w),
           NEW f \in Range(JobAt(w, j).files) \cup {Marker}, NEW c \in Content
    PROVE  StoreTyped(Put(store, KeyOf(w, j, f), c))
<1> DEFINE st == Put(store, KeyOf(w, j, f), c)
           k0 == KeyOf(w, j, f)
<1>1. DOMAIN st = DOMAIN store \cup {k0} /\ st[k0] = c /\ \A k \in DOMAIN store : k # k0 => st[k] = store[k]
  BY DEF Put
<1>2. IsFiniteSet(DOMAIN st)
  BY <1>1, FS_AddElement DEF StoreTyped
<1> HIDE DEF st, k0
<1>3. \A k \in DOMAIN st : st[k] \in Content
  BY <1>1 DEF StoreTyped
<1>4. ASSUME NEW k \in DOMAIN st
      PROVE  \E v \in Writers : \E l \in Jobs(v) : \E g \in Range(JobAt(v, l).files) \cup {Marker} : k = KeyOf(v, l, g)
  BY <1>1 DEF StoreTyped, k0
<1> QED BY <1>2, <1>3, <1>4 DEF StoreTyped, st, k0

LEMMA OpenFileKeeps ==
    ASSUME Writing, NEW w \in Writers, OpenFile(w)
    PROVE  WritingOf(store', writer')
<1> DEFINE j0 == writer[w].job
           i0 == writer[w].file
           k0 == PathOf(w, j0, i0)
           c0 == [attempt |-> writer[w].attempt, whole |-> FALSE]
           st == store'
           wr == writer'
<1>1. setup \in Setups /\ WritersTyped(writer) /\ StoreTyped(store)
  BY DEF Writing, WritingOf
<1>2. /\ j0 \in Jobs(w) /\ i0 \in Files(w, j0) /\ ~writer[w].open /\ FileKey(w) = k0
  <2>1. Busy(w) /\ writer[w].file <= Len(Job(w).files) /\ ~writer[w].open
    BY DEF OpenFile
  <2>2. writer[w].file \in Nat \ {0}
    BY <1>1 DEF WritersTyped, WriterState
  <2> QED BY <1>1, <2>1, <2>2, WriterAt
<1>3. st = Put(store, k0, c0) /\ wr = [writer EXCEPT ![w].open = TRUE]
  BY <1>2 DEF OpenFile
<1>4. /\ DOMAIN wr = Writers
      /\ \A v \in Writers : wr[v].job = writer[v].job /\ wr[v].file = writer[v].file /\ wr[v] \in WriterState
      /\ \A v \in Writers : v # w => wr[v] = writer[v]
      /\ wr[w].open
  BY ZenonT(60), <1>1, <1>3 DEF WritersTyped, WriterState
<1>5. DOMAIN st = DOMAIN store \cup {k0} /\ st[k0] = c0 /\ \A k \in DOMAIN store : k # k0 => st[k] = store[k]
  BY <1>3 DEF Put
<1>6. StoreTyped(st)
  <2>1. c0 \in Content /\ JobAt(w, j0).files[i0] \in Range(JobAt(w, j0).files)
    BY <1>1, <1>2, JobFacts DEF WritersTyped, WriterState, Content
  <2> QED BY <1>1, <1>2, <1>3, <2>1, StoreWritten DEF PathOf
<1>7. \A v \in Writers : \A l \in Jobs(v) :
        /\ MarkerOf(v, l) # k0
        /\ \A n \in Files(v, l) : PathOf(v, l, n) = k0 => v = w /\ l = j0 /\ n = i0
  BY <1>1, <1>2, PathsDiffer
<1> HIDE DEF st, wr, k0, i0, j0
<1>8. WritersTyped(wr)
  BY <1>1, <1>2, <1>4 DEF WritersTyped, i0, j0
<1>9. Unopened(st, wr)
  <2> SUFFICES ASSUME ~ObjectStore, NEW v \in Writers, NEW l \in Jobs(v), NEW n \in Files(v, l),
                      l > wr[v].job \/ (l = wr[v].job /\ (n > wr[v].file \/ (n = wr[v].file /\ ~wr[v].open)))
               PROVE  PathOf(v, l, n) \notin DOMAIN st
    BY DEF Unopened
  <2>1. writer[v].job \in Nat /\ writer[v].file \in Nat /\ wr[v].job = writer[v].job /\ wr[v].file = writer[v].file
    BY <1>1, <1>4 DEF WritersTyped, WriterState
  <2>2. ~(v = w /\ l = j0 /\ n = i0)
    BY <1>4, <2>1 DEF i0, j0
  <2>3. PathOf(v, l, n) \notin DOMAIN store
    <3>1. v # w => wr[v].open = writer[v].open
      BY <1>4
    <3>2. v = w => ~writer[v].open
      BY <1>2
    <3> QED BY <2>1, <3>1, <3>2 DEF Writing, WritingOf, Unopened
  <2> QED BY <1>5, <1>7, <2>2, <2>3
<1>10. Unpublished(st, wr)
  BY <1>4, <1>5, <1>7 DEF Writing, WritingOf, Unpublished
<1>11. WrittenWhole(st, wr)
  <2> SUFFICES ASSUME NEW v \in Writers, NEW l \in Jobs(v), NEW n \in Files(v, l),
                      \/ l = wr[v].job /\ n < wr[v].file
                      \/ l < wr[v].job /\ MarkerOf(v, l) \in DOMAIN st
               PROVE  PathOf(v, l, n) \in DOMAIN st /\ st[PathOf(v, l, n)].whole
    BY DEF WrittenWhole
  <2>1. PathOf(v, l, n) \in DOMAIN store /\ store[PathOf(v, l, n)].whole
    BY <1>4, <1>5, <1>7 DEF Writing, WritingOf, WrittenWhole
  <2>2. PathOf(v, l, n) # k0
    <3>1. writer[w].job \in Nat /\ writer[w].file \in Nat
      BY <1>1 DEF WritersTyped, WriterState
    <3> QED BY <1>4, <1>7, <3>1 DEF i0, j0
  <2> QED BY <1>5, <2>1, <2>2
<1>12. OpenedThere(st, wr)
  BY <1>4, <1>5 DEF Writing, WritingOf, OpenedThere, k0, j0, i0
<1> QED BY <1>1, <1>6, <1>8, <1>9, <1>10, <1>11, <1>12 DEF WritingOf, st, wr

LEMMA FillFileKeeps ==
    ASSUME Writing, NEW w \in Writers, FillFile(w)
    PROVE  WritingOf(store', writer')
<1> DEFINE j0 == writer[w].job
           i0 == writer[w].file
           k0 == PathOf(w, j0, i0)
           st == store'
           wr == writer'
<1>1. setup \in Setups /\ WritersTyped(writer) /\ StoreTyped(store)
  BY DEF Writing, WritingOf
<1>2. /\ j0 \in Jobs(w) /\ i0 \in Files(w, j0) /\ writer[w].open /\ FileKey(w) = k0
  <2>1. Busy(w) /\ writer[w].open
    BY DEF FillFile
  <2> QED BY <1>1, <2>1, WriterAt DEF WritersTyped
<1>3. st = [store EXCEPT ![k0].whole = TRUE] /\ wr = [writer EXCEPT ![w].open = FALSE, ![w].file = @ + 1]
  BY <1>2 DEF FillFile
<1>4. /\ DOMAIN wr = Writers
      /\ \A v \in Writers : wr[v].job = writer[v].job /\ wr[v] \in WriterState
      /\ \A v \in Writers : v # w => wr[v] = writer[v]
      /\ wr[w].file = writer[w].file + 1 /\ ~wr[w].open
      /\ \A v \in Writers : writer[v].job \in Nat /\ writer[v].file \in Nat
  BY <1>1, <1>3 DEF WritersTyped, WriterState
<1>5. /\ DOMAIN st = DOMAIN store /\ k0 \in DOMAIN store /\ st[k0] = [store[k0] EXCEPT !.whole = TRUE]
      /\ \A k \in DOMAIN store : k # k0 => st[k] = store[k]
  <2>1. k0 \in DOMAIN store
    BY <1>2 DEF Writing, WritingOf, OpenedThere
  <2> QED BY <1>3, <2>1
<1>6. StoreTyped(st) /\ st[k0].whole
  <2>1. st[k0] \in Content /\ st[k0].whole
    BY <1>1, <1>5 DEF StoreTyped, Content
  <2> HIDE DEF st, k0
  <2> QED BY <1>1, <1>5, <2>1 DEF StoreTyped
<1>7. \A v \in Writers : \A l \in Jobs(v) : \A n \in Files(v, l) : PathOf(v, l, n) = k0 => v = w /\ l = j0 /\ n = i0
  BY <1>1, <1>2, PathsDiffer
<1> HIDE DEF st, wr, k0, i0, j0
<1>8. WritersTyped(wr)
  BY <1>1, <1>2, <1>4 DEF WritersTyped, i0, j0
<1>9. Unopened(st, wr)
  <2> SUFFICES ASSUME ~ObjectStore, NEW v \in Writers, NEW l \in Jobs(v), NEW n \in Files(v, l),
                      l > wr[v].job \/ (l = wr[v].job /\ (n > wr[v].file \/ (n = wr[v].file /\ ~wr[v].open)))
               PROVE  PathOf(v, l, n) \notin DOMAIN st
    BY DEF Unopened
  <2>1. n \in Nat
    BY <1>1, JobFacts
  <2>2. l > writer[v].job \/ (l = writer[v].job /\ (n > writer[v].file \/ (n = writer[v].file /\ ~writer[v].open)))
    BY <1>4, <2>1
  <2> QED BY <1>5, <2>2 DEF Writing, WritingOf, Unopened
<1>10. Unpublished(st, wr)
  BY <1>4, <1>5 DEF Writing, WritingOf, Unpublished
<1>11. WrittenWhole(st, wr)
  <2> SUFFICES ASSUME NEW v \in Writers, NEW l \in Jobs(v), NEW n \in Files(v, l),
                      \/ l = wr[v].job /\ n < wr[v].file
                      \/ l < wr[v].job /\ MarkerOf(v, l) \in DOMAIN st
               PROVE  PathOf(v, l, n) \in DOMAIN st /\ st[PathOf(v, l, n)].whole
    BY DEF WrittenWhole
  <2>1. CASE PathOf(v, l, n) = k0
    BY <2>1, <1>5, <1>6
  <2>2. CASE PathOf(v, l, n) # k0
    <3>1. n \in Nat
      BY <1>1, JobFacts
    <3>2. v = w /\ l = j0 => n # i0
      BY <2>2 DEF k0
    <3>3. \/ l = writer[v].job /\ n < writer[v].file
          \/ l < writer[v].job /\ MarkerOf(v, l) \in DOMAIN store
      BY <1>4, <1>5, <3>1, <3>2 DEF i0, j0
    <3>4. PathOf(v, l, n) \in DOMAIN store /\ store[PathOf(v, l, n)].whole
      BY <3>3 DEF Writing, WritingOf, WrittenWhole
    <3> QED BY <3>4, <2>2, <1>5
  <2> QED BY <2>1, <2>2
<1>12. OpenedThere(st, wr)
  BY <1>4, <1>5 DEF Writing, WritingOf, OpenedThere
<1> QED BY <1>1, <1>6, <1>8, <1>9, <1>10, <1>11, <1>12 DEF WritingOf, st, wr

LEMMA PublishKeeps ==
    ASSUME Writing, NEW w \in Writers, Publish(w)
    PROVE  WritingOf(store', writer')
<1> DEFINE j0 == writer[w].job
           k0 == MarkerOf(w, j0)
           c0 == [attempt |-> writer[w].attempt, whole |-> TRUE]
           st == store'
           wr == writer'
<1>1. setup \in Setups /\ WritersTyped(writer) /\ StoreTyped(store)
  BY DEF Writing, WritingOf
<1>2. /\ j0 \in Jobs(w) /\ Files(w, j0) = 1 .. Len(Job(w).files) /\ Len(Job(w).files) \in Nat
      /\ Key(Job(w).dir, Job(w).run, Marker) = k0 /\ writer[w].file > Len(Job(w).files)
  BY <1>1, WriterAt DEF Publish, Published
<1>3. st = (IF ObjectStore THEN Put(store, k0, c0) ELSE store) /\ wr = [writer EXCEPT ![w] = NextJob(w)]
  BY <1>2 DEF Publish
<1>4. /\ DOMAIN wr = Writers
      /\ \A v \in Writers : wr[v] \in WriterState
      /\ \A v \in Writers : v # w => wr[v] = writer[v]
      /\ wr[w].job = writer[w].job + 1 /\ ~wr[w].open /\ wr[w].file = 1
      /\ \A v \in Writers : writer[v].job \in Nat /\ writer[v].file \in Nat
  BY <1>1, <1>3 DEF WritersTyped, WriterState, NextJob
<1>5. /\ DOMAIN st \in SUBSET (DOMAIN store \cup {k0}) /\ DOMAIN store \in SUBSET DOMAIN st
      /\ \A k \in DOMAIN store : k # k0 => st[k] = store[k]
  BY <1>3 DEF Put
<1>6. StoreTyped(st)
  <2>1. c0 \in Content
    BY <1>1 DEF WritersTyped, WriterState, Content
  <2> QED BY <1>1, <1>2, <1>3, <2>1, StoreWritten DEF MarkerOf
<1>7. /\ \A v \in Writers : \A l \in Jobs(v) : \A n \in Files(v, l) : PathOf(v, l, n) # k0
      /\ \A v \in Writers : \A l \in Jobs(v) : MarkerOf(v, l) = k0 => v = w /\ l = j0
  <2>1. \A v \in Writers : \A l \in Jobs(v) : \A n \in Files(v, l) : PathOf(v, l, n) # k0
    BY <1>1, <1>2, PathsDiffer
  <2>2. \A v \in Writers : \A l \in Jobs(v) : MarkerOf(v, l) = k0 => v = w /\ l = j0
    BY <1>1, <1>2, KeysDiffer DEF MarkerOf
  <2> QED BY <2>1, <2>2
<1> HIDE DEF st, wr, k0, j0
<1>8. WritersTyped(wr)
  BY <1>1, <1>4 DEF WritersTyped
<1>9. Unopened(st, wr)
  <2> SUFFICES ASSUME ~ObjectStore, NEW v \in Writers, NEW l \in Jobs(v), NEW n \in Files(v, l),
                      l > wr[v].job \/ (l = wr[v].job /\ (n > wr[v].file \/ (n = wr[v].file /\ ~wr[v].open)))
               PROVE  PathOf(v, l, n) \notin DOMAIN st
    BY DEF Unopened
  <2>1. l \in Nat
    BY <1>1, JobFacts
  <2>2. l > writer[v].job \/ (l = writer[v].job /\ (n > writer[v].file \/ (n = writer[v].file /\ ~writer[v].open)))
    BY <1>4, <2>1
  <2>3. PathOf(v, l, n) \notin DOMAIN store
    BY <2>2 DEF Writing, WritingOf, Unopened
  <2> QED BY <1>5, <1>7, <2>3
<1>10. Unpublished(st, wr)
  <2> SUFFICES ASSUME NEW v \in Writers, NEW l \in Jobs(v), l >= wr[v].job PROVE MarkerOf(v, l) \notin DOMAIN st
    BY DEF Unpublished
  <2>1. l \in Nat
    BY <1>1, JobFacts
  <2>2. l >= writer[v].job /\ ~(v = w /\ l = j0)
    BY <1>4, <2>1 DEF j0
  <2>3. MarkerOf(v, l) \notin DOMAIN store
    BY <2>2 DEF Writing, WritingOf, Unpublished
  <2> QED BY <1>5, <1>7, <2>2, <2>3
<1>11. WrittenWhole(st, wr)
  <2> SUFFICES ASSUME NEW v \in Writers, NEW l \in Jobs(v), NEW n \in Files(v, l),
                      \/ l = wr[v].job /\ n < wr[v].file
                      \/ l < wr[v].job /\ MarkerOf(v, l) \in DOMAIN st
               PROVE  PathOf(v, l, n) \in DOMAIN st /\ st[PathOf(v, l, n)].whole
    BY DEF WrittenWhole
  <2>1. l \in Nat /\ n \in Nat /\ n >= 1
    BY <1>1, JobFacts
  <2>2. CASE v = w /\ l = j0
    <3>1. l = writer[v].job /\ n < writer[v].file
      BY <1>2, <1>4, <2>1, <2>2 DEF j0
    <3>2. PathOf(v, l, n) \in DOMAIN store /\ store[PathOf(v, l, n)].whole
      BY <3>1 DEF Writing, WritingOf, WrittenWhole
    <3> QED BY <3>2, <1>5, <1>7
  <2>3. CASE ~(v = w /\ l = j0)
    <3>1. \/ l = writer[v].job /\ n < writer[v].file
          \/ l < writer[v].job /\ MarkerOf(v, l) \in DOMAIN store
      BY <1>4, <1>5, <1>7, <2>1, <2>3 DEF j0
    <3>2. PathOf(v, l, n) \in DOMAIN store /\ store[PathOf(v, l, n)].whole
      BY <3>1 DEF Writing, WritingOf, WrittenWhole
    <3> QED BY <3>2, <1>5, <1>7
  <2> QED BY <2>2, <2>3
<1>12. OpenedThere(st, wr)
  BY <1>4, <1>5 DEF Writing, WritingOf, OpenedThere
<1> QED BY <1>1, <1>6, <1>8, <1>9, <1>10, <1>11, <1>12 DEF WritingOf, st, wr

\* A writer that gave a run up leaves it unpublished.
LEMMA CrashKeeps ==
    ASSUME Writing, NEW w \in Writers, Crash(w)
    PROVE  WritingOf(store', writer')
<1> DEFINE wr == writer'
<1>1. setup \in Setups /\ WritersTyped(writer) /\ StoreTyped(store) /\ store' = store
  BY DEF Writing, WritingOf, Crash
<1>2. /\ DOMAIN wr = Writers
      /\ \A v \in Writers : wr[v] \in WriterState
      /\ \A v \in Writers : v # w => wr[v] = writer[v]
      /\ ~wr[w].open /\ wr[w].file = 1
      /\ wr[w].job = writer[w].job + 1 \/ (ObjectStore /\ wr[w].job = writer[w].job)
      /\ \A v \in Writers : writer[v].job \in Nat /\ writer[v].file \in Nat
  <2>1. DOMAIN writer = Writers /\ \A v \in Writers : writer[v] \in WriterState
    BY <1>1 DEF WritersTyped
  <2>2. CASE wr = [writer EXCEPT ![w] = [NextJob(w) EXCEPT !.crashes = @ + 1]]
    <3> DEFINE given == [NextJob(w) EXCEPT !.crashes = @ + 1]
    <3>1. given \in WriterState /\ given.job = writer[w].job + 1 /\ ~given.open /\ given.file = 1
      <4>1. writer[w] \in WriterState
        BY <2>1
      <4>2. NextJob(w) \in WriterState /\ NextJob(w).job = writer[w].job + 1 /\ ~NextJob(w).open /\ NextJob(w).file = 1
        BY <4>1 DEF NextJob, WriterState
      <4> QED BY <4>2 DEF WriterState
    <3>2. wr = [writer EXCEPT ![w] = given]
      BY <2>2
    <3> HIDE DEF given
    <3>3. /\ DOMAIN wr = Writers /\ wr[w] = given
          /\ \A v \in Writers : v # w => wr[v] = writer[v]
      BY <2>1, <3>2
    <3>4. \A v \in Writers : writer[v].job \in Nat /\ writer[v].file \in Nat
      BY <2>1 DEF WriterState
    <3> QED BY <2>1, <3>1, <3>3, <3>4
  <2>3. CASE ObjectStore /\ wr = [writer EXCEPT ![w].file = 1, ![w].open = FALSE,
                                               ![w].attempt = @ + 1, ![w].crashes = @ + 1]
    BY <2>1, <2>3 DEF WriterState
  <2> QED BY <2>2, <2>3 DEF Crash
<1>3. MarkerOf(w, writer[w].job) \notin DOMAIN store
  <2>1. writer[w].job \in Jobs(w)
    BY <1>1, WriterAt DEF Crash
  <2> QED BY <1>2, <2>1 DEF Writing, WritingOf, Unpublished
<1> HIDE DEF wr
<1>4. WritersTyped(wr)
  BY <1>1, <1>2 DEF WritersTyped
<1>5. Unopened(store, wr)
  <2> SUFFICES ASSUME ~ObjectStore, NEW v \in Writers, NEW l \in Jobs(v), NEW n \in Files(v, l),
                      l > wr[v].job \/ (l = wr[v].job /\ (n > wr[v].file \/ (n = wr[v].file /\ ~wr[v].open)))
               PROVE  PathOf(v, l, n) \notin DOMAIN store
    BY DEF Unopened
  <2>1. l \in Nat
    BY <1>1, JobFacts
  <2>2. l > writer[v].job \/ (l = writer[v].job /\ (n > writer[v].file \/ (n = writer[v].file /\ ~writer[v].open)))
    BY <1>2, <2>1
  <2> QED BY <2>2 DEF Writing, WritingOf, Unopened
<1>6. Unpublished(store, wr)
  <2> SUFFICES ASSUME NEW v \in Writers, NEW l \in Jobs(v), l >= wr[v].job PROVE MarkerOf(v, l) \notin DOMAIN store
    BY DEF Unpublished
  <2>1. l \in Nat
    BY <1>1, JobFacts
  <2>2. l >= writer[v].job
    BY <1>2, <2>1
  <2> QED BY <2>2 DEF Writing, WritingOf, Unpublished
<1>7. WrittenWhole(store, wr)
  <2> SUFFICES ASSUME NEW v \in Writers, NEW l \in Jobs(v), NEW n \in Files(v, l),
                      \/ l = wr[v].job /\ n < wr[v].file
                      \/ l < wr[v].job /\ MarkerOf(v, l) \in DOMAIN store
               PROVE  PathOf(v, l, n) \in DOMAIN store /\ store[PathOf(v, l, n)].whole
    BY DEF WrittenWhole
  <2>1. l \in Nat /\ n \in Nat /\ n >= 1
    BY <1>1, JobFacts
  <2>2. \/ l = writer[v].job /\ n < writer[v].file
        \/ l < writer[v].job /\ MarkerOf(v, l) \in DOMAIN store
    BY <1>2, <1>3, <2>1
  <2> QED BY <2>2 DEF Writing, WritingOf, WrittenWhole
<1>8. OpenedThere(store, wr)
  BY <1>2 DEF Writing, WritingOf, OpenedThere
<1> QED BY <1>1, <1>4, <1>5, <1>6, <1>7, <1>8 DEF WritingOf, wr

LEMMA WritingHolds == Spec => []Writing
<1>1. Init => Writing
  <2> SUFFICES ASSUME Init PROVE Writing
    OBVIOUS
  <2>1. /\ setup \in Setups /\ DOMAIN store = {} /\ DOMAIN writer = Writers
        /\ \A w \in Writers : writer[w] = [job |-> 1, file |-> 1, attempt |-> 1, open |-> FALSE, crashes |-> 0]
    BY DEF Init, Empty, Writers
  <2>2. \A w \in Writers : writer[w] \in WriterState
    <3>1. [job |-> 1, file |-> 1, attempt |-> 1, open |-> FALSE, crashes |-> 0] \in WriterState
      BY DEF WriterState
    <3> QED BY <2>1, <3>1
  <2>3. \A w \in Writers : \A j \in Jobs(w) : /\ j \in Nat /\ j >= 1
                                              /\ \A i \in Files(w, j) : i \in Nat /\ i >= 1
    BY <2>1, JobFacts
  <2>4. WritersTyped(writer) /\ StoreTyped(store) /\ OpenedThere(store, writer)
    BY <2>1, <2>2, FS_EmptySet DEF WritersTyped, StoreTyped, OpenedThere
  <2>5. Unopened(store, writer) /\ Unpublished(store, writer) /\ WrittenWhole(store, writer)
    BY <2>1, <2>3 DEF Unopened, Unpublished, WrittenWhole
  <2> QED BY <2>1, <2>4, <2>5 DEF Writing, WritingOf
<1>2. Core /\ Writing /\ [Next]_vars => Writing'
  <2> SUFFICES ASSUME Core, Writing, [Next]_vars PROVE Writing'
    OBVIOUS
  <2>1. WritingOf(store', writer')
    <3>1. CASE WriterStep
      BY <3>1, OpenFileKeeps, FillFileKeeps, PublishKeeps, CrashKeeps DEF WriterStep
    <3>2. CASE ~WriterStep
      BY <3>2, StoreQuiet DEF Writing
    <3> QED BY <3>1, <3>2
  <2> QED BY <2>1, StepShapes, WritingNext
<1> QED BY <1>1, <1>2, CoreHolds, PTL DEF Spec

-----------------------------------------------------------------------------
(* What the disk holds                                                     *)

Data == Content \cup {Missing}
At(disk, k) == IF k \in DOMAIN disk THEN disk[k] ELSE Missing
Grows(disk, after) == \A k : /\ At(disk, k) \in Data /\ At(after, k) \in Data
                             /\ NoOlder(At(after, k), At(disk, k))

\* The copies are of contents, and what is left to copy was listed.
Copying ==
    /\ \A k \in DOMAIN local : local[k] \in Content
    /\ req # Idle => req.todo \in Seq(DOMAIN store)

LEMMA NoOlderOrders ==
    /\ \A a : NoOlder(a, Missing)
    /\ \A a \in Data : NoOlder(a, a)
    /\ \A a, b, c \in Data : NoOlder(a, b) /\ NoOlder(b, c) => NoOlder(a, c)
BY DEF NoOlder, Data, Content

LEMMA ListedKeys ==
    ASSUME NEW S, IsFiniteSet(S)
    PROVE  SetToSeq(S) \in Seq(S)
<1>1. Cardinality(S) \in Nat /\ \E f \in [1 .. Cardinality(S) -> S] : IsInjective(f)
  <2>1. Cardinality(S) \in Nat /\ \E f : f \in Bijection(1 .. Cardinality(S), S)
    BY FS_CardinalityType DEF ExistsBijection
  <2>2. PICK f : f \in Bijection(1 .. Cardinality(S), S)
    BY <2>1
  <2>3. f \in [1 .. Cardinality(S) -> S] /\ IsInjective(f)
    BY <2>2 DEF Bijection, Injection, IsInjective
  <2> QED BY <2>1, <2>3
<1>2. SetToSeq(S) \in [1 .. Cardinality(S) -> S]
  BY <1>1 DEF SetToSeq
<1> QED BY <1>1, <1>2, IsASeq

\* Nothing is deleted, and a filesystem's files only get newer.
LEMMA StoreGrows ==
    ASSUME Writing, [Next]_vars
    PROVE  /\ DOMAIN store \in SUBSET DOMAIN store'
           /\ ~ObjectStore => Grows(store, store')
<1>1. setup \in Setups /\ WritersTyped(writer) /\ StoreTyped(store) /\ Unopened(store, writer)
  BY DEF Writing, WritingOf
<1>2. \A k \in DOMAIN store : store[k] \in Content
  BY <1>1 DEF StoreTyped
<1>3. \A k : At(store, k) \in Data
  BY <1>2 DEF At, Data
<1>4. CASE store' = store
  BY <1>3, <1>4, NoOlderOrders DEF Grows
<1>5. ASSUME NEW w \in Writers, OpenFile(w)
      PROVE  DOMAIN store \in SUBSET DOMAIN store' /\ (~ObjectStore => Grows(store, store'))
  <2> DEFINE c == [attempt |-> writer[w].attempt, whole |-> FALSE]
             k0 == FileKey(w)
             st == store'
  <2>1. DOMAIN st = DOMAIN store \cup {k0} /\ st[k0] = c /\ \A k \in DOMAIN store : k # k0 => st[k] = store[k]
    BY <1>5 DEF OpenFile, Put
  <2>2. c \in Content
    BY <1>1 DEF WritersTyped, WriterState, Content
  <2>3. ~ObjectStore => k0 \notin DOMAIN store
    <3>1. Busy(w) /\ ~writer[w].open /\ writer[w].file <= Len(Job(w).files) /\ writer[w] \in WriterState
      BY <1>1, <1>5 DEF OpenFile, WritersTyped
    <3>2. writer[w].job \in Jobs(w) /\ writer[w].file \in Files(w, writer[w].job)
          /\ k0 = PathOf(w, writer[w].job, writer[w].file)
      BY <1>1, <3>1, WriterAt DEF WriterState
    <3> QED BY <1>1, <3>1, <3>2 DEF Unopened
  <2> HIDE DEF c, k0, st
  <2>4. ASSUME ~ObjectStore, NEW k
        PROVE  At(st, k) \in Data /\ NoOlder(At(st, k), At(store, k))
    <3>1. CASE k = k0
      BY <3>1, <2>1, <2>2, <2>3, <2>4, NoOlderOrders DEF At, Data
    <3>2. CASE k # k0
      <4>1. At(st, k) = At(store, k)
        BY <3>2, <2>1 DEF At
      <4> QED BY <4>1, <1>3, NoOlderOrders
    <3> QED BY <3>1, <3>2
  <2> QED BY <1>3, <2>1, <2>4 DEF Grows, st
<1>6. ASSUME NEW w \in Writers, FillFile(w)
      PROVE  DOMAIN store \in SUBSET DOMAIN store' /\ (~ObjectStore => Grows(store, store'))
  <2> DEFINE k0 == FileKey(w)
             st == store'
  <2>1. DOMAIN st = DOMAIN store
        /\ \A k \in DOMAIN store : st[k] = IF k = k0 THEN [store[k] EXCEPT !.whole = TRUE] ELSE store[k]
    BY <1>6 DEF FillFile
  <2> HIDE DEF k0, st
  <2>2. ASSUME NEW k
        PROVE  At(st, k) \in Data /\ NoOlder(At(st, k), At(store, k))
    <3>1. CASE k = k0 /\ k \in DOMAIN store
      <4>1. st[k] \in Content /\ st[k].attempt = store[k].attempt /\ st[k].whole /\ store[k] \in Content
        BY <3>1, <2>1, <1>2 DEF Content
      <4> HIDE DEF st
      <4>2. At(st, k) = st[k] /\ At(store, k) = store[k]
        BY <3>1, <2>1 DEF At
      <4>3. st[k] # Missing
        BY <4>1, MissingAssumption DEF Content
      <4> QED BY <4>1, <4>2, <4>3 DEF NoOlder, Data, Content
    <3>2. CASE ~(k = k0 /\ k \in DOMAIN store)
      <4>1. At(st, k) = At(store, k)
        BY <3>2, <2>1 DEF At
      <4> QED BY <4>1, <1>3, NoOlderOrders
    <3> QED BY <3>1, <3>2
  <2> QED BY <1>3, <2>1, <2>2 DEF Grows, st
<1>7. ASSUME NEW w \in Writers, Publish(w)
      PROVE  DOMAIN store \in SUBSET DOMAIN store' /\ (~ObjectStore => Grows(store, store'))
  <2>1. CASE ObjectStore
    <3>1. DOMAIN store \in SUBSET DOMAIN store'
      BY <1>7, <2>1 DEF Publish, Put
    <3> QED BY <2>1, <3>1
  <2>2. CASE ~ObjectStore
    BY <1>4, <1>7, <2>2 DEF Publish
  <2> QED BY <2>1, <2>2
<1>8. ASSUME NEW w \in Writers, Crash(w) PROVE store' = store
  BY <1>8 DEF Crash
<1>9. CASE WriterStep
  BY <1>4, <1>5, <1>6, <1>7, <1>8, <1>9 DEF WriterStep
<1>10. CASE ~WriterStep
  BY SMTT(60), <1>4, <1>10, StoreQuiet
<1> QED BY <1>9, <1>10

LEMMA CopiesQuiet ==
    ASSUME [Next]_vars, ~Materialize
    PROVE  local' = local
BY DEF Next, vars, Receive, ListPlans, ResolveRun, ResolveRevision, CheckExists, ReadJson, OpenFile, FillFile, Publish,
       Crash, ResolveData, ResolveSchedule, DataCopied, DetectFormat, DigestSource, DigestSchedule, LookUp,
       Evaluate, StoreAnswer, Tick, Restart, kept, evaluation

\* Only the two resolutions give a request copies to make.
LEMMA TodoQuiet ==
    ASSUME Core, [Next]_vars, ~Materialize, ~ResolveData, ~ResolveSchedule, req' # Idle
    PROVE  (req # Idle /\ req'.todo = req.todo) \/ req'.todo = <<>>
<1> USE DEF Refuse, Answer, kept, evaluation
<1> DEFINE Left == DOMAIN req = RequestFields => req'.todo = req.todo
<1>0. ASSUME req.pc # "none", req' = Idle \/ Left
      PROVE  req # Idle /\ req'.todo = req.todo
  BY <1>0 DEF Core, Idle
<1>1. CASE Receives
  BY <1>1 DEF Receives, Receive, Core
<1>2. CASE ListPlans \/ ResolveRun \/ CheckExists \/ ReadJson
  <2>1. req.pc # "none" /\ (req' = Idle \/ Left)
    BY ZenonT(60), <1>2 DEF ListPlans, ResolveRun, CheckExists, ReadJson, Step, RequestFields
  <2> QED BY <1>0, <2>1
<1>3. CASE ResolveRevision
  <2>1. req.pc = "revisions" /\ (req' = Idle \/ \E p : req' = [req EXCEPT !.pc = "exists", !.path = p])
    BY <1>3 DEF ResolveRevision, Step
  <2>2. req' = Idle \/ Left
    BY <2>1 DEF RequestFields
  <2> QED BY <1>0, <2>1, <2>2
<1>4. CASE DataCopied
  <2>1. req.pc # "none" /\ (req' = Idle \/ Left)
    BY <1>4 DEF DataCopied, Step, RequestFields
  <2> QED BY <1>0, <2>1
<1>5. CASE DetectFormat
  <2>1. req.pc = "copy schedule" /\ (req' = Idle \/ \E f : req' = [req EXCEPT !.pc = "source", !.found = f])
    BY <1>5 DEF DetectFormat, Step
  <2>2. req' = Idle \/ Left
    BY <2>1 DEF RequestFields
  <2> QED BY <1>0, <2>1, <2>2
<1>6. CASE DigestSource
  <2>1. req.pc = "source"
        /\ (req' = Idle \/ \E d, f : req' = [req EXCEPT !.pc = "plan", !.digests = d, !.fresh = f])
    <3> HIDE DEF Answer
    <3>1. req.pc = "source"
          /\ \/ \E status, doc : Answer(status, doc)
             \/ \E d, f : req' = [req EXCEPT !.pc = "plan", !.digests = d, !.fresh = f] /\ replies' = replies
      BY <1>6 DEF DigestSource, Digest, Step
    <3> QED BY ZenonT(60), <3>1 DEF Answer
  <2>2. req' = Idle \/ Left
    BY <2>1 DEF RequestFields
  <2> QED BY <1>0, <2>1, <2>2
<1>11. CASE DigestSchedule
  <2>1. req.pc = "plan"
        /\ (req' = Idle \/ \E d, f : req' = [req EXCEPT !.pc = "lookup", !.digests = d, !.fresh = f])
    BY <1>11 DEF DigestSchedule, Digest, Step
  <2>2. req' = Idle \/ Left
    BY <2>1 DEF RequestFields
  <2> QED BY <1>0, <2>1, <2>2
<1>7. CASE LookUp
  <2>1. req.pc = "lookup" /\ (req' = Idle \/ req' = [req EXCEPT !.pc = "parse"])
    BY <1>7 DEF LookUp, Step
  <2>2. req' = Idle \/ Left
    BY <2>1 DEF RequestFields
  <2> QED BY <1>0, <2>1, <2>2
<1>8. CASE Evaluate
  <2>1. req.pc = "parse" /\ (req' = Idle \/ \E f : req' = [req EXCEPT !.pc = "store", !.found = f])
    BY <1>8 DEF Evaluate, Step
  <2>2. req' = Idle \/ Left
    BY ZenonT(60), <2>1 DEF RequestFields
  <2> QED BY <1>0, <2>1, <2>2
<1>9. CASE StoreAnswer \/ Restart
  BY <1>9 DEF StoreAnswer, Restart
<1>10. CASE Tick \/ UNCHANGED vars \/ WriterStep
  BY <1>10 DEF Tick, vars, WriterStep, OpenFile, FillFile, Publish, Crash, service, Core
<1> QED BY <1>1, <1>2, <1>3, <1>4, <1>5, <1>6, <1>7, <1>8, <1>9, <1>10, <1>11
       DEF Next, Receives, WriterStep, Writers

LEMMA CopyingHolds == Spec => []Copying
<1>1. Init => Copying
  BY DEF Init, Copying, Empty
<1>2. Core /\ Writing /\ Copying /\ [Next]_vars => Copying'
  <2> SUFFICES ASSUME Core, Writing, Copying, [Next]_vars PROVE Copying'
    OBVIOUS
  <2>1. DOMAIN store \in SUBSET DOMAIN store' /\ IsFiniteSet(DOMAIN store)
    BY StoreGrows DEF Writing, WritingOf, StoreTyped
  <2>2. Seq(DOMAIN store) \in SUBSET Seq(DOMAIN store')
    BY <2>1, SeqMonotonic
  <2>3. CASE Materialize
    <3> DEFINE k == Head(req.todo)
    <3>1. req # Idle /\ req.todo # <<>> /\ req.todo \in Seq(DOMAIN store) /\ store' = store
      BY <2>3 DEF Materialize, Copying
    <3>2. k \in DOMAIN store /\ Tail(req.todo) \in Seq(DOMAIN store)
      BY <3>1, HeadTailProperties
    <3>3. store[k] \in Content
      BY <3>2 DEF Writing, WritingOf, StoreTyped
    <3> HIDE DEF k
    <3>4. \A l \in DOMAIN local' : local'[l] \in Content
      <4>1. local' = local \/ local' = Put(local, k, store[k])
        BY <2>3 DEF Materialize, k
      <4> QED BY <4>1, <3>3 DEF Copying, Put
    <3>5. req'.todo = Tail(req.todo)
      BY <2>3, <3>1 DEF Materialize, Core, RequestFields
    <3> QED BY <3>1, <3>2, <3>4, <3>5 DEF Copying
  <2>4. CASE ~Materialize
    <3>1. local' = local
      BY <2>4, CopiesQuiet
    <3>2. ASSUME NEW subdir, NEW value, NEW done, Resolve(subdir, value, done), req' # Idle, Step("resolve") \/ Step("schedule")
          PROVE  req'.todo \in Seq(DOMAIN store)
      <4> DEFINE Moves(K, p) ==
                req' = [req EXCEPT !.pc = done, !.path = p, !.todo = IF ObjectStore THEN SetToSeq(K) ELSE <<>>]
      <4>0. \E K \in SUBSET DOMAIN store : \E p : Moves(K, p)
        BY <3>2 DEF Resolve, Refuse, Answer
      <4>6. PICK K \in SUBSET DOMAIN store : \E p : Moves(K, p)
        BY <4>0
      <4>1. PICK p : Moves(K, p)
        BY <4>6
      <4>2. SetToSeq(K) \in Seq(K) /\ <<>> \in Seq(DOMAIN store)
        BY <2>1, FS_Subset, ListedKeys, EmptySeq
      <4>3. SetToSeq(K) \in Seq(DOMAIN store)
        BY <4>2, SeqMonotonic
      <4>4. DOMAIN req = RequestFields
        BY <3>2 DEF Core, Step, Idle
      <4> QED BY <4>1, <4>2, <4>3, <4>4 DEF RequestFields
    <3>3. req' # Idle => req'.todo \in Seq(DOMAIN store')
      <4>1. CASE ResolveData \/ ResolveSchedule
        BY <4>1, <3>2, <2>2 DEF ResolveData, ResolveSchedule
      <4>2. CASE ~ResolveData /\ ~ResolveSchedule
        BY <2>2, <2>4, <4>2, TodoQuiet, EmptySeq DEF Copying
      <4> QED BY <4>1, <4>2
    <3> QED BY <3>1, <3>3 DEF Copying
  <2> QED BY <2>3, <2>4
<1> QED BY <1>1, <1>2, CoreHolds, WritingHolds, PTL DEF Spec

LEMMA DiskGrows ==
    ASSUME Writing, Copying, [Next]_vars, setup' = setup
    PROVE  Grows(Disk, Disk')
<1>1. CASE ObjectStore
  <2>1. Disk = local /\ Disk' = local'
    BY <1>1 DEF Disk, ObjectStore
  <2>2. \A k : At(local, k) \in Data
    BY DEF Copying, At, Data
  <2>3. CASE local' = local
    BY <2>1, <2>2, <2>3, NoOlderOrders DEF Grows
  <2>4. CASE local' # local
    <3> DEFINE k0 == Head(req.todo)
               lo == local'
    <3>1. Materialize /\ lo = Put(local, k0, store[k0]) /\ k0 \notin DOMAIN local
      BY <2>4, CopiesQuiet DEF Materialize, Keeps
    <3>2. store[k0] \in Content
      <4>1. k0 \in DOMAIN store
        BY <3>1, HeadTailProperties DEF Materialize, Copying
      <4> QED BY <4>1 DEF Writing, WritingOf, StoreTyped
    <3>3. DOMAIN lo = DOMAIN local \cup {k0} /\ lo[k0] = store[k0] /\ \A k \in DOMAIN local : lo[k] = local[k]
      BY <3>1 DEF Put
    <3> HIDE DEF k0, lo
    <3>4. ASSUME NEW k PROVE At(lo, k) \in Data /\ NoOlder(At(lo, k), At(local, k))
      <4>1. CASE k = k0
        BY <4>1, <3>1, <3>2, <3>3, NoOlderOrders DEF At, Data
      <4>2. CASE k # k0
        <5>1. At(lo, k) = At(local, k)
          BY <4>2, <3>3 DEF At
        <5> QED BY <5>1, <2>2, NoOlderOrders
      <4> QED BY <4>1, <4>2
    <3> QED BY <2>1, <2>2, <3>4 DEF Grows, lo
  <2> QED BY <2>3, <2>4
<1>2. CASE ~ObjectStore
  <2>1. Disk = store /\ Disk' = store'
    BY <1>2 DEF Disk, ObjectStore
  <2> QED BY <1>2, <2>1, StoreGrows
<1> QED BY <1>1, <1>2

-----------------------------------------------------------------------------
(* Feasibility answers                                                     *)

\* An entry of the memo is the digest its stat stands for, one per path.
MemoTrue(m) ==
    /\ IsSeq(m)
    /\ \A i \in DOMAIN m : m[i].digest = m[i].stat
    /\ \A i, j \in DOMAIN m : m[i].path = m[j].path => i = j

\* A sequence whose elements come from another one, in the same order.
Selects(t, s) ==
    /\ IsSeq(t)
    /\ \A i \in DOMAIN t : \E k \in DOMAIN s : t[i] = s[k]

LEMMA KeptLast ==
    ASSUME NEW s, IsSeq(s), NEW n \in Nat
    PROVE  \E lo \in Nat : /\ IsSeq(KeepLast(s, n))
                           /\ \A i \in DOMAIN KeepLast(s, n) : i + lo \in DOMAIN s /\ KeepLast(s, n)[i] = s[i + lo]
<1> DEFINE first == Max({1, Len(s) - n + 1})
           t == KeepLast(s, n)
<1>1. s \in Seq(Range(s)) /\ DOMAIN s = 1 .. Len(s) /\ Len(s) \in Nat
  BY LenProperties DEF IsSeq
<1>2. first \in Int /\ first >= 1
  <2> DEFINE other == Len(s) - n + 1
  <2>1. \E x \in {1, other} : \A y \in {1, other} : x >= y
    BY <1>1
  <2>2. first \in {1, other} /\ \A y \in {1, other} : first >= y
    BY <2>1 DEF Max
  <2> QED BY <1>1, <2>2
<1> HIDE DEF first
<1>3. \A i \in first .. Len(s) : s[i] \in Range(s)
  BY <1>1, <1>2 DEF Range
<1>4. /\ t \in Seq(Range(s))
      /\ Len(t) = IF first <= Len(s) THEN Len(s) - first + 1 ELSE 0
      /\ \A i \in 1 .. Len(s) - first + 1 : t[i] = s[first + i - 1]
  <2>1. t = SubSeq(s, first, Len(s))
    BY DEF KeepLast, first
  <2> QED BY <1>1, <1>2, <1>3, <2>1, SubSeqProperties
<1> HIDE DEF t
<1>5. DOMAIN t = 1 .. Len(t) /\ Len(t) \in Nat /\ IsSeq(t)
  <2>1. DOMAIN t = 1 .. Len(t) /\ Len(t) \in Nat /\ t \in [1 .. Len(t) -> Range(s)]
    BY <1>4, LenProperties
  <2>2. t \in [1 .. Len(t) -> Range(t)]
    BY <2>1 DEF Range
  <2> QED BY <2>1, <2>2, IsASeq DEF IsSeq
<1>6. \A i \in DOMAIN t : i + (first - 1) \in DOMAIN s /\ t[i] = s[i + (first - 1)]
  <2> SUFFICES ASSUME NEW i \in DOMAIN t PROVE i + (first - 1) \in DOMAIN s /\ t[i] = s[i + (first - 1)]
    OBVIOUS
  <2>1. i \in Nat /\ i >= 1 /\ i <= Len(s) - first + 1 /\ i + (first - 1) = first + i - 1
    BY <1>1, <1>2, <1>4, <1>5
  <2>2. t[i] = s[first + i - 1]
    <3>1. i \in 1 .. Len(s) - first + 1
      BY <1>1, <1>2, <2>1
    <3> HIDE DEF t
    <3> QED BY <1>4, <3>1
  <2>3. first + i - 1 \in 1 .. Len(s)
    BY <1>1, <1>2, <2>1
  <2> QED BY <1>1, <2>1, <2>2, <2>3
<1>7. first - 1 \in Nat
  BY <1>2
<1> QED BY <1>5, <1>6, <1>7 DEF t

LEMMA Removed ==
    ASSUME NEW s, IsSeq(s), NEW n \in DOMAIN s
    PROVE  Selects(RemoveAt(s, n), s)
<1> DEFINE a == SubSeq(s, 1, n - 1)
           b == SubSeq(s, n + 1, Len(s))
           t == RemoveAt(s, n)
<1>1. s \in Seq(Range(s)) /\ DOMAIN s = 1 .. Len(s) /\ Len(s) \in Nat /\ n \in 1 .. Len(s)
  BY LenProperties DEF IsSeq
<1>2. \A i \in DOMAIN s : s[i] \in Range(s)
  BY DEF Range
<1>3. a \in Seq(Range(s))
  <2>1. \A i \in 1 .. n - 1 : s[i] \in Range(s)
    BY <1>1, <1>2
  <2> QED BY <1>1, <2>1, SubSeqProperties
<1>4. b \in Seq(Range(s))
  <2>1. \A i \in n + 1 .. Len(s) : s[i] \in Range(s)
    BY <1>1, <1>2
  <2> QED BY <1>1, <2>1, SubSeqProperties
<1>5. t \in Seq(Range(s))
  BY <1>3, <1>4, ConcatProperties DEF RemoveAt
<1> HIDE DEF t, a, b
<1>6. IsSeq(t) /\ \A i \in DOMAIN t : t[i] \in Range(s)
  <2>1. DOMAIN t = 1 .. Len(t) /\ Len(t) \in Nat /\ t \in [1 .. Len(t) -> Range(s)]
    BY <1>5, LenProperties
  <2>2. t \in [1 .. Len(t) -> Range(t)]
    BY <2>1 DEF Range
  <2> QED BY <2>1, <2>2, IsASeq DEF IsSeq
<1> QED BY <1>6 DEF Selects, Range, t

LEMMA Trimmed ==
    ASSUME NEW m, MemoTrue(m)
    PROVE  MemoTrue(KeepLast(m, MemoMax))
<1> DEFINE t == KeepLast(m, MemoMax)
<1>1. IsSeq(m) /\ DOMAIN m = 1 .. Len(m)
  BY LenProperties DEF MemoTrue, IsSeq
<1>2. PICK lo \in Nat : IsSeq(t) /\ \A i \in DOMAIN t : i + lo \in DOMAIN m /\ t[i] = m[i + lo]
  BY <1>1, KeptLast, BoundsAssumption
<1> HIDE DEF t
<1>3. DOMAIN t \in SUBSET Nat
  BY <1>2, LenProperties DEF IsSeq
<1>4. \A i, j \in DOMAIN t : t[i].path = t[j].path => i = j
  <2> SUFFICES ASSUME NEW i \in DOMAIN t, NEW j \in DOMAIN t, t[i].path = t[j].path PROVE i = j
    OBVIOUS
  <2>1. i + lo = j + lo
    BY <1>2 DEF MemoTrue
  <2> QED BY <1>3, <2>1
<1> QED BY <1>2, <1>4 DEF MemoTrue, t

LEMMA MemoRemembers ==
    ASSUME MemoTrue(memo), NEW path, NEW content
    PROVE  MemoTrue(Remember(path, content))
<1> DEFINE entry == [path |-> path, stat |-> content, digest |-> content]
           longer == Append(memo, entry)
           updated == [i \in DOMAIN memo |-> IF memo[i].path = path THEN entry ELSE memo[i]]
<1>1. entry.digest = entry.stat /\ entry.path = path
  OBVIOUS
<1> HIDE DEF entry
<1>2. IsSeq(memo) /\ DOMAIN memo = 1 .. Len(memo) /\ Len(memo) \in Nat
  BY LenProperties DEF MemoTrue, IsSeq
<1>3. CASE Entries(path) = {}
  <2>1. /\ IsSeq(longer) /\ DOMAIN longer = 1 .. Len(memo) + 1
        /\ \A i \in DOMAIN memo : longer[i] = memo[i]
        /\ longer[Len(memo) + 1] = entry
    BY <1>2, Appended
  <2> HIDE DEF longer
  <2>2. \A i \in DOMAIN memo : memo[i].path # path
    BY <1>3 DEF Entries
  <2>3. MemoTrue(longer)
    <3>1. \A i \in DOMAIN longer : i \in DOMAIN memo \/ i = Len(memo) + 1
      BY <1>2, <2>1
    <3> QED BY <1>1, <2>1, <2>2, <3>1 DEF MemoTrue
  <2> QED BY <1>3, <2>3, Trimmed DEF Remember, longer, entry
<1>4. CASE Entries(path) # {}
  <2>1. MemoTrue(updated)
    <3>1. DOMAIN updated = DOMAIN memo
          /\ \A i \in DOMAIN memo : updated[i] = IF memo[i].path = path THEN entry ELSE memo[i]
      OBVIOUS
    <3>2. updated \in [1 .. Len(memo) -> Range(updated)]
      <4>1. \A i \in 1 .. Len(memo) : updated[i] \in Range(updated)
        BY <1>2 DEF Range
      <4> QED BY <1>2, <4>1
    <3> HIDE DEF updated
    <3>3. IsSeq(updated)
      BY <1>2, <3>2, IsASeq DEF IsSeq
    <3>4. \A i \in DOMAIN memo : updated[i].path = memo[i].path /\ updated[i].digest = updated[i].stat
      BY <1>1, <3>1 DEF MemoTrue
    <3> QED BY <3>1, <3>3, <3>4 DEF MemoTrue
  <2> QED BY <1>4, <2>1, Trimmed DEF Remember, entry
<1> QED BY <1>3, <1>4

InputNames == {"source", "schedule"}
InputOf(r, f) == IF f = "source" THEN r.data \o <<"vehicles">> ELSE r.path \o <<"schedule">>

\* A hit answers what a digest of the file would.
LEMMA DigestIsCurrent ==
    ASSUME MemoTrue(memo), NEW input \in InputNames, NEW done, Digest(input, done)
    PROVE  /\ MemoTrue(memo')
           /\ \/ Refuse(500)
              \/ \E fresh : /\ req' = [req EXCEPT !.pc = done, !.fresh = fresh,
                                                  !.digests = Put(@, input, OnDisk(InputOf(req, input)))]
                            /\ replies' = replies
<1> DEFINE path == Inputs[input]
           stat == OnDisk(path)
           hit == Memoized(path, stat)
           digest == IF hit THEN memo[CHOOSE i \in Entries(path) : TRUE].digest ELSE stat
<1>1. path = InputOf(req, input)
  <2>1. CASE input = "source"
    BY <2>1 DEF Inputs, InputOf
  <2>2. CASE input = "schedule"
    BY <2>2 DEF Inputs, InputOf
  <2> QED BY <2>1, <2>2 DEF InputNames
<1>2. digest = stat
  <2>1. CASE hit
    <3>1. PICK i \in Entries(path) : memo[i].stat = stat
      BY <2>1 DEF Memoized
    <3>2. (CHOOSE n \in Entries(path) : TRUE) = i
      BY <3>1 DEF Entries, MemoTrue
    <3>3. memo[i].digest = memo[i].stat
      BY <3>1 DEF Entries, MemoTrue
    <3> QED BY <2>1, <3>1, <3>2, <3>3
  <2>2. CASE ~hit
    BY <2>2
  <2> QED BY <2>1, <2>2
<1>3. \/ Refuse(500) /\ memo' = memo
      \/ /\ req' = [req EXCEPT !.pc = done, !.digests = Put(@, input, digest),
                               !.fresh = IF hit \/ stat = Missing THEN @ ELSE @ \cup {input}]
         /\ memo' = (IF hit \/ stat = Missing THEN memo ELSE Remember(path, stat))
         /\ replies' = replies
  BY DEF Digest
<1>4. MemoTrue(memo')
  BY <1>3, MemoRemembers
<1> HIDE DEF hit, digest, stat
<1>5. \/ Refuse(500)
      \/ \E fresh : /\ req' = [req EXCEPT !.pc = done, !.fresh = fresh, !.digests = Put(@, input, stat)]
                    /\ replies' = replies
  BY ZenonT(60), <1>2, <1>3
<1> QED BY <1>1, <1>4, <1>5 DEF stat

LEMMA MemoHolds == Spec => []MemoTrue(memo)
<1>1. Init => MemoTrue(memo)
  BY EmptySeq DEF Init, MemoTrue, IsSeq
<1>2. MemoTrue(memo) /\ [Next]_vars => MemoTrue(memo)'
  <2> SUFFICES ASSUME MemoTrue(memo), [Next]_vars PROVE MemoTrue(memo')
    BY DEF MemoTrue, IsSeq
  <2>1. CASE DigestSource \/ DigestSchedule
    BY <2>1, DigestIsCurrent DEF DigestSource, DigestSchedule, InputNames
  <2>2. CASE Restart
    BY <2>2, EmptySeq DEF Restart, MemoTrue, IsSeq
  <2>3. CASE ~DigestSource /\ ~DigestSchedule /\ ~Restart
    <3>1. memo' = memo
      BY <2>3 DEF Next, vars, Receive, ListPlans, ResolveRun, ResolveRevision, CheckExists, ReadJson, OpenFile,
             FillFile, Publish, Crash, ResolveData, ResolveSchedule, DataCopied, DetectFormat, LookUp,
             Evaluate, StoreAnswer, Tick, Materialize, kept, evaluation, service
    <3> QED BY <3>1
  <2> QED BY <2>1, <2>2, <2>3
<1> QED BY <1>1, <1>2, PTL DEF Spec

\* A stored answer is about inputs no older than its key's.
EntryTrue(e) ==
    e.value = None \/ \A f \in InputNames : /\ e.key[f] \in Data /\ e.value.inputs[f] \in Data
                                            /\ NoOlder(e.value.inputs[f], e.key[f])
CacheTrue(c) == IsSeq(c) /\ \A i \in DOMAIN c : EntryTrue(c[i])

\* A request on its way: what was on disk when it began, the digests taken since
\* and what is there now are each no older than the one before.
FoundThen(r, f, disk) == r.found[f] \in Data /\ NoOlder(At(disk, InputOf(r, f)), r.found[f])
DigestedSince(r, f, disk) ==
    /\ f \in DOMAIN r.digests /\ r.digests[f] \in Data
    /\ NoOlder(r.digests[f], r.found[f]) /\ NoOlder(At(disk, InputOf(r, f)), r.digests[f])
ReadSince(r, f) ==
    /\ r.digests[f] \in Data /\ r.found.inputs[f] \in Data /\ r.found.found[f] \in Data
    /\ NoOlder(r.digests[f], r.found.found[f]) /\ NoOlder(r.found.inputs[f], r.digests[f])
EvaluatingOf(r, disk) ==
    r # Idle =>
        /\ r.pc \in {"revisions", "exists", "read"} => r.call.route # "feasibility"
        /\ r.pc \in {"source", "plan", "lookup", "parse"} => \A f \in InputNames : FoundThen(r, f, disk)
        /\ r.pc \in {"plan", "lookup", "parse"} => DigestedSince(r, "source", disk)
        /\ r.pc \in {"lookup", "parse"} => DigestedSince(r, "schedule", disk)
        /\ r.pc = "store" => \A f \in InputNames : ReadSince(r, f)
Evaluating == EvaluatingOf(req, Disk)

LEMMA EvaluatingGrows ==
    ASSUME NEW r, NEW disk, NEW after, Grows(disk, after), EvaluatingOf(r, disk)
    PROVE  EvaluatingOf(r, after)
<1>1. \A f : /\ FoundThen(r, f, disk) => FoundThen(r, f, after)
             /\ DigestedSince(r, f, disk) => DigestedSince(r, f, after)
  BY NoOlderOrders DEF FoundThen, DigestedSince, Grows
<1> QED BY <1>1 DEF EvaluatingOf

\* Moving a request on to another of its places, what it found and digested kept.
Moved(r, q) ==
    /\ q.call = r.call /\ q.found = r.found /\ q.digests = r.digests
    /\ \/ q.pc = r.pc
       \/ q.pc \in {"copy data", "schedule", "copy schedule"}
       \/ r.pc = "lookup" /\ q.pc = "parse"
       \/ r.pc = "revisions" /\ q.pc = "exists"
       \/ r.pc = "exists" /\ q.pc = "read"
       \/ q.pc \in {"exists", "revisions"} /\ r.call.route # "feasibility"
    /\ \/ q.data = r.data /\ q.path = r.path
       \/ q.pc \in {"copy data", "schedule", "copy schedule", "exists", "read", "revisions"}

LEMMA EvaluatingMoves ==
    ASSUME NEW r, NEW q, NEW disk, EvaluatingOf(r, disk), r # Idle, Moved(r, q)
    PROVE  EvaluatingOf(q, disk)
BY DEF Moved, EvaluatingOf, FoundThen, DigestedSince, ReadSince, InputOf

LEMMA EvaluatingKept ==
    ASSUME Core, MemoTrue(memo), Evaluating, \A k : At(Disk, k) \in Data, [Next]_vars
    PROVE  EvaluatingOf(req', Disk)
<1> USE DEF Refuse, kept, evaluation
<1>0. /\ EvaluatingOf(Idle, Disk)
      /\ \A status, doc : Answer(status, doc) => req' = Idle
      /\ req.pc # "none" => req # Idle /\ DOMAIN req = RequestFields
  BY DEF EvaluatingOf, Idle, Answer, Core
<1>18. ASSUME req.pc # "none", Moved(req, req') PROVE EvaluatingOf(req', Disk)
  BY <1>0, <1>18, EvaluatingMoves DEF Evaluating
<1>1. CASE Receives
  <2>1. req' = req \/ req'.pc = "resolve"
    BY <1>1 DEF Receives, Receive
  <2>2. req'.pc = "resolve" => EvaluatingOf(req', Disk)
    BY DEF EvaluatingOf
  <2> QED BY <2>1, <2>2 DEF Evaluating
<1>2. CASE ListPlans
  BY <1>0, <1>2 DEF ListPlans
<1>3. CASE ResolveRun
  <2>1. /\ req.pc = "resolve" /\ req.call.route \in Plans
        /\ \/ \E status, doc : Answer(status, doc)
           \/ \E pc \in {"exists", "revisions"} : \E p : req' = [req EXCEPT !.pc = pc, !.path = p]
    BY ZenonT(60), <1>3 DEF ResolveRun, Step
  <2>2. req.call.route # "feasibility"
    BY <2>1 DEF Plans
  <2>3. CASE \E pc \in {"exists", "revisions"} : \E p : req' = [req EXCEPT !.pc = pc, !.path = p]
    <3>1. req'.pc \in {"exists", "revisions"} /\ req'.call = req.call /\ req'.found = req.found /\ req'.digests = req.digests
      BY <1>0, <2>1, <2>2, <2>3 DEF RequestFields
    <3> QED BY <1>0, <2>1, <2>2, <2>3, <1>18, <3>1 DEF Moved
  <2> QED BY <1>0, <2>1, <2>3
<1>4. CASE ResolveRevision
  <2>1. /\ req.pc = "revisions"
        /\ \/ \E status, doc : Answer(status, doc)
           \/ \E p : req' = [req EXCEPT !.pc = "exists", !.path = p]
    BY <1>4 DEF ResolveRevision, Step
  <2>2. CASE \E p : req' = [req EXCEPT !.pc = "exists", !.path = p]
    <3>1. req'.pc = "exists" /\ req'.call = req.call /\ req'.found = req.found /\ req'.digests = req.digests
      BY <1>0, <2>1, <2>2 DEF RequestFields
    <3> QED BY <1>0, <2>1, <2>2, <1>18, <3>1 DEF Moved
  <2> QED BY <1>0, <2>1, <2>2
<1>5. CASE CheckExists
  <2>1. /\ req.pc = "exists"
        /\ \/ \E status, doc : Answer(status, doc)
           \/ req' = [req EXCEPT !.pc = "read"]
    BY <1>5 DEF CheckExists, Step
  <2>2. CASE req' = [req EXCEPT !.pc = "read"]
    <3>1. req'.pc = "read" /\ req'.call = req.call /\ req'.found = req.found /\ req'.digests = req.digests
      BY <1>0, <2>1, <2>2 DEF RequestFields
    <3> QED BY <1>0, <2>1, <2>2, <1>18, <3>1 DEF Moved
  <2> QED BY <1>0, <2>1, <2>2
<1>6. CASE ReadJson
  <2>1. \E status, doc : Answer(status, doc)
    BY <1>6 DEF ReadJson
  <2> QED BY <1>0, <2>1
<1>7. CASE ResolveData \/ ResolveSchedule
  <2>1. /\ req.pc \in {"resolve", "schedule"}
        /\ \/ \E status, doc : Answer(status, doc)
           \/ \E pc \in {"copy data", "copy schedule"} : \E p, t : req' = [req EXCEPT !.pc = pc, !.path = p, !.todo = t]
    BY ZenonT(60), <1>7 DEF ResolveData, ResolveSchedule, Resolve, Step
  <2>2. CASE \E pc \in {"copy data", "copy schedule"} : \E p, t : req' = [req EXCEPT !.pc = pc, !.path = p, !.todo = t]
    <3>1. req'.pc \in {"copy data", "copy schedule"} /\ req'.call = req.call /\ req'.found = req.found /\ req'.digests = req.digests
      BY <1>0, <2>1, <2>2 DEF RequestFields
    <3> QED BY <1>0, <2>1, <2>2, <1>18, <3>1 DEF Moved
  <2> QED BY <1>0, <2>1, <2>2
<1>8. CASE Materialize
  <2>1. req # Idle /\ DOMAIN req = RequestFields /\ \E t : req' = [req EXCEPT !.todo = t]
    BY <1>8 DEF Materialize, Core
  <2>2. /\ req'.pc = req.pc /\ req'.call = req.call /\ req'.found = req.found /\ req'.digests = req.digests
        /\ req'.data = req.data /\ req'.path = req.path /\ req.pc # "none"
    BY <2>1 DEF RequestFields, Core
  <2> QED BY <2>2, <1>18 DEF Moved
<1>9. CASE DataCopied
  <2>1. req.pc = "copy data" /\ \E d : req' = [req EXCEPT !.pc = "schedule", !.data = d]
    BY <1>9 DEF DataCopied, Step
  <2>2. req'.pc = "schedule" /\ req'.call = req.call /\ req'.found = req.found /\ req'.digests = req.digests
    BY <1>0, <2>1 DEF RequestFields
  <2> QED BY <2>1, <2>2, <1>18 DEF Moved
<1>10. CASE DetectFormat
  <2> DEFINE found == [i \in DOMAIN Inputs |-> OnDisk(Inputs[i])]
  <2>1. /\ req.pc = "copy schedule"
        /\ \/ \E status, doc : Answer(status, doc)
           \/ req' = [req EXCEPT !.pc = "source", !.found = found]
    BY ZenonT(60), <1>10 DEF DetectFormat, Step
  <2>2. \A f \in InputNames : found[f] = At(Disk, InputOf(req, f))
    <3>1. found["source"] = OnDisk(InputOf(req, "source")) /\ found["schedule"] = OnDisk(InputOf(req, "schedule"))
      BY DEF Inputs, InputOf
    <3> QED BY <3>1 DEF InputNames, OnDisk, At
  <2> HIDE DEF found
  <2>3. CASE req' = [req EXCEPT !.pc = "source", !.found = found]
    <3>1. /\ req'.pc = "source" /\ req'.found = found /\ req'.call = req.call
          /\ \A f : InputOf(req', f) = InputOf(req, f)
      BY <1>0, <2>1, <2>3 DEF RequestFields, InputOf
    <3>2. \A f \in InputNames : FoundThen(req', f, Disk)
      BY <2>2, <3>1, NoOlderOrders DEF FoundThen
    <3> QED BY <3>1, <3>2 DEF EvaluatingOf
  <2> QED BY <1>0, <2>1, <2>3
<1>11. ASSUME NEW f \in InputNames, NEW done, Digest(f, done), req.pc # "none"
       PROVE  \/ req' = Idle
              \/ /\ req'.pc = done /\ req'.call = req.call /\ req'.found = req.found
                 /\ req'.data = req.data /\ req'.path = req.path
                 /\ (FoundThen(req, f, Disk) => DigestedSince(req', f, Disk))
                 /\ \A g \in InputNames : /\ FoundThen(req', g, Disk) <=> FoundThen(req, g, Disk)
                                          /\ (DigestedSince(req, g, Disk) /\ g # f => DigestedSince(req', g, Disk))
  <2> DEFINE digest == OnDisk(InputOf(req, f))
             r == req'
  <2>1. req' = Idle \/ \E fresh : req' = [req EXCEPT !.pc = done, !.fresh = fresh, !.digests = Put(@, f, digest)]
    BY ZenonT(60), <1>0, <1>11, DigestIsCurrent
  <2>2. digest = At(Disk, InputOf(req, f)) /\ digest \in Data
    BY DEF OnDisk, At
  <2> HIDE DEF digest
  <2>3. CASE \E fresh : req' = [req EXCEPT !.pc = done, !.fresh = fresh, !.digests = Put(@, f, digest)]
    <3>1. /\ r.pc = done /\ r.call = req.call /\ r.found = req.found /\ r.data = req.data /\ r.path = req.path
          /\ r.digests = Put(req.digests, f, digest)
      BY <1>0, <1>11, <2>3 DEF RequestFields
    <3> HIDE DEF r
    <3>2. /\ f \in DOMAIN r.digests /\ r.digests[f] = digest
          /\ \A g \in DOMAIN req.digests : g # f => g \in DOMAIN r.digests /\ r.digests[g] = req.digests[g]
      BY <3>1 DEF Put
    <3>3. \A g : InputOf(r, g) = InputOf(req, g)
      BY <3>1 DEF InputOf
    <3>4. FoundThen(req, f, Disk) => DigestedSince(r, f, Disk)
      BY <2>2, <3>1, <3>2, <3>3, NoOlderOrders DEF FoundThen, DigestedSince
    <3>5. \A g \in InputNames : /\ FoundThen(r, g, Disk) <=> FoundThen(req, g, Disk)
                                /\ (DigestedSince(req, g, Disk) /\ g # f => DigestedSince(r, g, Disk))
      BY <3>1, <3>2, <3>3 DEF FoundThen, DigestedSince
    <3> QED BY <3>1, <3>4, <3>5 DEF r
  <2> QED BY <2>1, <2>3
<1>12. CASE DigestSource
  <2>1. req.pc = "source" /\ Digest("source", "plan") /\ req # Idle
    BY <1>0, <1>12 DEF DigestSource, Step
  <2>2. \A f \in InputNames : FoundThen(req, f, Disk)
    BY <2>1 DEF Evaluating, EvaluatingOf
  <2> QED BY <1>0, <1>11, <2>1, <2>2 DEF EvaluatingOf, InputNames
<1>13. CASE DigestSchedule
  <2>1. req.pc = "plan" /\ Digest("schedule", "lookup") /\ req # Idle
    BY <1>0, <1>13 DEF DigestSchedule, Step
  <2>2. (\A f \in InputNames : FoundThen(req, f, Disk)) /\ DigestedSince(req, "source", Disk)
    BY <2>1 DEF Evaluating, EvaluatingOf
  <2> QED BY <1>0, <1>11, <2>1, <2>2 DEF EvaluatingOf, InputNames
<1>14. CASE LookUp
  <2>1. /\ req.pc = "lookup"
        /\ \/ \E status, doc : Answer(status, doc)
           \/ req' = [req EXCEPT !.pc = "parse"]
    BY <1>14 DEF LookUp, Step
  <2>2. CASE req' = [req EXCEPT !.pc = "parse"]
    <3>1. req'.pc = "parse" /\ req'.call = req.call /\ req'.found = req.found /\ req'.digests = req.digests /\ req'.data = req.data /\ req'.path = req.path
      BY <1>0, <2>1, <2>2 DEF RequestFields
    <3> QED BY <1>0, <2>1, <2>2, <1>18, <3>1 DEF Moved
  <2> QED BY <1>0, <2>1, <2>2
<1>15. CASE Evaluate
  <2> DEFINE inputs == [i \in DOMAIN Inputs |-> ReadAgain(i)]
             r == req'
  <2>1. /\ req.pc = "parse"
        /\ \/ \E status, doc : Answer(status, doc)
           \/ req' = [req EXCEPT !.pc = "store", !.found = [inputs |-> inputs, at |-> now, found |-> @]]
    BY <1>15 DEF Evaluate, Step
  <2>2. \A f \in InputNames : inputs[f] \in Data /\ NoOlder(inputs[f], req.digests[f])
    <3>1. ASSUME NEW f \in InputNames PROVE inputs[f] \in Data /\ NoOlder(inputs[f], req.digests[f])
      <4>1. inputs[f] = ReadAgain(f) /\ Inputs[f] = InputOf(req, f)
        <5>1. CASE f = "source"
          BY <5>1 DEF Inputs, InputOf
        <5>2. CASE f = "schedule"
          BY <5>2 DEF Inputs, InputOf
        <5> QED BY <5>1, <5>2 DEF InputNames
      <4>2. DigestedSince(req, f, Disk)
        BY <1>0, <2>1 DEF Evaluating, EvaluatingOf, InputNames
      <4>3. ReadAgain(f) \in Data /\ NoOlder(ReadAgain(f), req.digests[f])
        <5>1. OnDisk(Inputs[f]) = At(Disk, InputOf(req, f))
          BY <4>1 DEF OnDisk, At
        <5>2. ReadAgain(f) = req.digests[f] \/ ReadAgain(f) = OnDisk(Inputs[f])
          BY DEF ReadAgain
        <5> QED BY <4>2, <5>1, <5>2, NoOlderOrders DEF DigestedSince
      <4> HIDE DEF inputs
      <4> QED BY <4>1, <4>3
    <3> QED BY <3>1
  <2> HIDE DEF inputs
  <2>3. CASE req' = [req EXCEPT !.pc = "store", !.found = [inputs |-> inputs, at |-> now, found |-> @]]
    <3>1. /\ r.pc = "store" /\ r.found.inputs = inputs /\ r.found.found = req.found /\ r.digests = req.digests
      BY <1>0, <2>1, <2>3 DEF RequestFields
    <3> HIDE DEF r
    <3>2. \A f \in InputNames : DigestedSince(req, f, Disk) /\ FoundThen(req, f, Disk)
      BY <1>0, <2>1 DEF Evaluating, EvaluatingOf, InputNames
    <3>3. \A f \in InputNames : ReadSince(r, f)
      BY <2>2, <3>1, <3>2 DEF ReadSince, DigestedSince, FoundThen
    <3> QED BY <3>1, <3>3 DEF EvaluatingOf, r
  <2> QED BY <1>0, <2>1, <2>3
<1>16. CASE StoreAnswer \/ Restart
  <2>1. req' = Idle
    BY <1>0, <1>16 DEF StoreAnswer, Restart
  <2> QED BY <1>0, <2>1
<1>17. CASE Tick \/ UNCHANGED vars \/ WriterStep
  <2>1. req' = req
    BY <1>17 DEF Tick, vars, WriterStep, OpenFile, FillFile, Publish, Crash, service
  <2> QED BY SMTT(60), <2>1 DEF Evaluating
<1> QED BY <1>1, <1>2, <1>3, <1>4, <1>5, <1>6, <1>7, <1>8, <1>9, <1>10, <1>12, <1>13, <1>14, <1>15, <1>16, <1>17
       DEF Next, Receives, WriterStep, Writers

LEMMA EvaluatingHolds == Spec => []Evaluating
<1>1. Init => Evaluating
  BY DEF Init, Evaluating, EvaluatingOf
<1>2. Core /\ Writing /\ Copying /\ MemoTrue(memo) /\ Evaluating /\ [Next]_vars => Evaluating'
  <2> SUFFICES ASSUME Core, Writing, Copying, MemoTrue(memo), Evaluating, [Next]_vars PROVE Evaluating'
    OBVIOUS
  <2>1. Grows(Disk, Disk')
    BY StepShapes, DiskGrows
  <2>2. EvaluatingOf(req', Disk)
    BY <2>1, EvaluatingKept DEF Grows
  <2>3. EvaluatingOf(req', Disk')
    BY <2>1, <2>2, EvaluatingGrows
  <2> QED BY <2>3 DEF Evaluating
<1> QED BY <1>1, <1>2, CoreHolds, WritingHolds, CopyingHolds, MemoHolds, PTL DEF Spec

LEMMA CacheShapes ==
    ASSUME NEW c, CacheTrue(c)
    PROVE  /\ CacheTrue(KeepLast(c, CacheMax))
           /\ \A e : EntryTrue(e) => CacheTrue(Append(c, e))
           /\ \A t : Selects(t, c) => CacheTrue(t)
<1>1. IsSeq(c) /\ \A i \in DOMAIN c : EntryTrue(c[i])
  BY DEF CacheTrue
<1>2. ASSUME NEW t, Selects(t, c) PROVE CacheTrue(t)
  BY <1>1, <1>2 DEF Selects, CacheTrue
<1>3. CacheTrue(KeepLast(c, CacheMax))
  <2> DEFINE t == KeepLast(c, CacheMax)
  <2>1. \E lo \in Nat : IsSeq(t) /\ \A i \in DOMAIN t : i + lo \in DOMAIN c /\ t[i] = c[i + lo]
    BY <1>1, KeptLast, BoundsAssumption
  <2> HIDE DEF t
  <2>2. Selects(t, c)
    BY <2>1 DEF Selects
  <2> QED BY <1>2, <2>2 DEF t
<1>4. ASSUME NEW e, EntryTrue(e) PROVE CacheTrue(Append(c, e))
  <2> DEFINE t == Append(c, e)
  <2>1. /\ IsSeq(t) /\ DOMAIN c = 1 .. Len(c) /\ Len(c) \in Nat
        /\ DOMAIN t = 1 .. Len(c) + 1
        /\ \A i \in DOMAIN c : t[i] = c[i]
        /\ t[Len(c) + 1] = e
    BY <1>1, Appended
  <2> HIDE DEF t
  <2>2. \A i \in DOMAIN t : i \in DOMAIN c \/ i = Len(c) + 1
    BY <2>1
  <2> QED BY <1>1, <1>4, <2>1, <2>2 DEF CacheTrue, t
<1> QED BY <1>2, <1>3, <1>4

LEMMA CacheHolds == Spec => []CacheTrue(cache)
<1>1. Init => CacheTrue(cache)
  BY EmptySeq DEF Init, CacheTrue, IsSeq
<1>2. Evaluating /\ CacheTrue(cache) /\ [Next]_vars => CacheTrue(cache)'
  <2> SUFFICES ASSUME Evaluating, CacheTrue(cache), [Next]_vars PROVE CacheTrue(cache')
    BY DEF CacheTrue, IsSeq, EntryTrue
  <2>1. CacheTrue(Others)
    <3>1. CASE Stored = {}
      BY <3>1 DEF Others
    <3>2. CASE Stored # {}
      <4>1. (CHOOSE i \in Stored : TRUE) \in DOMAIN cache /\ IsSeq(cache)
        BY <3>2 DEF Stored, CacheTrue
      <4>2. Selects(Others, cache)
        BY <3>2, <4>1, Removed DEF Others
      <4> QED BY <4>2, CacheShapes
    <3> QED BY <3>1, <3>2
  <2>2. CASE Evaluate
    <3>1. cache' = cache \/ cache' = Append(Others, [key |-> CacheKey, value |-> None])
      BY <2>2 DEF Evaluate
    <3>2. EntryTrue([key |-> CacheKey, value |-> None])
      BY DEF EntryTrue
    <3> QED BY <2>1, <3>1, <3>2, CacheShapes
  <2>3. CASE StoreAnswer
    <3> DEFINE e == [key |-> CacheKey, value |-> [inputs |-> req.found.inputs, at |-> req.found.at]]
    <3>1. cache' = KeepLast(Append(Others, e), CacheMax)
      BY <2>3 DEF StoreAnswer, Prune
    <3>2. \A f \in InputNames : ReadSince(req, f)
      BY <2>3 DEF StoreAnswer, Step, Idle, Evaluating, EvaluatingOf
    <3>3. e.key = req.digests /\ e.value.inputs = req.found.inputs
      BY DEF CacheKey
    <3> HIDE DEF e
    <3>4. EntryTrue(e)
      BY <3>2, <3>3 DEF EntryTrue, ReadSince
    <3>5. CacheTrue(Append(Others, e))
      BY <2>1, <3>4, CacheShapes
    <3> QED BY <3>1, <3>5, CacheShapes
  <2>4. CASE ~Evaluate /\ ~StoreAnswer
    <3>1. cache' = cache
      BY <2>4 DEF Next, vars, Receive, ListPlans, ResolveRun, ResolveRevision, CheckExists, ReadJson, OpenFile,
             FillFile, Publish, Crash, ResolveData, ResolveSchedule, DataCopied, DetectFormat, DigestSource,
             DigestSchedule, LookUp, Tick, Restart, Materialize, kept, evaluation, service
    <3> QED BY SMTT(60), <3>1
  <2> QED BY <2>2, <2>3, <2>4
<1> QED BY <1>1, <1>2, EvaluatingHolds, PTL DEF Spec

Current(doc) == \A f \in InputNames : NoOlder(doc.inputs[f], doc.found[f])
CurrentReply(r) == r.call.route = "feasibility" /\ r.status = 200 => Current(r.doc)

\* What one step answers.
LEMMA AnswerIsCurrent ==
    ASSUME Core, Evaluating, CacheTrue(cache), [Next]_vars
    PROVE  replies' = replies \/ \E r : replies' = Append(replies, r) /\ CurrentReply(r)
<1> USE DEF Refuse
<1> DEFINE Fine == replies' = replies \/ \E r : replies' = Append(replies, r) /\ CurrentReply(r)
<1>1. ASSUME NEW status, NEW doc, Answer(status, doc),
             status # 200 \/ req.call.route # "feasibility" \/ Current(doc)
      PROVE  Fine
  <2> DEFINE r == [call |-> req.call, status |-> status, doc |-> doc, key |-> req.key, at |-> req.at, admitted |-> TRUE]
  <2>1. replies' = Append(replies, r) /\ r.call = req.call /\ r.status = status /\ r.doc = doc
    BY <1>1 DEF Answer
  <2> HIDE DEF r
  <2> QED BY <1>1, <2>1 DEF CurrentReply
<1>2. CASE Receives
  <2>1. PICK caller \in setup.callers, call \in setup.calls : Receive(caller, call)
    BY <1>2 DEF Receives
  <2> DEFINE verdict == Verdict(caller, call)
             r == [call |-> call, status |-> verdict, doc |-> None, key |-> RateKey(caller), at |-> now, admitted |-> FALSE]
  <2>2. replies' = replies \/ (verdict # 200 /\ replies' = Append(replies, r))
    BY <2>1 DEF Receive
  <2>3. r.status = verdict
    OBVIOUS
  <2> HIDE DEF r, verdict
  <2> QED BY <2>2, <2>3 DEF CurrentReply
<1>3. CASE ListPlans
  <2>1. req.call.route = "list" /\ \E status, doc : Answer(status, doc)
    BY <1>3 DEF ListPlans
  <2> QED BY <1>1, <2>1
<1>4. CASE ResolveRun
  <2>1. replies' = replies \/ \E status \in {400, 404} : Answer(status, None)
    BY <1>4 DEF ResolveRun
  <2> QED BY <1>1, <2>1
<1>5. CASE ResolveRevision
  <2>1. replies' = replies \/ \E status \in {404} : Answer(status, None)
    BY <1>5 DEF ResolveRevision
  <2> QED BY <1>1, <2>1
<1>6. CASE CheckExists
  <2>1. replies' = replies \/ \E status \in {404} : Answer(status, None)
    BY <1>6 DEF CheckExists
  <2> QED BY <1>1, <2>1
<1>7. CASE ReadJson
  <2>1. req.call.route # "feasibility" /\ \E status, doc : Answer(status, doc)
    BY <1>7 DEF ReadJson, Step, Evaluating, EvaluatingOf, Idle
  <2> QED BY <1>1, <2>1
<1>8. CASE ResolveData \/ ResolveSchedule
  <2>1. replies' = replies \/ \E status \in {400} : Answer(status, None)
    BY <1>8 DEF ResolveData, ResolveSchedule, Resolve
  <2> QED BY <1>1, <2>1
<1>9. CASE DetectFormat
  <2>1. replies' = replies \/ \E status \in {404, 500} : Answer(status, None)
    BY ZenonT(60), <1>9 DEF DetectFormat
  <2> QED BY <1>1, <2>1
<1>10. CASE DigestSource \/ DigestSchedule
  <2>1. replies' = replies \/ \E status \in {500} : Answer(status, None)
    BY <1>10 DEF DigestSource, DigestSchedule, Digest
  <2> QED BY <1>1, <2>1
<1>11. CASE LookUp
  <2>1. CASE Cached = {}
    BY <1>11, <2>1 DEF LookUp
  <2>2. CASE Cached # {}
    <3> DEFINE i == CHOOSE n \in Cached : TRUE
               doc == [inputs |-> cache[i].value.inputs, at |-> cache[i].value.at, found |-> req.found]
    <3>1. Answer(200, doc)
      BY <1>11, <2>2 DEF LookUp
    <3>2. i \in Cached
      BY <2>2
    <3>3. i \in DOMAIN cache /\ cache[i].key = req.digests /\ cache[i].value # None
      BY <3>2 DEF Cached, Stored, CacheKey
    <3>4. doc.inputs = cache[i].value.inputs /\ doc.found = req.found
      OBVIOUS
    <3>5. \A f \in InputNames : DigestedSince(req, f, Disk) /\ FoundThen(req, f, Disk)
      BY <1>11 DEF LookUp, Step, Idle, Evaluating, EvaluatingOf, InputNames
    <3> HIDE DEF i, doc
    <3>6. Current(doc)
      BY <3>3, <3>4, <3>5, NoOlderOrders DEF Current, CacheTrue, EntryTrue, DigestedSince, FoundThen
    <3> QED BY <1>1, <3>1, <3>6
  <2> QED BY <2>1, <2>2
<1>12. CASE Evaluate
  <2>1. replies' = replies \/ \E status \in {404} : Answer(status, None)
    BY <1>12 DEF Evaluate
  <2> QED BY <1>1, <2>1
<1>13. CASE StoreAnswer
  <2>1. Answer(200, req.found) /\ \A f \in InputNames : ReadSince(req, f)
    BY <1>13 DEF StoreAnswer, Step, Idle, Evaluating, EvaluatingOf
  <2>2. Current(req.found)
    BY <2>1, NoOlderOrders DEF Current, ReadSince
  <2> QED BY <1>1, <2>1, <2>2
<1>14. CASE DataCopied \/ Materialize \/ Tick \/ Restart \/ UNCHANGED vars \/ WriterStep
  BY <1>14 DEF DataCopied, Materialize, Tick, Restart, vars, WriterStep, OpenFile, FillFile, Publish, Crash, service, kept
<1> QED BY <1>2, <1>3, <1>4, <1>5, <1>6, <1>7, <1>8, <1>9, <1>10, <1>11, <1>12, <1>13, <1>14
       DEF Next, Receives, WriterStep, Writers

\* A feasibility answer is never about inputs older than those on disk when its
\* evaluation began, from the digest memo, the response cache, a fresh evaluation
\* or after a restart.
THEOREM FeasibilityIsCurrent == Spec => []FeasibilityCurrent
<1> DEFINE Inv == \A i \in DOMAIN replies : CurrentReply(replies[i])
<1>1. Init => Inv
  BY DEF Init
<1>2. Core /\ Evaluating /\ CacheTrue(cache) /\ Inv /\ [Next]_vars => Inv'
  <2> SUFFICES ASSUME Core, Evaluating, CacheTrue(cache), Inv, [Next]_vars
               PROVE  \A i \in DOMAIN replies' : CurrentReply(replies'[i])
    OBVIOUS
  <2>1. CASE replies' = replies
    BY <2>1
  <2>2. ASSUME NEW r, replies' = Append(replies, r), CurrentReply(r)
        PROVE  \A i \in DOMAIN replies' : CurrentReply(replies'[i])
    <3>1. /\ DOMAIN replies = 1 .. Len(replies) /\ Len(replies) \in Nat
          /\ DOMAIN replies' = 1 .. Len(replies) + 1
          /\ \A i \in DOMAIN replies : replies'[i] = replies[i]
          /\ replies'[Len(replies) + 1] = r
      BY <2>2, Appended DEF Core
    <3>2. \A i \in DOMAIN replies' : i \in DOMAIN replies \/ i = Len(replies) + 1
      BY <3>1
    <3> QED BY <2>2, <3>1, <3>2
  <2> QED BY <2>1, <2>2, AnswerIsCurrent
<1>3. Inv => FeasibilityCurrent
  BY DEF FeasibilityCurrent, CurrentReply, Current, IsRoute, Ok, InputNames
<1> QED BY <1>1, <1>2, <1>3, CoreHolds, EvaluatingHolds, CacheHolds, PTL DEF Spec

-----------------------------------------------------------------------------
(* Listings                                                                *)

\* A non-empty set of naturals has a least element.
LEMMA LeastNumber ==
    ASSUME NEW T \in SUBSET Nat, T # {}
    PROVE  \E x \in T : \A y \in T : x <= y
<1> DEFINE R == {ss \in Nat \X Nat : ss[1] < ss[2]}
<1>1. IsWellFoundedOn(R, Nat)
  BY NatLessThanWellFounded, Zenon DEF OpToRel
<1>2. \E x \in T : \A y \in T : ~ (<<y, x>> \in R)
  <2> HIDE DEF R
  <2> QED BY <1>1, WFMin, Zenon
<1>3. PICK x \in T : \A y \in T : ~ (<<y, x>> \in R)
  BY <1>2
<1>4. ASSUME NEW y \in T PROVE x <= y
  <2>1. <<y, x>> \notin R
    BY <1>3
  <2> QED BY <2>1
<1> QED BY <1>4

\* Of the subsets of a finite set for which something fails, one has no such
\* smaller subset.
LEMMA SmallestSubset ==
    ASSUME NEW T, IsFiniteSet(T), NEW Bad \in SUBSET SUBSET T, Bad # {}
    PROVE  \E s \in Bad : IsFiniteSet(s) /\ \A x \in s : s \ {x} \notin Bad
<1>1. \A s \in SUBSET T : IsFiniteSet(s) /\ Cardinality(s) \in Nat
  BY FS_Subset, FS_CardinalityType
<1> DEFINE N == {Cardinality(s) : s \in Bad}
<1>2. PICK n \in N : \A m \in N : n <= m
  <2>1. N \in SUBSET Nat /\ N # {}
    BY <1>1
  <2> HIDE DEF N
  <2> QED BY <2>1, LeastNumber
<1>3. PICK s \in Bad : n = Cardinality(s)
  OBVIOUS
<1>4. ASSUME NEW x \in s, s \ {x} \in Bad PROVE FALSE
  <2>1. Cardinality(s \ {x}) = Cardinality(s) - 1 /\ Cardinality(s) \in Nat
    BY <1>1, FS_RemoveElement
  <2>2. Cardinality(s) <= Cardinality(s \ {x})
    BY <1>2, <1>3, <1>4
  <2> QED BY <2>1, <2>2
<1> QED BY <1>1, <1>4

LEMMA LargestMember ==
    ASSUME NEW S, IsFiniteSet(S), S \in SUBSET Int, S # {}
    PROVE  \E m \in S : \A y \in S : y <= m
<1> DEFINE HasMax(s) == \E m \in s : \A y \in s : y <= m
           Bad == {s \in SUBSET S : s # {} /\ ~HasMax(s)}
<1>1. SUFFICES ASSUME Bad # {} PROVE FALSE
  OBVIOUS
<1>2. PICK s \in Bad : \A x \in s : s \ {x} \notin Bad
  <2>1. Bad \in SUBSET SUBSET S
    OBVIOUS
  <2> HIDE DEF Bad
  <2> QED BY <1>1, <2>1, SmallestSubset
<1>3. PICK x : x \in s
  OBVIOUS
<1>4. s \ {x} = {} \/ HasMax(s \ {x})
  BY <1>2, <1>3
<1>5. CASE s \ {x} = {}
  <2>1. \A y \in s : y <= x
    BY <1>3, <1>5
  <2> QED BY <1>3, <2>1
<1>6. CASE HasMax(s \ {x})
  <2>1. PICK m \in s \ {x} : \A y \in s \ {x} : y <= m
    BY <1>6
  <2>2. s \in SUBSET Int
    OBVIOUS
  <2>3. CASE x <= m
    <3>1. \A y \in s : y <= m
      BY <2>1, <2>3
    <3> QED BY <3>1
  <2>4. CASE ~(x <= m)
    <3>1. \A y \in s : y <= x
      BY <1>3, <2>1, <2>2, <2>4
    <3> QED BY <1>3, <3>1
  <2> QED BY <2>3, <2>4
<1> QED BY <1>4, <1>5, <1>6

Sorts(s, ids) == s \in [1 .. Cardinality(ids) -> ids] /\ Increasing(s)

LEMMA SortedExists ==
    ASSUME NEW S, IsFiniteSet(S), S \in SUBSET Int
    PROVE  \E s : Sorts(s, S)
<1> DEFINE Bad == {t \in SUBSET S : ~\E s : Sorts(s, t)}
<1>1. SUFFICES ASSUME Bad # {} PROVE FALSE
  OBVIOUS
<1>2. PICK t \in Bad : IsFiniteSet(t) /\ \A x \in t : t \ {x} \notin Bad
  <2>1. Bad \in SUBSET SUBSET S
    OBVIOUS
  <2> HIDE DEF Bad
  <2> QED BY <1>1, <2>1, SmallestSubset
<1>3. CASE t = {}
  <2>1. Cardinality(t) = 0 /\ <<>> \in [1 .. 0 -> t] /\ DOMAIN <<>> = {}
    BY <1>3, FS_EmptySet
  <2>2. Increasing(<<>>)
    BY <2>1 DEF Increasing
  <2> QED BY <2>1, <2>2 DEF Sorts
<1>4. CASE t # {}
  <2>1. PICK m \in t : \A y \in t : y <= m
    BY <1>2, <1>4, LargestMember
  <2> DEFINE rest == t \ {m}
             n == Cardinality(t)
  <2>2. /\ n \in Nat /\ Cardinality(rest) = n - 1 /\ n >= 1
    <3>1. Cardinality(rest) = n - 1 /\ n \in Nat /\ Cardinality(rest) \in Nat
      BY <1>2, FS_RemoveElement, FS_CardinalityType
    <3> HIDE DEF rest, n
    <3> QED BY <3>1
  <2>3. PICK s : Sorts(s, rest)
    BY <1>2
  <2> DEFINE longer == [i \in 1 .. n |-> IF i = n THEN m ELSE s[i]]
  <2>4. /\ DOMAIN s = 1 .. n - 1 /\ \A i \in 1 .. n - 1 : s[i] \in rest
        /\ \A i, j \in 1 .. n - 1 : i < j => s[i] < s[j]
    <3> HIDE DEF n, rest
    <3> QED BY <2>2, <2>3 DEF Sorts, Increasing
  <2>5. longer \in [1 .. n -> t]
    <3>1. \A i \in 1 .. n : i = n \/ i \in 1 .. n - 1
      BY <2>2
    <3> QED BY <2>4, <3>1
  <2>6. Increasing(longer)
    <3> SUFFICES ASSUME NEW i \in 1 .. n, NEW j \in 1 .. n, i < j PROVE longer[i] < longer[j]
      BY DEF Increasing
    <3>1. i \in 1 .. n - 1 /\ longer[i] = s[i]
      BY <2>2
    <3>2. CASE j = n
      <4>1. s[i] \in t /\ s[i] # m /\ s[i] <= m
        BY <2>1, <2>4, <3>1
      <4>2. s[i] \in Int /\ m \in Int
        BY <4>1
      <4> HIDE DEF n, rest
      <4> QED BY <3>1, <3>2, <4>1, <4>2
    <3>3. CASE j # n
      <4>1. j \in 1 .. n - 1 /\ longer[j] = s[j]
        BY <2>2, <3>3
      <4> QED BY <2>4, <3>1, <4>1
    <3> QED BY <3>2, <3>3
  <2>7. Sorts(longer, t)
    BY <2>5, <2>6 DEF Sorts
  <2> QED BY <2>7
<1> QED BY <1>3, <1>4

LEMMA SortedListing ==
    ASSUME NEW ids, IsFiniteSet(ids), ids \in SUBSET Int
    PROVE  /\ Sorts(SortedIds(ids), ids) /\ SortedIds(ids) \in Seq(Int)
           /\ DOMAIN SortedIds(ids) = 1 .. Len(SortedIds(ids)) /\ Len(SortedIds(ids)) \in Nat
           /\ \A i \in DOMAIN SortedIds(ids) : SortedIds(ids)[i] \in ids
<1> DEFINE s == SortedIds(ids)
<1>1. Sorts(s, ids)
  <2>1. \E t \in [1 .. Cardinality(ids) -> ids] : Increasing(t)
    BY SortedExists DEF Sorts
  <2> QED BY <2>1 DEF Sorts, SortedIds
<1>2. Cardinality(ids) \in Nat
  BY FS_CardinalityType
<1> HIDE DEF s
<1>3. s \in Seq(ids)
  BY <1>1, <1>2, IsASeq DEF Sorts
<1>4. DOMAIN s = 1 .. Len(s) /\ Len(s) \in Nat /\ \A i \in DOMAIN s : s[i] \in ids
  BY <1>3, LenProperties
<1>5. s \in Seq(Int)
  BY <1>3, SeqMonotonic
<1> QED BY <1>1, <1>4, <1>5 DEF s

LEMMA PrefixAgrees ==
    ASSUME NEW S, NEW s \in Seq(S), NEW t \in Seq(S), IsPrefix(s, t)
    PROVE  Len(s) <= Len(t) /\ \A i \in 1 .. Len(s) : s[i] = t[i]
<1>1. Len(s) \in Nat /\ Len(t) \in Nat /\ Len(s) <= Len(t) /\ SubSeq(s, 1, Len(s)) = SubSeq(t, 1, Len(s))
  BY LenProperties DEF IsPrefix
<1>2. \A i \in 1 .. Len(s) : s[i] \in S /\ t[i] \in S
  BY <1>1, ElementOfSeq
<1>3. \A i \in 1 .. Len(s) - 1 + 1 : SubSeq(s, 1, Len(s))[i] = s[1 + i - 1]
  BY <1>1, <1>2, SubSeqProperties
<1>4. \A i \in 1 .. Len(s) - 1 + 1 : SubSeq(t, 1, Len(s))[i] = t[1 + i - 1]
  BY <1>1, <1>2, SubSeqProperties
<1>5. ASSUME NEW i \in 1 .. Len(s) PROVE s[i] = t[i]
  <2>1. i \in 1 .. Len(s) - 1 + 1 /\ 1 + i - 1 = i
    BY <1>1
  <2> QED BY <1>1, <1>3, <1>4, <2>1
<1> QED BY <1>1, <1>5

\* The two forms of a key.
RunKey(k, d, run, f) == k = <<d, run, f>>
RevisionKey(k, d, run, f) == k = <<"plan-rolling", d, "revisions", run, f>>

LEMMA FrontReplaced ==
    ASSUME NEW S, NEW s \in Seq(S), NEW t \in Seq(S), Len(s) >= 1, Len(t) = Len(s),
           \A i \in 1 .. Len(s) - 1 : s[i] = t[i]
    PROVE  Append(Front(s), t[Len(t)]) = t
<1> DEFINE u == Front(s)
           n == Len(s)
<1>1. n \in Nat /\ \A i \in 1 .. n : s[i] \in S /\ t[i] \in S
  BY LenProperties, ElementOfSeq
<1>2. u \in Seq(S) /\ Len(u) = n - 1 /\ \A i \in 1 .. n - 1 : u[i] = s[i]
  <2>1. /\ SubSeq(s, 1, n - 1) \in Seq(S)
        /\ Len(SubSeq(s, 1, n - 1)) = IF 1 <= n - 1 THEN n - 1 - 1 + 1 ELSE 0
        /\ \A i \in 1 .. n - 1 - 1 + 1 : SubSeq(s, 1, n - 1)[i] = s[1 + i - 1]
    BY <1>1, SubSeqProperties
  <2>2. u = SubSeq(s, 1, n - 1)
    BY DEF Front
  <2> HIDE DEF u, n
  <2>3. \A i \in 1 .. n - 1 : i \in 1 .. n - 1 - 1 + 1 /\ 1 + i - 1 = i
    BY <1>1
  <2>4. n >= 1
    BY DEF n
  <2> QED BY <1>1, <2>1, <2>2, <2>3, <2>4
<1> HIDE DEF u
<1>3. /\ Append(u, t[n]) \in Seq(S) /\ Len(Append(u, t[n])) = n
      /\ \A i \in 1 .. n : Append(u, t[n])[i] = IF i <= n - 1 THEN u[i] ELSE t[n]
  BY <1>1, <1>2
<1>4. \A i \in 1 .. n : Append(u, t[n])[i] = t[i]
  <2> SUFFICES ASSUME NEW i \in 1 .. n PROVE Append(u, t[n])[i] = t[i]
    OBVIOUS
  <2>1. CASE i = n
    BY <1>1, <1>3, <2>1
  <2>2. CASE i # n
    <3>1. i \in 1 .. n - 1 /\ i <= n - 1
      BY <1>1, <2>2
    <3> QED BY <1>2, <1>3, <3>1
  <2> QED BY <2>1, <2>2
<1> HIDE DEF n
<1>5. Append(u, t[n]) = t
  <2>1. Len(t) = n
    BY DEF n
  <2> QED BY <1>3, <1>4, <2>1, SeqEqual
<1> QED BY <1>5 DEF u, n

LEMMA KeyForms ==
    ASSUME Writing, NEW k \in DOMAIN store
    PROVE  \E w \in Writers : \E j \in Jobs(w) : \E f \in Range(JobAt(w, j).files) \cup {Marker} : \E d :
              /\ k = KeyOf(w, j, f) /\ JobAt(w, j).run \in Nat
              /\ \/ JobAt(w, j).dir = <<d>> /\ RunKey(k, d, JobAt(w, j).run, f)
                 \/ JobAt(w, j).dir = <<"plan-rolling", d, "revisions">> /\ RevisionKey(k, d, JobAt(w, j).run, f)
<1>5. PICK w \in Writers : \E j \in Jobs(w) : \E f \in Range(JobAt(w, j).files) \cup {Marker} : k = KeyOf(w, j, f)
  BY DEF Writing, WritingOf, StoreTyped
<1>6. PICK j \in Jobs(w) : \E f \in Range(JobAt(w, j).files) \cup {Marker} : k = KeyOf(w, j, f)
  BY <1>5
<1>1. PICK f \in Range(JobAt(w, j).files) \cup {Marker} : k = KeyOf(w, j, f)
  BY <1>6
<1>2. JobShape(JobAt(w, j)) /\ JobAt(w, j).run \in Nat
  BY JobFacts DEF Writing, WritingOf, JobShape
<1> DEFINE job == JobAt(w, j)
<1>3. k = Key(job.dir, job.run, f)
  BY <1>1 DEF KeyOf
<1> HIDE DEF job
<1>4. \E d : \/ job.dir = <<d>> /\ RunKey(k, d, job.run, f)
             \/ job.dir = <<"plan-rolling", d, "revisions">> /\ RevisionKey(k, d, job.run, f)
  <2>1. JobShape(job)
    BY <1>2 DEF job
  <2> QED BY <1>3, <2>1, KeyShape DEF RunKey, RevisionKey
<1> QED BY <1>1, <1>2, <1>4 DEF job

\* What a listing returns: a run with a marker of its own for each entry.
LEMMA ListedOf ==
    ASSUME Writing, NEW base,
           \A k \in DOMAIN store : Under(base, k) /\ Carries(base, k) => k[Len(base) + 1] \in Int
    PROVE  /\ ListRunIds(base) \in Seq(Int)
           /\ DOMAIN ListRunIds(base) = 1 .. Len(ListRunIds(base)) /\ Len(ListRunIds(base)) \in Nat
           /\ \A i \in DOMAIN ListRunIds(base) :
                \E k \in DOMAIN store : Under(base, k) /\ Carries(base, k) /\ ListRunIds(base)[i] = k[Len(base) + 1]
<1> DEFINE keys == {k \in DOMAIN store : Under(base, k) /\ Carries(base, k)}
           ids == {k[Len(base) + 1] : k \in keys}
<1>1. IsFiniteSet(keys)
  BY FS_Subset DEF Writing, WritingOf, StoreTyped
<1>2. IsFiniteSet(ids) /\ ids \in SUBSET Int
  <2>1. IsFiniteSet(ids)
    <3> DEFINE run == [k \in keys |-> k[Len(base) + 1]]
    <3>1. run \in Surjection(keys, ids)
      BY DEF Surjection
    <3> HIDE DEF keys, ids, run
    <3> QED BY <1>1, <3>1, FS_Surjection
  <2> QED BY <2>1
<1>3. ListRunIds(base) = SortedIds(ids)
  BY DEF ListRunIds
<1> HIDE DEF ids
<1>4. /\ DOMAIN ListRunIds(base) = 1 .. Len(ListRunIds(base)) /\ Len(ListRunIds(base)) \in Nat
      /\ ListRunIds(base) \in Seq(Int)
      /\ \A i \in DOMAIN ListRunIds(base) : ListRunIds(base)[i] \in ids
  BY <1>2, <1>3, SortedListing
<1> QED BY <1>4 DEF ids

LEMMA PublishedRuns ==
    ASSUME Writing, ObjectStore, NEW a
    PROVE  LET runs == ListRunIds(<<a>>)
           IN  /\ DOMAIN runs = 1 .. Len(runs) /\ Len(runs) \in Nat /\ runs \in Seq(Int)
               /\ \A i \in DOMAIN runs : runs[i] \in Nat /\ <<a, runs[i], Marker>> \in DOMAIN store
<1>1. ASSUME NEW k \in DOMAIN store, Under(<<a>>, k), Carries(<<a>>, k)
      PROVE  \E n \in Nat : k = <<a, n, Marker>>
  <2>1. Len(k) = 3 /\ k[3] = Marker /\ IsPrefix(<<a>>, k)
    BY <1>1 DEF Under, Carries
  <2>2. PICK n \in Nat : \E d, f : RunKey(k, d, n, f) \/ RevisionKey(k, d, n, f)
    BY KeyForms
  <2>5. PICK d, f : RunKey(k, d, n, f) \/ RevisionKey(k, d, n, f)
    BY <2>2
  <2>3. k = <<d, n, f>>
    BY <2>1, <2>5 DEF RunKey, RevisionKey
  <2>4. a = d
    <3> DEFINE S == {a, d, n, f}
               s == <<a>>
    <3>1. s \in Seq(S) /\ k \in Seq(S) /\ Len(s) = 1 /\ s[1] = a /\ k[1] = d
      BY <2>3
    <3>2. IsPrefix(s, k)
      BY <2>1
    <3> HIDE DEF s, S
    <3> QED BY <3>1, <3>2, PrefixAgrees
  <2> QED BY <2>1, <2>3, <2>4
<1> DEFINE base == <<a>>
<1>2. \A k \in DOMAIN store : Under(base, k) /\ Carries(base, k) => k[2] \in Nat /\ k = <<a, k[2], Marker>>
  BY <1>1
<1>3. Len(base) + 1 = 2
  OBVIOUS
<1> HIDE DEF base
<1>4. /\ DOMAIN ListRunIds(base) = 1 .. Len(ListRunIds(base)) /\ Len(ListRunIds(base)) \in Nat
      /\ ListRunIds(base) \in Seq(Int)
      /\ \A i \in DOMAIN ListRunIds(base) :
            \E k \in DOMAIN store : Under(base, k) /\ Carries(base, k) /\ ListRunIds(base)[i] = k[2]
  <2>1. \A k \in DOMAIN store : Under(base, k) /\ Carries(base, k) => k[Len(base) + 1] \in Int
    BY <1>2, <1>3
  <2> QED BY <1>3, <2>1, ListedOf
<1>5. \A i \in DOMAIN ListRunIds(base) : ListRunIds(base)[i] \in Nat /\ <<a, ListRunIds(base)[i], Marker>> \in DOMAIN store
  BY <1>2, <1>4
<1> QED BY <1>4, <1>5 DEF base

LEMMA PublishedRevisions ==
    ASSUME Writing, ObjectStore, NEW a, NEW b, NEW c
    PROVE  LET runs == ListRunIds(<<a, b, c>>)
           IN  /\ DOMAIN runs = 1 .. Len(runs) /\ Len(runs) \in Nat /\ runs \in Seq(Int)
               /\ \A i \in DOMAIN runs :
                    /\ runs[i] \in Nat /\ a = "plan-rolling" /\ c = "revisions"
                    /\ <<a, b, c, runs[i], Marker>> \in DOMAIN store
<1>1. ASSUME NEW k \in DOMAIN store, Under(<<a, b, c>>, k), Carries(<<a, b, c>>, k)
      PROVE  a = "plan-rolling" /\ c = "revisions" /\ \E n \in Nat : k = <<a, b, c, n, Marker>>
  <2>1. Len(k) = 5 /\ k[5] = Marker /\ IsPrefix(<<a, b, c>>, k)
    BY <1>1 DEF Under, Carries
  <2>2. PICK n \in Nat : \E d, f : RunKey(k, d, n, f) \/ RevisionKey(k, d, n, f)
    BY KeyForms
  <2>5. PICK d, f : RunKey(k, d, n, f) \/ RevisionKey(k, d, n, f)
    BY <2>2
  <2>3. k = <<"plan-rolling", d, "revisions", n, f>>
    BY <2>1, <2>5 DEF RunKey, RevisionKey
  <2>4. a = "plan-rolling" /\ b = d /\ c = "revisions"
    <3> DEFINE S == {"plan-rolling", "revisions", a, b, c, d, n, f}
               s == <<a, b, c>>
    <3>1. /\ s \in Seq(S) /\ k \in Seq(S) /\ Len(s) = 3 /\ s[1] = a /\ s[2] = b /\ s[3] = c
          /\ k[1] = "plan-rolling" /\ k[2] = d /\ k[3] = "revisions"
      BY <2>3
    <3>2. IsPrefix(s, k)
      BY <2>1
    <3> HIDE DEF s, S
    <3>3. \A i \in 1 .. 3 : s[i] = k[i]
      BY <3>1, <3>2, PrefixAgrees
    <3> QED BY <3>1, <3>3
  <2> QED BY <2>1, <2>3, <2>4
<1> DEFINE base == <<a, b, c>>
           Rolling == a = "plan-rolling" /\ c = "revisions"
<1>2. \A k \in DOMAIN store : Under(base, k) /\ Carries(base, k) => k[4] \in Nat /\ k = <<a, b, c, k[4], Marker>> /\ Rolling
  BY <1>1
<1>3. Len(base) + 1 = 4
  OBVIOUS
<1> HIDE DEF base
<1>4. /\ DOMAIN ListRunIds(base) = 1 .. Len(ListRunIds(base)) /\ Len(ListRunIds(base)) \in Nat
      /\ ListRunIds(base) \in Seq(Int)
      /\ \A i \in DOMAIN ListRunIds(base) :
            \E k \in DOMAIN store : Under(base, k) /\ Carries(base, k) /\ ListRunIds(base)[i] = k[4]
  <2>1. \A k \in DOMAIN store : Under(base, k) /\ Carries(base, k) => k[Len(base) + 1] \in Int
    BY <1>2, <1>3
  <2> QED BY <1>3, <2>1, ListedOf
<1>5. \A i \in DOMAIN ListRunIds(base) :
            ListRunIds(base)[i] \in Nat /\ Rolling /\ <<a, b, c, ListRunIds(base)[i], Marker>> \in DOMAIN store
  BY <1>2, <1>4
<1> QED BY <1>4, <1>5 DEF base

\* A published run's required document is a file of it.
ServedPath(p, st) ==
    \E w \in Writers : \E j \in Jobs(w) : \E i \in Files(w, j) : p = PathOf(w, j, i) /\ MarkerOf(w, j) \in DOMAIN st

LEMMA RunDocument ==
    ASSUME Writing, NEW a, NEW n, <<a, n, Marker>> \in DOMAIN store, NEW f,
           (a = "plan-periodic" /\ f = "plan") \/ (a = "plan-rolling" /\ f = "summary")
    PROVE  ServedPath(<<a, n, f>>, store)
<1> DEFINE k == <<a, n, Marker>>
<1>7. PICK w \in Writers : \E j \in Jobs(w) : \E g \in Range(JobAt(w, j).files) \cup {Marker} : \E d :
              /\ k = KeyOf(w, j, g)
              /\ \/ JobAt(w, j).dir = <<d>> /\ RunKey(k, d, JobAt(w, j).run, g)
                 \/ JobAt(w, j).dir = <<"plan-rolling", d, "revisions">> /\ RevisionKey(k, d, JobAt(w, j).run, g)
  <2>1. k \in DOMAIN store
    OBVIOUS
  <2> HIDE DEF k
  <2> QED BY <2>1, KeyForms
<1>8. PICK j \in Jobs(w) : \E g \in Range(JobAt(w, j).files) \cup {Marker} : \E d :
              /\ k = KeyOf(w, j, g)
              /\ \/ JobAt(w, j).dir = <<d>> /\ RunKey(k, d, JobAt(w, j).run, g)
                 \/ JobAt(w, j).dir = <<"plan-rolling", d, "revisions">> /\ RevisionKey(k, d, JobAt(w, j).run, g)
  BY <1>7
<1>9. PICK g \in Range(JobAt(w, j).files) \cup {Marker} : \E d :
              /\ k = KeyOf(w, j, g)
              /\ \/ JobAt(w, j).dir = <<d>> /\ RunKey(k, d, JobAt(w, j).run, g)
                 \/ JobAt(w, j).dir = <<"plan-rolling", d, "revisions">> /\ RevisionKey(k, d, JobAt(w, j).run, g)
  BY <1>8
<1>1. PICK d :
              /\ k = KeyOf(w, j, g)
              /\ \/ JobAt(w, j).dir = <<d>> /\ RunKey(k, d, JobAt(w, j).run, g)
                 \/ JobAt(w, j).dir = <<"plan-rolling", d, "revisions">> /\ RevisionKey(k, d, JobAt(w, j).run, g)
  BY <1>9
<1> DEFINE job == JobAt(w, j)
<1>2. job.dir = <<a>> /\ job.run = n /\ g = Marker
  <2>1. ~RevisionKey(k, d, job.run, g)
    <3>1. Len(k) = 3 /\ Len(<<"plan-rolling", d, "revisions", job.run, g>>) = 5
      OBVIOUS
    <3> HIDE DEF k, job
    <3> QED BY <3>1 DEF RevisionKey
  <2>2. job.dir = <<d>> /\ k = <<d, job.run, g>>
    BY <1>1, <2>1 DEF RunKey
  <2> HIDE DEF job
  <2> QED BY <2>2
<1>3. JobShape(job) /\ f \in Range(job.files)
  <2>1. JobShape(job)
    BY JobFacts DEF Writing, WritingOf
  <2>2. f \in Required(job.dir)
    BY <1>2 DEF Required
  <2> QED BY <2>1, <2>2 DEF JobShape
<1>4. PICK i \in Files(w, j) : job.files[i] = f
  BY <1>3 DEF Files, Range
<1>5. PathOf(w, j, i) = Key(<<a>>, n, f) /\ MarkerOf(w, j) = k
  <2>1. MarkerOf(w, j) = k
    BY <1>1, <1>2 DEF MarkerOf
  <2> QED BY <1>2, <1>4, <2>1 DEF PathOf, KeyOf
<1>6. Key(<<a>>, n, f) = <<a, n, f>>
  <2> HIDE DEF job
  <2>1. Key(job.dir, job.run, f) = <<job.dir[1], job.run, f>> \/ Len(job.dir) = 3
    BY <1>3, KeyShapes
  <2>2. Len(job.dir) = 1 /\ job.dir[1] = a
    BY <1>2
  <2> QED BY <1>2, <2>1, <2>2
<1> QED BY <1>4, <1>5, <1>6 DEF ServedPath

LEMMA RevisionDocument ==
    ASSUME Writing, NEW b, NEW n, <<"plan-rolling", b, "revisions", n, Marker>> \in DOMAIN store
    PROVE  ServedPath(Key(<<"plan-rolling", b, "revisions">>, n, "plan"), store)
<1> DEFINE k == <<"plan-rolling", b, "revisions", n, Marker>>
           base == <<"plan-rolling", b, "revisions">>
<1>7. PICK w \in Writers : \E j \in Jobs(w) : \E g \in Range(JobAt(w, j).files) \cup {Marker} : \E d :
              /\ k = KeyOf(w, j, g)
              /\ \/ JobAt(w, j).dir = <<d>> /\ RunKey(k, d, JobAt(w, j).run, g)
                 \/ JobAt(w, j).dir = <<"plan-rolling", d, "revisions">> /\ RevisionKey(k, d, JobAt(w, j).run, g)
  <2>1. k \in DOMAIN store
    OBVIOUS
  <2> HIDE DEF k
  <2> QED BY <2>1, KeyForms
<1>8. PICK j \in Jobs(w) : \E g \in Range(JobAt(w, j).files) \cup {Marker} : \E d :
              /\ k = KeyOf(w, j, g)
              /\ \/ JobAt(w, j).dir = <<d>> /\ RunKey(k, d, JobAt(w, j).run, g)
                 \/ JobAt(w, j).dir = <<"plan-rolling", d, "revisions">> /\ RevisionKey(k, d, JobAt(w, j).run, g)
  BY <1>7
<1>9. PICK g \in Range(JobAt(w, j).files) \cup {Marker} : \E d :
              /\ k = KeyOf(w, j, g)
              /\ \/ JobAt(w, j).dir = <<d>> /\ RunKey(k, d, JobAt(w, j).run, g)
                 \/ JobAt(w, j).dir = <<"plan-rolling", d, "revisions">> /\ RevisionKey(k, d, JobAt(w, j).run, g)
  BY <1>8
<1>1. PICK d :
              /\ k = KeyOf(w, j, g)
              /\ \/ JobAt(w, j).dir = <<d>> /\ RunKey(k, d, JobAt(w, j).run, g)
                 \/ JobAt(w, j).dir = <<"plan-rolling", d, "revisions">> /\ RevisionKey(k, d, JobAt(w, j).run, g)
  BY <1>9
<1> DEFINE job == JobAt(w, j)
<1>2. job.dir = base /\ job.run = n /\ g = Marker
  <2>1. ~RunKey(k, d, job.run, g)
    <3>1. Len(k) = 5 /\ Len(<<d, job.run, g>>) = 3
      OBVIOUS
    <3> HIDE DEF k, job
    <3> QED BY <3>1 DEF RunKey
  <2>2. job.dir = <<"plan-rolling", d, "revisions">> /\ k = <<"plan-rolling", d, "revisions", job.run, g>>
    BY <1>1, <2>1 DEF RevisionKey
  <2> HIDE DEF job
  <2> QED BY <2>2
<1>3. JobShape(job) /\ "plan" \in Range(job.files)
  <2>1. JobShape(job)
    BY JobFacts DEF Writing, WritingOf
  <2>2. "plan" \in Required(job.dir)
    <3>1. Len(base) = 3
      OBVIOUS
    <3> HIDE DEF base
    <3> QED BY <1>2, <3>1 DEF Required
  <2> QED BY <2>1, <2>2 DEF JobShape
<1>4. PICK i \in Files(w, j) : job.files[i] = "plan"
  BY <1>3 DEF Files, Range
<1>5. PathOf(w, j, i) = Key(base, n, "plan") /\ MarkerOf(w, j) = k
  <2>1. MarkerOf(w, j) = k
    BY <1>1, <1>2 DEF MarkerOf
  <2> QED BY <1>2, <1>4, <2>1 DEF PathOf, KeyOf
<1> QED BY <1>4, <1>5 DEF ServedPath

LEMMA FrontOfKey ==
    ASSUME setup \in Setups, NEW w \in Writers, NEW j \in Jobs(w), NEW f
    PROVE  Append(Front(KeyOf(w, j, f)), Marker) = MarkerOf(w, j)
<1> DEFINE job == JobAt(w, j)
           p == KeyOf(w, j, f)
<1>1. JobShape(job) /\ p = Key(job.dir, job.run, f) /\ MarkerOf(w, j) = Key(job.dir, job.run, Marker)
  BY JobFacts DEF MarkerOf, KeyOf
<1>5. SUFFICES Append(Front(p), Marker) = MarkerOf(w, j)
  OBVIOUS
<1> HIDE DEF job, p
<1>2. CASE /\ p = <<job.dir[1], job.run, f>>
           /\ Key(job.dir, job.run, Marker) = <<job.dir[1], job.run, Marker>>
  <2> DEFINE a == job.dir[1]
             n == job.run
  <2> HIDE DEF a, n
  <2>1. Append(Front(<<a, n, f>>), Marker) = <<a, n, Marker>>
    <3> DEFINE S == {a, n, f, Marker}
               q == <<a, n, f>>
               t == <<a, n, Marker>>
    <3>1. /\ q \in Seq(S) /\ t \in Seq(S) /\ Len(q) = 3 /\ Len(t) = 3 /\ t[3] = Marker
          /\ \A i \in 1 .. 2 : q[i] = t[i]
      OBVIOUS
    <3> HIDE DEF S, q, t
    <3>2. Append(Front(q), t[3]) = t
      <4>1. Len(q) >= 1 /\ Len(t) = Len(q) /\ \A i \in 1 .. Len(q) - 1 : q[i] = t[i]
        BY <3>1
      <4>2. Append(Front(q), t[Len(t)]) = t
        BY <3>1, <4>1, FrontReplaced
      <4> QED BY <3>1, <4>2
    <3> QED BY <3>1, <3>2 DEF q, t
  <2> QED BY <1>1, <1>2, <2>1 DEF a, n
<1>3. CASE /\ p = <<"plan-rolling", job.dir[2], "revisions", job.run, f>>
           /\ Key(job.dir, job.run, Marker) = <<"plan-rolling", job.dir[2], "revisions", job.run, Marker>>
  <2> DEFINE a == job.dir[2]
             n == job.run
  <2> HIDE DEF a, n
  <2>1. Append(Front(<<"plan-rolling", a, "revisions", n, f>>), Marker) = <<"plan-rolling", a, "revisions", n, Marker>>
    <3> DEFINE S == {"plan-rolling", "revisions", a, n, f, Marker}
               q == <<"plan-rolling", a, "revisions", n, f>>
               t == <<"plan-rolling", a, "revisions", n, Marker>>
    <3>1. /\ q \in Seq(S) /\ t \in Seq(S) /\ Len(q) = 5 /\ Len(t) = 5 /\ t[5] = Marker
          /\ \A i \in 1 .. 4 : q[i] = t[i]
      OBVIOUS
    <3> HIDE DEF S, q, t
    <3>2. Append(Front(q), t[5]) = t
      <4>1. Len(q) >= 1 /\ Len(t) = Len(q) /\ \A i \in 1 .. Len(q) - 1 : q[i] = t[i]
        BY <3>1
      <4>2. Append(Front(q), t[Len(t)]) = t
        BY <3>1, <4>1, FrontReplaced
      <4> QED BY <3>1, <4>2
    <3> QED BY <3>1, <3>2 DEF q, t
  <2> QED BY <1>1, <1>3, <2>1 DEF a, n
<1> QED BY <1>1, <1>2, <1>3, KeyShapes

\* What belongs to a published run is there, whole, and stays.
LEMMA ServedWhole ==
    ASSUME Writing, NEW p, ServedPath(p, store)
    PROVE  p \in DOMAIN store /\ store[p].whole /\ Committed(p)
<1>5. PICK w \in Writers : \E j \in Jobs(w) : \E i \in Files(w, j) :
            p = PathOf(w, j, i) /\ MarkerOf(w, j) \in DOMAIN store
  BY DEF ServedPath
<1>6. PICK j \in Jobs(w) : \E i \in Files(w, j) : p = PathOf(w, j, i) /\ MarkerOf(w, j) \in DOMAIN store
  BY <1>5
<1>1. PICK i \in Files(w, j) : p = PathOf(w, j, i) /\ MarkerOf(w, j) \in DOMAIN store
  BY <1>6
<1>2. j < writer[w].job
  <2>1. j \in Nat /\ writer[w].job \in Nat
    BY JobFacts DEF Writing, WritingOf, WritersTyped, WriterState
  <2>2. ~(j >= writer[w].job)
    BY <1>1 DEF Writing, WritingOf, Unpublished
  <2> QED BY <2>1, <2>2
<1>3. p \in DOMAIN store /\ store[p].whole
  BY <1>1, <1>2 DEF Writing, WritingOf, WrittenWhole
<1>4. Append(Front(p), Marker) = MarkerOf(w, j)
  BY <1>1, FrontOfKey DEF Writing, WritingOf, PathOf
<1> QED BY <1>1, <1>3, <1>4 DEF Committed

-----------------------------------------------------------------------------
(* Only published runs are served                                          *)

Evaluations == {"copy data", "schedule", "copy schedule", "source", "plan", "lookup", "parse", "store"}

\* A request for a plan, once it has resolved, is for a published document.
ServingOf(r, st) ==
    r # Idle =>
        /\ r.call \in setup.calls
        /\ r.pc \in Evaluations => r.call.route = "feasibility"
        /\ r.pc = "revisions" => r.call.route \in {"plan", "revision"} /\ \E m, n : r.path = <<m, n, "revisions">>
        /\ ObjectStore /\ r.pc \in {"exists", "read"} => ServedPath(r.path, st)
Serving == ServingOf(req, store)

Steered(r, q) ==
    /\ q.call = r.call
    /\ \/ q.pc = r.pc /\ q.path = r.path
       \/ q.pc \in Evaluations /\ r.pc \in Evaluations
       \/ q.pc \in Evaluations /\ r.call.route = "feasibility"
       \/ q.pc = "read" /\ r.pc = "exists" /\ q.path = r.path

LEMMA ServingMoves ==
    ASSUME NEW r, NEW q, NEW st, ServingOf(r, st), r # Idle, Steered(r, q)
    PROVE  ServingOf(q, st)
BY DEF Steered, ServingOf, Evaluations

LEMMA ResolvedRun ==
    ASSUME Core, Writing, Serving, ResolveRun, req' # Idle
    PROVE  ServingOf(req', store)
<1> DEFINE runs == ListRunIds(<<req.call.mode>>)
           run == IF req.call.run = Latest THEN Last(runs) ELSE req.call.run
           mode == req.call.mode
           route == req.call.route
<1>1. /\ req.pc = "resolve" /\ route \in Plans \ {"list"} /\ Contains(runs, run)
      /\ req' = IF route = "summary"
                THEN [req EXCEPT !.pc = "exists", !.path = <<mode, run, "summary">>]
                ELSE IF mode = "plan-periodic"
                THEN [req EXCEPT !.pc = "exists", !.path = <<mode, run, "plan">>]
                ELSE [req EXCEPT !.pc = "revisions", !.path = <<mode, run, "revisions">>]
  BY DEF ResolveRun, Step, Refuse, Answer
<1>2. req # Idle /\ DOMAIN req = RequestFields /\ req.call \in setup.calls
  <2>1. req # Idle
    BY <1>1 DEF Idle
  <2> QED BY <2>1 DEF Core, Serving, ServingOf
<1>3. ObjectStore => <<mode, run, Marker>> \in DOMAIN store
  <2> SUFFICES ASSUME ObjectStore PROVE <<mode, run, Marker>> \in DOMAIN store
    OBVIOUS
  <2> HIDE DEF run
  <2>1. PICK i \in 1 .. Len(runs) : runs[i] = run
    BY <1>1 DEF Contains
  <2>2. DOMAIN runs = 1 .. Len(runs) /\ \A n \in DOMAIN runs : <<mode, runs[n], Marker>> \in DOMAIN store
    BY PublishedRuns
  <2> QED BY <2>1, <2>2
<1>4. route \in {"summary", "revision"} => mode = "plan-rolling"
  BY <1>2, CallsAssumption DEF Core
<1> HIDE DEF run, runs
<1>5. CASE route = "summary"
  <2>1. req'.pc = "exists" /\ req'.path = <<mode, run, "summary">> /\ req'.call = req.call
    BY <1>1, <1>2, <1>5 DEF RequestFields
  <2>2. ObjectStore => ServedPath(<<mode, run, "summary">>, store)
    BY <1>3, <1>4, <1>5, RunDocument
  <2> QED BY <1>2, <2>1, <2>2 DEF ServingOf, Evaluations
<1>6. CASE route # "summary" /\ mode = "plan-periodic"
  <2>1. req'.pc = "exists" /\ req'.path = <<mode, run, "plan">> /\ req'.call = req.call
    BY <1>1, <1>2, <1>6 DEF RequestFields
  <2>2. ObjectStore => ServedPath(<<mode, run, "plan">>, store)
    BY <1>3, <1>6, RunDocument
  <2> QED BY <1>2, <2>1, <2>2 DEF ServingOf, Evaluations
<1>7. CASE route # "summary" /\ mode # "plan-periodic"
  <2>1. req'.pc = "revisions" /\ req'.path = <<mode, run, "revisions">> /\ req'.call = req.call
    BY <1>1, <1>2, <1>7 DEF RequestFields
  <2>2. route \in {"plan", "revision"}
    BY <1>1, <1>7 DEF Plans
  <2> QED BY <1>2, <2>1, <2>2 DEF ServingOf, Evaluations
<1> QED BY <1>5, <1>6, <1>7

LEMMA ResolvedRevision ==
    ASSUME Core, Writing, Serving, ResolveRevision, req' # Idle
    PROVE  ServingOf(req', store)
<1> DEFINE runs == ListRunIds(req.path)
           n == req.call.number
           revision == IF req.call.route = "plan" THEN Newest(runs) ELSE runs[n + 1]
           p == Key(req.path, revision, "plan")
<1>1. /\ req.pc = "revisions"
      /\ ~(req.call.route = "plan" /\ runs = <<>>)
      /\ ~(req.call.route = "revision" /\ (n < 0 \/ n >= Len(runs)))
      /\ req' = [req EXCEPT !.pc = "exists", !.path = p]
  BY DEF ResolveRevision, Step, Refuse, Answer
<1>2. /\ req # Idle /\ DOMAIN req = RequestFields /\ req.call \in setup.calls
      /\ req.call.route \in {"plan", "revision"} /\ \E a, b : req.path = <<a, b, "revisions">>
  <2>1. req # Idle
    BY <1>1 DEF Idle
  <2> QED BY <1>1, <2>1 DEF Core, Serving, ServingOf
<1>3. req'.pc = "exists" /\ req'.path = p /\ req'.call = req.call
  <2> HIDE DEF p
  <2> QED BY <1>1, <1>2 DEF RequestFields
<1>4. n \in Int
  BY <1>2, CallsAssumption DEF Core
<1>5. ASSUME ObjectStore PROVE ServedPath(p, store)
  <2>1. PICK a, b : req.path = <<a, b, "revisions">>
    BY <1>2
  <2>2. /\ DOMAIN runs = 1 .. Len(runs) /\ Len(runs) \in Nat /\ runs \in Seq(Int)
        /\ \A i \in DOMAIN runs : a = "plan-rolling" /\ <<a, b, "revisions", runs[i], Marker>> \in DOMAIN store
    BY <1>5, <2>1, PublishedRevisions
  <2>3. \E i \in DOMAIN runs : revision = runs[i]
    <3>1. CASE req.call.route = "plan"
      <4>1. Len(runs) # 0
        <5>1. runs # <<>> /\ runs \in Seq(Int)
          BY <1>1, <2>2, <3>1
        <5> HIDE DEF runs
        <5> QED BY <5>1, EmptySeq
      <4>2. revision = runs[Len(runs)]
        BY <3>1 DEF Newest, Last
      <4>3. Len(runs) \in DOMAIN runs
        BY <2>2, <4>1
      <4> QED BY <4>2, <4>3
    <3>2. CASE req.call.route # "plan"
      <4>1. n >= 0 /\ n < Len(runs)
        BY <1>1, <1>2, <1>4, <2>2, <3>2
      <4>2. n + 1 \in DOMAIN runs
        BY <1>4, <2>2, <4>1
      <4> QED BY <3>2, <4>2
    <3> QED BY <3>1, <3>2
  <2> HIDE DEF revision, runs
  <2>4. a = "plan-rolling" /\ <<"plan-rolling", b, "revisions", revision, Marker>> \in DOMAIN store
    BY <2>2, <2>3
  <2>5. ServedPath(Key(<<"plan-rolling", b, "revisions">>, revision, "plan"), store)
    BY <2>4, RevisionDocument
  <2> QED BY <2>1, <2>4, <2>5
<1> HIDE DEF p
<1> QED BY <1>2, <1>3, <1>5 DEF ServingOf, Evaluations

\* What a step does to the request at hand.
LEMMA RequestMoves ==
    ASSUME Core, [Next]_vars
    PROVE  \/ req' = req \/ req' = Idle
           \/ req'.pc = "resolve" /\ req'.call \in setup.calls
           \/ req # Idle /\ Steered(req, req')
           \/ ResolveRun \/ ResolveRevision
<1> USE DEF Refuse, kept, evaluation
<1> DEFINE Fine == \/ req' = req \/ req' = Idle
                   \/ req'.pc = "resolve" /\ req'.call \in setup.calls
                   \/ req # Idle /\ Steered(req, req')
                   \/ ResolveRun \/ ResolveRevision
<1>0. /\ \A status, doc : Answer(status, doc) => req' = Idle
      /\ req.pc # "none" => req # Idle /\ DOMAIN req = RequestFields
  BY DEF Idle, Answer, Core
<1>1. ASSUME req.pc # "none", req' = Idle \/ Steered(req, req') PROVE Fine
  BY <1>0, <1>1
<1>2. CASE Receives
  <2>1. req' = req \/ (req'.pc = "resolve" /\ req'.call \in setup.calls)
    BY <1>2 DEF Receives, Receive
  <2> QED BY <2>1
<1>3. CASE ListPlans \/ ReadJson \/ StoreAnswer \/ Restart
  <2>1. req' = Idle
    BY <1>3 DEF ListPlans, ReadJson, StoreAnswer, Restart, Answer
  <2> QED BY <2>1
<1>4. CASE ResolveRun
  BY <1>4
<1>5. CASE ResolveRevision
  BY <1>5
<1>6. CASE CheckExists
  <2>1. /\ req.pc = "exists"
        /\ \/ \E status, doc : Answer(status, doc)
           \/ req' = [req EXCEPT !.pc = "read"]
    BY <1>6 DEF CheckExists, Step
  <2>2. req' = Idle \/ Steered(req, req')
    BY <1>0, <2>1 DEF Steered, RequestFields
  <2> QED BY <1>1, <2>1, <2>2
<1>7. CASE ResolveData
  <2>1. /\ req.pc = "resolve" /\ req.call.route = "feasibility"
        /\ \/ \E status, doc : Answer(status, doc)
           \/ \E p, t : req' = [req EXCEPT !.pc = "copy data", !.path = p, !.todo = t]
    BY ZenonT(60), <1>7 DEF ResolveData, Resolve, Step
  <2>2. req' = Idle \/ Steered(req, req')
    BY <1>0, <2>1 DEF Steered, RequestFields, Evaluations
  <2> QED BY <1>1, <2>1, <2>2
<1>8. CASE ResolveSchedule
  <2>1. /\ req.pc = "schedule"
        /\ \/ \E status, doc : Answer(status, doc)
           \/ \E p, t : req' = [req EXCEPT !.pc = "copy schedule", !.path = p, !.todo = t]
    BY ZenonT(60), <1>8 DEF ResolveSchedule, Resolve, Step
  <2>2. req' = Idle \/ Steered(req, req')
    BY <1>0, <2>1 DEF Steered, RequestFields, Evaluations
  <2> QED BY <1>1, <2>1, <2>2
<1>9. CASE Materialize
  <2>1. req # Idle /\ DOMAIN req = RequestFields /\ \E t : req' = [req EXCEPT !.todo = t]
    BY <1>9 DEF Materialize, Core
  <2>2. req.pc # "none" /\ Steered(req, req')
    BY <2>1 DEF Steered, RequestFields, Core
  <2> QED BY <1>1, <2>2
<1>10. CASE DataCopied
  <2>1. req.pc = "copy data" /\ \E d : req' = [req EXCEPT !.pc = "schedule", !.data = d]
    BY <1>10 DEF DataCopied, Step
  <2>2. Steered(req, req')
    BY <1>0, <2>1 DEF Steered, RequestFields, Evaluations
  <2> QED BY <1>1, <2>1, <2>2
<1>11. CASE DetectFormat
  <2>1. /\ req.pc = "copy schedule"
        /\ \/ \E status, doc : Answer(status, doc)
           \/ \E f : req' = [req EXCEPT !.pc = "source", !.found = f]
    BY ZenonT(60), <1>11 DEF DetectFormat, Step
  <2>2. req' = Idle \/ Steered(req, req')
    BY <1>0, <2>1 DEF Steered, RequestFields, Evaluations
  <2> QED BY <1>1, <2>1, <2>2
<1>12. CASE DigestSource
  <2>1. /\ req.pc = "source"
        /\ \/ \E status, doc : Answer(status, doc)
           \/ \E d, f : req' = [req EXCEPT !.pc = "plan", !.digests = d, !.fresh = f] /\ replies' = replies
    BY <1>12 DEF DigestSource, Digest, Step
  <2>2. req' = Idle \/ Steered(req, req')
    BY <1>0, <2>1 DEF Steered, RequestFields, Evaluations
  <2> QED BY <1>1, <2>1, <2>2
<1>13. CASE DigestSchedule
  <2>1. /\ req.pc = "plan"
        /\ \/ \E status, doc : Answer(status, doc)
           \/ \E d, f : req' = [req EXCEPT !.pc = "lookup", !.digests = d, !.fresh = f] /\ replies' = replies
    BY ZenonT(60), <1>13 DEF DigestSchedule, Digest, Step
  <2>2. req' = Idle \/ Steered(req, req')
    BY <1>0, <2>1 DEF Steered, RequestFields, Evaluations
  <2> QED BY <1>1, <2>1, <2>2
<1>14. CASE LookUp
  <2>1. /\ req.pc = "lookup"
        /\ \/ \E status, doc : Answer(status, doc)
           \/ req' = [req EXCEPT !.pc = "parse"]
    BY <1>14 DEF LookUp, Step
  <2>2. req' = Idle \/ Steered(req, req')
    BY <1>0, <2>1 DEF Steered, RequestFields, Evaluations
  <2> QED BY <1>1, <2>1, <2>2
<1>15. CASE Evaluate
  <2>1. /\ req.pc = "parse"
        /\ \/ \E status, doc : Answer(status, doc)
           \/ \E f : req' = [req EXCEPT !.pc = "store", !.found = f] /\ replies' = replies
    BY ZenonT(60), <1>15 DEF Evaluate, Step
  <2>2. req' = Idle \/ Steered(req, req')
    BY <1>0, <2>1 DEF Steered, RequestFields, Evaluations
  <2> QED BY <1>1, <2>1, <2>2
<1>16. CASE Tick \/ UNCHANGED vars \/ WriterStep
  <2>1. req' = req
    BY <1>16 DEF Tick, vars, WriterStep, OpenFile, FillFile, Publish, Crash, service
  <2> QED BY <2>1
<1> QED BY <1>2, <1>3, <1>4, <1>5, <1>6, <1>7, <1>8, <1>9, <1>10, <1>11, <1>12, <1>13, <1>14, <1>15, <1>16
       DEF Next, Receives, WriterStep, Writers

LEMMA ServingKept ==
    ASSUME Core, Writing, Serving, [Next]_vars
    PROVE  ServingOf(req', store)
<1>1. ServingOf(Idle, store) /\ (req'.pc = "resolve" /\ req'.call \in setup.calls => ServingOf(req', store))
  BY DEF ServingOf, Evaluations
<1>2. CASE req # Idle /\ Steered(req, req')
  BY <1>2, ServingMoves DEF Serving
<1>3. CASE req' # Idle /\ (ResolveRun \/ ResolveRevision)
  BY <1>3, ResolvedRun, ResolvedRevision
<1> QED BY <1>1, <1>2, <1>3, RequestMoves DEF Serving

LEMMA ServingHolds == Spec => []Serving
<1>1. Init => Serving
  BY DEF Init, Serving, ServingOf
<1>2. Core /\ Writing /\ Serving /\ [Next]_vars => Serving'
  <2> SUFFICES ASSUME Core, Writing, Serving, [Next]_vars PROVE Serving'
    OBVIOUS
  <2>1. ServingOf(req', store) /\ DOMAIN store \in SUBSET DOMAIN store' /\ setup' = setup
    BY ServingKept, StoreGrows, StepShapes
  <2>2. \A q : ServedPath(q, store) => ServedPath(q, store')
    BY <2>1 DEF ServedPath
  <2>3. ServingOf(req', store')
    BY <2>1, <2>2 DEF ServingOf
  <2> QED BY <2>1, <2>3 DEF Serving, ServingOf, ServedPath, ObjectStore, Writers, Jobs, Files, JobAt, PathOf, MarkerOf, KeyOf
<1> QED BY <1>1, <1>2, CoreHolds, WritingHolds, PTL DEF Spec

ServedReply(r, st) ==
    r.call.route \in {"plan", "summary", "revision"} =>
        /\ r.admitted => r.status # 500
        /\ r.status = 200 => Append(Front(r.doc.path), Marker) \in DOMAIN st

\* What a client that asked for a plan may be told.
PlanReply(r) ==
    r.call.route \in {"plan", "summary", "revision"} =>
        \/ r.status \in {400, 404}
        \/ r.status # 200 /\ ~r.admitted
        \/ /\ Step("read") /\ r.call = req.call
           /\ IF store[req.path].whole THEN r.status = 200 /\ r.doc.path = req.path ELSE r.status = 500

LEMMA AnswerShapes ==
    ASSUME Core, Serving, [Next]_vars
    PROVE  replies' = replies \/ (req' = Idle /\ \E r : replies' = Append(replies, r) /\ PlanReply(r))
<1> USE DEF Refuse
<1> DEFINE Fine == replies' = replies \/ (req' = Idle /\ \E r : replies' = Append(replies, r) /\ PlanReply(r))
<1>1. ASSUME NEW status, NEW doc, Answer(status, doc),
             \/ req.call.route \notin {"plan", "summary", "revision"}
             \/ status \in {400, 404}
             \/ /\ Step("read")
                /\ IF store[req.path].whole THEN status = 200 /\ doc.path = req.path ELSE status = 500
      PROVE  Fine
  <2> DEFINE r == [call |-> req.call, status |-> status, doc |-> doc, key |-> req.key, at |-> req.at, admitted |-> TRUE]
  <2>1. replies' = Append(replies, r) /\ r.call = req.call /\ r.status = status /\ r.doc = doc /\ req' = Idle
    BY <1>1 DEF Answer
  <2> HIDE DEF r
  <2> QED BY <1>1, <2>1 DEF PlanReply
<1>2. CASE Receives
  <2>1. PICK caller \in setup.callers, call \in setup.calls : Receive(caller, call)
    BY <1>2 DEF Receives
  <2> DEFINE verdict == Verdict(caller, call)
             r == [call |-> call, status |-> verdict, doc |-> None, key |-> RateKey(caller), at |-> now, admitted |-> FALSE]
  <2>2. replies' = replies \/ (verdict # 200 /\ req' = Idle /\ replies' = Append(replies, r))
    BY <2>1 DEF Receive
  <2>3. r.status = verdict /\ ~r.admitted
    OBVIOUS
  <2> HIDE DEF r, verdict
  <2> QED BY <2>2, <2>3 DEF PlanReply
<1>3. req.pc \in Evaluations => req.call.route = "feasibility"
  <2>1. Idle.pc \notin Evaluations
    BY DEF Idle, Evaluations
  <2> QED BY <2>1 DEF Serving, ServingOf
<1>4. CASE ListPlans
  <2>1. req.call.route = "list" /\ \E status, doc : Answer(status, doc)
    BY <1>4 DEF ListPlans
  <2> QED BY <1>1, <2>1
<1>5. CASE ResolveRun \/ ResolveRevision \/ CheckExists
  <2>1. replies' = replies \/ \E status \in {400, 404} : Answer(status, None)
    BY <1>5 DEF ResolveRun, ResolveRevision, CheckExists
  <2> QED BY <1>1, <2>1
<1>6. CASE ReadJson
  <2> DEFINE doc == [path |-> req.path, attempt |-> store[req.path].attempt]
  <2>1. /\ Step("read") /\ doc.path = req.path
        /\ IF store[req.path].whole THEN Answer(200, doc) ELSE Answer(500, None)
    BY <1>6 DEF ReadJson
  <2> HIDE DEF doc
  <2> QED BY <1>1, <2>1
<1>7. CASE ResolveData
  <2>1. req.call.route = "feasibility" /\ (replies' = replies \/ \E status, doc : Answer(status, doc))
    BY <1>7 DEF ResolveData, Resolve
  <2> QED BY <1>1, <2>1
<1>8. ASSUME req.pc \in Evaluations, replies' = replies \/ \E status, doc : Answer(status, doc)
      PROVE  Fine
  BY <1>1, <1>3, <1>8
<1>9. CASE ResolveSchedule \/ DetectFormat
  <2>1. req.pc \in Evaluations
    BY <1>9 DEF ResolveSchedule, DetectFormat, Step, Evaluations
  <2>2. CASE ResolveSchedule
    <3>1. replies' = replies \/ \E status, doc : Answer(status, doc)
      BY <2>2 DEF ResolveSchedule, Resolve
    <3> QED BY <1>8, <2>1, <3>1
  <2>3. CASE DetectFormat
    <3>1. replies' = replies \/ \E status, doc : Answer(status, doc)
      BY ZenonT(60), <2>3 DEF DetectFormat
    <3> QED BY <1>8, <2>1, <3>1
  <2> QED BY <1>9, <2>2, <2>3
<1>10. CASE DigestSource \/ DigestSchedule
  <2>1. req.pc \in Evaluations
    BY <1>10 DEF DigestSource, DigestSchedule, Step, Evaluations
  <2>2. replies' = replies \/ \E status, doc : Answer(status, doc)
    BY <1>10 DEF DigestSource, DigestSchedule, Digest
  <2> QED BY <1>8, <2>1, <2>2
<1>11. CASE LookUp \/ Evaluate \/ StoreAnswer
  <2>1. req.pc \in Evaluations
    BY <1>11 DEF LookUp, Evaluate, StoreAnswer, Step, Evaluations
  <2>2. replies' = replies \/ \E status, doc : Answer(status, doc)
    BY <1>11 DEF LookUp, Evaluate, StoreAnswer
  <2> QED BY <1>8, <2>1, <2>2
<1>12. CASE DataCopied \/ Materialize \/ Tick \/ Restart \/ UNCHANGED vars \/ WriterStep
  BY <1>12 DEF DataCopied, Materialize, Tick, Restart, vars, WriterStep, OpenFile, FillFile, Publish, Crash, service, kept
<1> QED BY <1>2, <1>4, <1>5, <1>6, <1>7, <1>9, <1>10, <1>11, <1>12
       DEF Next, Receives, WriterStep, Writers
LEMMA AnswerIsServed ==
    ASSUME Core, Writing, Serving, ObjectStore, [Next]_vars
    PROVE  replies' = replies \/ \E r : replies' = Append(replies, r) /\ ServedReply(r, store)
<1>1. ASSUME NEW r, PlanReply(r) PROVE ServedReply(r, store)
  <2>1. CASE r.call.route \in {"plan", "summary", "revision"} /\ Step("read") /\ r.call = req.call
             /\ IF store[req.path].whole THEN r.status = 200 /\ r.doc.path = req.path ELSE r.status = 500
    <3>1. ServedPath(req.path, store)
      BY <2>1 DEF Step, Serving, ServingOf, Idle
    <3>2. store[req.path].whole /\ Committed(req.path)
      BY <3>1, ServedWhole
    <3> QED BY <2>1, <3>2 DEF ServedReply, Committed
  <2> QED BY <1>1, <2>1 DEF PlanReply, ServedReply
<1> QED BY <1>1, AnswerShapes

LEMMA AppendedReplies ==
    ASSUME Core, NEW r, replies' = Append(replies, r)
    PROVE  /\ DOMAIN replies \in SUBSET DOMAIN replies'
           /\ \A i \in DOMAIN replies : replies'[i] = replies[i]
           /\ \E n \in DOMAIN replies' : /\ replies'[n] = r
                                         /\ \A i \in DOMAIN replies' : i \in DOMAIN replies \/ i = n
<1>1. /\ DOMAIN replies = 1 .. Len(replies) /\ Len(replies) \in Nat
      /\ DOMAIN replies' = 1 .. Len(replies) + 1
      /\ \A i \in DOMAIN replies : replies'[i] = replies[i]
      /\ replies'[Len(replies) + 1] = r
  BY Appended DEF Core
<1>2. Len(replies) + 1 \in DOMAIN replies' /\ \A i \in DOMAIN replies' : i \in DOMAIN replies \/ i = Len(replies) + 1
  BY <1>1
<1> QED BY <1>1, <1>2

\* From an object store every plan document belongs to a published run, and a run
\* that resolved is never found missing or cut.
LEMMA PublishedPlans == Spec => []PublishedPlansWhole
<1> DEFINE Inv == ObjectStore => \A i \in DOMAIN replies : ServedReply(replies[i], store)
<1>1. Init => Inv
  BY DEF Init
<1>2. Core /\ Writing /\ Serving /\ Inv /\ [Next]_vars => Inv'
  <2> SUFFICES ASSUME Core, Writing, Serving, Inv, [Next]_vars, ObjectStore,
                      NEW i \in DOMAIN replies'
               PROVE  ServedReply(replies'[i], store')
    BY StepShapes DEF ObjectStore
  <2>1. \A r : ServedReply(r, store) => ServedReply(r, store')
    BY StoreGrows DEF ServedReply
  <2>2. CASE replies' = replies
    BY <2>1, <2>2
  <2>3. ASSUME NEW r, replies' = Append(replies, r), ServedReply(r, store)
        PROVE  ServedReply(replies'[i], store')
    BY <2>1, <2>3, AppendedReplies
  <2> QED BY <2>2, <2>3, AnswerIsServed
<1>3. Writing /\ Serving /\ Inv => PublishedPlansWhole
  <2> SUFFICES ASSUME Writing, Serving, Inv, ObjectStore PROVE PublishedPlansWhole
    BY DEF PublishedPlansWhole
  <2>1. Step("exists") \/ Step("read") => req.path \in DOMAIN store /\ store[req.path].whole
    BY ServedWhole DEF Step, Serving, ServingOf, Idle
  <2> QED BY <2>1 DEF PublishedPlansWhole, ServedReply, IsRoute, Ok, Committed, Step
<1> QED BY <1>1, <1>2, <1>3, CoreHolds, WritingHolds, ServingHolds, PTL DEF Spec

-----------------------------------------------------------------------------
(* Copies of published runs                                                *)

\* A key of a run that has its marker.
PublishedKey(k, st) ==
    \E w \in Writers : \E j \in Jobs(w) : \E f \in Range(JobAt(w, j).files) \cup {Marker} :
        k = KeyOf(w, j, f) /\ MarkerOf(w, j) \in DOMAIN st

LEMMA CommittedKey ==
    ASSUME Writing, NEW k, PublishedKey(k, store)
    PROVE  Committed(k)
<1>1. PICK w \in Writers : \E j \in Jobs(w) : \E f \in Range(JobAt(w, j).files) \cup {Marker} :
            k = KeyOf(w, j, f) /\ MarkerOf(w, j) \in DOMAIN store
  BY DEF PublishedKey
<1>2. PICK j \in Jobs(w) : \E f \in Range(JobAt(w, j).files) \cup {Marker} :
            k = KeyOf(w, j, f) /\ MarkerOf(w, j) \in DOMAIN store
  BY <1>1
<1>3. PICK f \in Range(JobAt(w, j).files) \cup {Marker} : k = KeyOf(w, j, f) /\ MarkerOf(w, j) \in DOMAIN store
  BY <1>2
<1>4. Append(Front(KeyOf(w, j, f)), Marker) = MarkerOf(w, j)
  BY FrontOfKey DEF Writing, WritingOf
<1> QED BY <1>3, <1>4 DEF Committed

LEMMA PublishedFrozen ==
    ASSUME Writing, [Next]_vars, NEW k \in DOMAIN store, PublishedKey(k, store)
    PROVE  k \in DOMAIN store' /\ store'[k] = store[k]
<1>0. PICK v \in Writers : \E l \in Jobs(v) : \E g \in Range(JobAt(v, l).files) \cup {Marker} :
            k = KeyOf(v, l, g) /\ MarkerOf(v, l) \in DOMAIN store
  BY DEF PublishedKey
<1>1. PICK l \in Jobs(v) : \E g \in Range(JobAt(v, l).files) \cup {Marker} :
            k = KeyOf(v, l, g) /\ MarkerOf(v, l) \in DOMAIN store
  BY <1>0
<1>2. PICK g \in Range(JobAt(v, l).files) \cup {Marker} : k = KeyOf(v, l, g) /\ MarkerOf(v, l) \in DOMAIN store
  BY <1>1
<1>3. setup \in Setups /\ WritersTyped(writer) /\ Unpublished(store, writer)
  BY DEF Writing, WritingOf
\* A writer at work writes into a run that is not published yet.
<1>4. ASSUME NEW w \in Writers, Busy(w), NEW f PROVE Key(Job(w).dir, Job(w).run, f) # k
  <2>1. writer[w].job \in Jobs(w) /\ Key(Job(w).dir, Job(w).run, f) = KeyOf(w, writer[w].job, f)
    BY <1>3, <1>4, WriterAt DEF KeyOf
  <2>2. MarkerOf(w, writer[w].job) \notin DOMAIN store
    <3>1. writer[w].job \in Nat
      BY <1>3 DEF WritersTyped, WriterState
    <3> QED BY <1>3, <2>1, <3>1 DEF Unpublished
  <2>3. ASSUME KeyOf(w, writer[w].job, f) = k PROVE FALSE
    <3>1. v = w /\ l = writer[w].job
      BY <1>2, <1>3, <2>1, <2>3, KeysDiffer
    <3> QED BY <1>2, <2>2, <3>1
  <2> QED BY <2>1, <2>3
<1>5. ASSUME NEW w \in Writers, OpenFile(w) PROVE k \in DOMAIN store' /\ store'[k] = store[k]
  <2>1. FileKey(w) # k
    BY <1>4, <1>5 DEF OpenFile, FileKey
  <2> QED BY <1>5, <2>1 DEF OpenFile, Put
<1>6. ASSUME NEW w \in Writers, FillFile(w) PROVE k \in DOMAIN store' /\ store'[k] = store[k]
  <2>1. FileKey(w) # k
    BY <1>4, <1>6 DEF FillFile, FileKey
  <2> QED BY <1>6, <2>1 DEF FillFile
<1>7. ASSUME NEW w \in Writers, Publish(w) PROVE k \in DOMAIN store' /\ store'[k] = store[k]
  <2>1. Key(Job(w).dir, Job(w).run, Marker) # k
    BY <1>4, <1>7 DEF Publish
  <2> QED BY <1>7, <2>1 DEF Publish, Put
<1>8. ASSUME NEW w \in Writers, Crash(w) PROVE store' = store
  BY <1>8 DEF Crash
<1>9. CASE WriterStep
  BY <1>5, <1>6, <1>7, <1>8, <1>9 DEF WriterStep
<1>10. CASE ~WriterStep
  BY <1>10, StoreQuiet
<1> QED BY <1>9, <1>10

\* What the newest run of a listing materializes is published.
LEMMA LatestPublished ==
    ASSUME Writing, ObjectStore, NEW a, a # "plan-rolling", ListRunIds(<<a>>) # <<>>,
           NEW k \in DOMAIN store, IsPrefix(<<a, Last(ListRunIds(<<a>>))>>, k)
    PROVE  PublishedKey(k, store)
<1> DEFINE runs == ListRunIds(<<a>>)
           run == Last(runs)
<1>1. <<a, run, Marker>> \in DOMAIN store
  <2>1. /\ DOMAIN runs = 1 .. Len(runs) /\ Len(runs) \in Nat /\ runs \in Seq(Int) /\ runs # <<>>
        /\ \A i \in DOMAIN runs : <<a, runs[i], Marker>> \in DOMAIN store
    BY PublishedRuns
  <2> HIDE DEF runs
  <2>2. Len(runs) # 0
    BY <2>1, EmptySeq
  <2>3. Len(runs) \in DOMAIN runs /\ run = runs[Len(runs)]
    BY <2>1, <2>2 DEF Last
  <2> QED BY <2>1, <2>3
<1>2. IsPrefix(<<a, run>>, k)
  OBVIOUS
<1> HIDE DEF run
<1>3. PICK w \in Writers : \E j \in Jobs(w) : \E f \in Range(JobAt(w, j).files) \cup {Marker} : \E d :
              /\ k = KeyOf(w, j, f) /\ JobAt(w, j).run \in Nat
              /\ \/ JobAt(w, j).dir = <<d>> /\ RunKey(k, d, JobAt(w, j).run, f)
                 \/ JobAt(w, j).dir = <<"plan-rolling", d, "revisions">> /\ RevisionKey(k, d, JobAt(w, j).run, f)
  BY KeyForms
<1>4. PICK j \in Jobs(w) : \E f \in Range(JobAt(w, j).files) \cup {Marker} : \E d :
              /\ k = KeyOf(w, j, f) /\ JobAt(w, j).run \in Nat
              /\ \/ JobAt(w, j).dir = <<d>> /\ RunKey(k, d, JobAt(w, j).run, f)
                 \/ JobAt(w, j).dir = <<"plan-rolling", d, "revisions">> /\ RevisionKey(k, d, JobAt(w, j).run, f)
  BY <1>3
<1>5. PICK f \in Range(JobAt(w, j).files) \cup {Marker} : \E d :
              /\ k = KeyOf(w, j, f)
              /\ \/ JobAt(w, j).dir = <<d>> /\ RunKey(k, d, JobAt(w, j).run, f)
                 \/ JobAt(w, j).dir = <<"plan-rolling", d, "revisions">> /\ RevisionKey(k, d, JobAt(w, j).run, f)
  BY <1>4
<1>6. PICK d : \/ JobAt(w, j).dir = <<d>> /\ RunKey(k, d, JobAt(w, j).run, f)
               \/ JobAt(w, j).dir = <<"plan-rolling", d, "revisions">> /\ RevisionKey(k, d, JobAt(w, j).run, f)
  BY <1>5
<1> DEFINE job == JobAt(w, j)
           n == job.run
<1> HIDE DEF n
<1>7. ~RevisionKey(k, d, n, f)
  <2> SUFFICES ASSUME k = <<"plan-rolling", d, "revisions", n, f>> PROVE FALSE
    BY DEF RevisionKey
  <2> DEFINE S == {"plan-rolling", "revisions", a, run, d, n, f}
             s == <<a, run>>
  <2>1. s \in Seq(S) /\ k \in Seq(S) /\ Len(s) = 2 /\ s[1] = a /\ k[1] = "plan-rolling"
    OBVIOUS
  <2>3. IsPrefix(s, k)
    BY <1>2
  <2> HIDE DEF s, S
  <2>2. s[1] = k[1]
    <3>1. \A i \in 1 .. Len(s) : s[i] = k[i]
      BY ZenonT(60), <2>1, <2>3, PrefixAgrees
    <3> QED BY <2>1, <3>1
  <2> QED BY <2>1, <2>2
<1>8. job.dir = <<d>> /\ k = <<d, n, f>> /\ d = a /\ n = run
  <2>1. job.dir = <<d>> /\ k = <<d, n, f>>
    BY <1>6, <1>7 DEF RunKey, n
  <2> DEFINE S == {a, run, d, n, f}
             s == <<a, run>>
  <2>2. s \in Seq(S) /\ k \in Seq(S) /\ Len(s) = 2 /\ s[1] = a /\ s[2] = run /\ k[1] = d /\ k[2] = n
    BY <2>1
  <2>3. IsPrefix(s, k)
    BY <1>2
  <2> HIDE DEF s, S, job
  <2>4. s[1] = k[1] /\ s[2] = k[2]
    BY <2>2, <2>3, PrefixAgrees
  <2> QED BY <2>1, <2>2, <2>4
<1>9. MarkerOf(w, j) = <<a, run, Marker>>
  <2>1. JobShape(job) /\ MarkerOf(w, j) = Key(job.dir, n, Marker) /\ n = job.run
    BY JobFacts DEF Writing, WritingOf, MarkerOf, KeyOf, n
  <2> HIDE DEF job
  <2>2. Len(job.dir) = 1 /\ job.dir[1] = a
    BY <1>8
  <2>3. Key(job.dir, job.run, Marker) = <<job.dir[1], job.run, Marker>> \/ Len(job.dir) = 3
    BY <2>1, KeyShapes
  <2> QED BY <1>8, <2>1, <2>2, <2>3
<1> QED BY <1>1, <1>5, <1>9 DEF PublishedKey

\* As long as clients ask for the newest runs only, what is copied or still to be
\* copied is of published runs.
Mirrors(copies, st) == \A k \in DOMAIN copies : k \in DOMAIN st /\ PublishedKey(k, st) /\ copies[k] = st[k]
Pending(r, st) == r # Idle => \A i \in DOMAIN r.todo : PublishedKey(r.todo[i], st)
FromPublished == restarts = 0 /\ LatestOnly => Mirrors(local, store) /\ Pending(req, store)

LEMMA LatestBefore ==
    ASSUME Core, [Next]_vars, restarts' = 0, LatestOnly'
    PROVE  restarts = 0 /\ LatestOnly
<1> DEFINE AsksLatest(call) == call.route = "feasibility" => call.run = Latest /\ call.schedule = Latest
<1>1. /\ \A i \in DOMAIN replies' : AsksLatest(replies'[i].call)
      /\ req' # Idle => AsksLatest(req'.call)
  BY DEF LatestOnly, IsRoute
<1>2. SUFFICES restarts = 0 /\ (\A i \in DOMAIN replies : AsksLatest(replies[i].call)) /\ (req # Idle => AsksLatest(req.call))
  BY DEF LatestOnly, IsRoute
<1> HIDE DEF AsksLatest
<1>3. CASE Beside
  BY <1>1, <1>3 DEF Beside
<1>4. CASE Advances
  BY <1>1, <1>4 DEF Advances
<1>5. CASE Answers
  <2>1. PICK r : replies' = Append(replies, r) /\ r.call = req.call
    BY <1>5 DEF Answers, Answer
  <2>2. /\ DOMAIN replies \in SUBSET DOMAIN replies' /\ \A i \in DOMAIN replies : replies'[i] = replies[i]
        /\ \E n \in DOMAIN replies' : replies'[n] = r
    BY <2>1, AppendedReplies
  <2>3. restarts = 0
    BY <1>5 DEF Answers
  <2> QED BY <1>1, <2>1, <2>2, <2>3
<1>6. CASE Receives
  <2>1. req = Idle /\ restarts' = restarts /\ (replies' = replies \/ \E r : replies' = Append(replies, r))
    BY <1>6 DEF Receives, Receive
  <2>2. DOMAIN replies \in SUBSET DOMAIN replies' /\ \A i \in DOMAIN replies : replies'[i] = replies[i]
    BY <2>1, AppendedReplies
  <2> QED BY <1>1, <2>1, <2>2
<1>7. CASE Restart
  BY <1>7 DEF Restart, Core
<1> QED BY <1>3, <1>4, <1>5, <1>6, <1>7, StepShapes

LEMMA ResolvedLatest ==
    ASSUME Core, Writing, NEW subdir, subdir # "plan-rolling", NEW done, Resolve(subdir, Latest, done), req' # Idle,
           DOMAIN req = RequestFields
    PROVE  Pending(req', store)
<1> DEFINE runs == ListRunIds(<<subdir>>)
           dir == <<subdir, Last(runs)>>
           keys == {k \in DOMAIN store : IsPrefix(dir, k)}
           todo == IF ObjectStore THEN SetToSeq(keys) ELSE <<>>
<1>1. runs # <<>> /\ req' = [req EXCEPT !.pc = done, !.path = dir, !.todo = todo]
  BY DEF Resolve, Refuse, Answer, Latest, Invalid
<1>2. \A k \in keys : ObjectStore => PublishedKey(k, store)
  BY <1>1, LatestPublished
<1>3. IsFiniteSet(keys)
  BY FS_Subset DEF Writing, WritingOf, StoreTyped
<1> HIDE DEF keys, dir
<1>4. SetToSeq(keys) \in Seq(keys)
  BY <1>3, ListedKeys
<1>5. \A i \in DOMAIN todo : PublishedKey(todo[i], store)
  <2>1. CASE ObjectStore
    <3>1. \A i \in DOMAIN SetToSeq(keys) : SetToSeq(keys)[i] \in keys
      BY <1>4, LenProperties, ElementOfSeq
    <3> QED BY <1>2, <2>1, <3>1
  <2>2. CASE ~ObjectStore
    <3>1. DOMAIN <<>> = {}
      OBVIOUS
    <3> QED BY <2>2, <3>1
  <2> QED BY <2>1, <2>2
<1> HIDE DEF todo
<1>6. req'.todo = todo
  BY <1>1 DEF RequestFields
<1> QED BY <1>5, <1>6 DEF Pending

LEMMA CopiesKept ==
    ASSUME Core, Writing, Copying, Serving, FromPublished, [Next]_vars, restarts' = 0, LatestOnly'
    PROVE  Mirrors(local', store') /\ Pending(req', store')
<1>1. restarts = 0 /\ LatestOnly /\ Mirrors(local, store) /\ Pending(req, store)
  BY LatestBefore DEF FromPublished
<1>2. \A k : PublishedKey(k, store) => PublishedKey(k, store')
  BY StoreGrows DEF PublishedKey
<1>3. CASE Materialize
  <2> DEFINE k0 == Head(req.todo)
             copies == local'
  <2>1. req # Idle /\ req.todo # <<>> /\ req.todo \in Seq(DOMAIN store) /\ store' = store
    BY <1>3 DEF Materialize, Copying
  <2>2. /\ k0 \in DOMAIN store /\ k0 = req.todo[1] /\ 1 \in DOMAIN req.todo
        /\ DOMAIN Tail(req.todo) = 1 .. Len(req.todo) - 1
        /\ \A i \in 1 .. Len(req.todo) - 1 : Tail(req.todo)[i] = req.todo[i + 1] /\ i + 1 \in DOMAIN req.todo
    <3>1. Len(req.todo) \in Nat /\ DOMAIN req.todo = 1 .. Len(req.todo) /\ Len(req.todo) # 0
      BY <2>1, LenProperties, EmptySeq
    <3>2. Head(req.todo) = req.todo[1] /\ Head(req.todo) \in DOMAIN store
      BY <2>1
    <3>3. Tail(req.todo) \in Seq(DOMAIN store) /\ Len(Tail(req.todo)) = Len(req.todo) - 1
          /\ \A i \in 1 .. Len(Tail(req.todo)) : Tail(req.todo)[i] = req.todo[i + 1]
      BY <2>1, HeadTailProperties
    <3>4. DOMAIN Tail(req.todo) = 1 .. Len(req.todo) - 1
      BY <3>3, LenProperties
    <3> QED BY <3>1, <3>2, <3>3, <3>4
  <2>3. PublishedKey(k0, store)
    BY <1>1, <2>1, <2>2 DEF Pending
  <2>4. copies = local \/ copies = Put(local, k0, store[k0])
    BY <1>3 DEF Materialize
  <2>5. req'.todo = Tail(req.todo)
    BY <1>3, <2>1 DEF Materialize, Core, RequestFields
  <2> HIDE DEF k0, copies
  <2>6. Mirrors(copies, store)
    BY <1>1, <2>2, <2>3, <2>4 DEF Mirrors, Put
  <2>7. Pending(req', store)
    BY <1>1, <2>1, <2>2, <2>5 DEF Pending
  <2> QED BY <2>1, <2>6, <2>7 DEF copies
<1>4. CASE ~Materialize
  <2>1. Mirrors(local', store')
    <3>1. local' = local
      BY <1>4, CopiesQuiet
    <3> QED BY <1>1, <1>2, <3>1, PublishedFrozen DEF Mirrors
  <2>2. ASSUME NEW subdir \in {"generate-data", "solve"}, NEW value, NEW done, Resolve(subdir, value, done), req' # Idle,
               req.pc # "none", req.call.route = "feasibility",
               value = req.call.run \/ value = req.call.schedule
        PROVE  Pending(req', store)
    <3>1. req # Idle /\ DOMAIN req = RequestFields
      BY <2>2 DEF Core, Idle
    <3>2. value = Latest
      BY <1>1, <2>2, <3>1 DEF LatestOnly
    <3> QED BY <2>2, <3>1, <3>2, ResolvedLatest
  <2>3. Pending(req', store)
    <3>1. CASE req' = Idle
      BY <3>1 DEF Pending
    <3>2. CASE ResolveData /\ req' # Idle
      <4>1. Resolve("generate-data", req.call.run, "copy data") /\ req.pc # "none" /\ req.call.route = "feasibility"
        BY <3>2 DEF ResolveData, Step
      <4> QED BY <2>2, <3>2, <4>1
    <3>3. CASE ResolveSchedule /\ req' # Idle
      <4>1. Resolve("solve", req.call.schedule, "copy schedule") /\ req.pc = "schedule"
        BY <3>3 DEF ResolveSchedule, Step
      <4>2. req.call.route = "feasibility"
        <5>1. req.pc \in Evaluations /\ req # Idle
          <6>1. Idle.pc = "none" /\ "schedule" \in Evaluations
            BY DEF Idle, Evaluations
          <6> QED BY <4>1, <6>1
        <5> QED BY <5>1 DEF Serving, ServingOf
      <4> QED BY <2>2, <3>3, <4>1, <4>2
    <3>4. CASE req' # Idle /\ ~ResolveData /\ ~ResolveSchedule
      <4>1. (req # Idle /\ req'.todo = req.todo) \/ req'.todo = <<>>
        BY <1>4, <3>4, TodoQuiet
      <4>2. DOMAIN <<>> = {}
        OBVIOUS
      <4> QED BY <1>1, <4>1, <4>2 DEF Pending
    <3> QED BY <3>1, <3>2, <3>3, <3>4
  <2>4. Pending(req', store')
    BY <1>2, <2>3 DEF Pending
  <2> QED BY <2>1, <2>4
<1> QED BY <1>3, <1>4

LEMMA CopiesPublished == Spec => []CopiesOfPublishedRuns
<1>1. Init => FromPublished
  BY DEF Init, FromPublished, Mirrors, Pending, Empty
<1>2. Core /\ Writing /\ Copying /\ Serving /\ FromPublished /\ [Next]_vars => FromPublished'
  <2> SUFFICES ASSUME Core, Writing, Copying, Serving, FromPublished, [Next]_vars, restarts' = 0, LatestOnly'
               PROVE  (Mirrors(local, store) /\ Pending(req, store))'
    BY DEF FromPublished
  <2>1. Mirrors(local', store') /\ Pending(req', store') /\ setup' = setup
    BY CopiesKept, StepShapes
  <2> QED BY <2>1 DEF Mirrors, Pending, PublishedKey, Writers, Jobs, JobAt, MarkerOf, KeyOf
<1>3. Writing /\ FromPublished => CopiesOfPublishedRuns
  BY CommittedKey DEF FromPublished, Mirrors, CopiesOfPublishedRuns
<1> QED BY <1>1, <1>2, <1>3, CoreHolds, WritingHolds, CopyingHolds, ServingHolds, PTL DEF Spec

\* Neither an answer nor a materialized copy shows a run that another writer is
\* still publishing, has left unfinished or has repeated.
THEOREM OnlyPublishedRuns == Spec => []OnlyPublishedRunsServed
<1>1. PublishedPlansWhole /\ CopiesOfPublishedRuns => OnlyPublishedRunsServed
  BY DEF OnlyPublishedRunsServed
<1> QED BY <1>1, PublishedPlans, CopiesPublished, PTL

-----------------------------------------------------------------------------
(* Sorted listings                                                         *)

\* A listing holds every id it is made from.
LEMMA SortedHoldsAll ==
    ASSUME NEW ids, IsFiniteSet(ids), ids \in SUBSET Int
    PROVE  \A x \in ids : \E i \in DOMAIN SortedIds(ids) : SortedIds(ids)[i] = x
<1> DEFINE s == SortedIds(ids)
           n == Cardinality(ids)
           image == {s[i] : i \in 1 .. n}
<1>1. s \in [1 .. n -> ids] /\ Increasing(s) /\ n \in Nat
  BY SortedListing, FS_CardinalityType DEF Sorts
<1>2. IsFiniteSet(1 .. n) /\ Cardinality(1 .. n) = n
  BY <1>1, FS_Interval
<1> HIDE DEF s, n
<1>3. image \in SUBSET ids /\ s \in [1 .. n -> image]
  BY <1>1
<1>4. \A i, j \in 1 .. n : s[i] = s[j] => i = j
  <2> SUFFICES ASSUME NEW i \in 1 .. n, NEW j \in 1 .. n, s[i] = s[j], i < j \/ j < i PROVE FALSE
    BY <1>1
  <2>1. s[i] < s[j] \/ s[j] < s[i]
    BY <1>1 DEF Increasing
  <2>2. s[i] \in Int /\ s[j] \in Int
    BY <1>1
  <2> QED BY <2>1, <2>2
<1>5. Cardinality(image) = n
  <2>1. s \in Surjection(1 .. n, image)
    BY <1>3 DEF Surjection
  <2>2. s \in Injection(1 .. n, image)
    BY <1>3, <1>4 DEF Injection, IsInjective
  <2> HIDE DEF image
  <2> QED BY <1>2, <2>1, <2>2, FS_Surjection
<1>6. image = ids
  <2> HIDE DEF image
  <2> QED BY <1>3, <1>5, FS_Subset DEF n
<1>7. DOMAIN s = 1 .. n
  BY <1>1
<1> QED BY <1>6, <1>7 DEF s

Nth(ids, i, x) == i \in DOMAIN SortedIds(ids) /\ SortedIds(ids)[i] = x

\* Ids that come after all others change nothing about the places of those.
LEMMA PlacesKept ==
    ASSUME NEW ids, IsFiniteSet(ids), NEW more, IsFiniteSet(more), more \in SUBSET Int, ids \in SUBSET more,
           \A x \in ids : \A y \in more \ ids : x < y
    PROVE  \A i, x : Nth(ids, i, x) => Nth(more, i, x)
<1> DEFINE s == SortedIds(ids)
           t == SortedIds(more)
           n == Cardinality(ids)
           m == Cardinality(more)
<1>1. /\ s \in [1 .. n -> ids] /\ Increasing(s) /\ DOMAIN s = 1 .. n /\ n \in Nat
      /\ \A x \in ids : \E i \in 1 .. n : s[i] = x
  <2>1. s \in [1 .. n -> ids] /\ Increasing(s) /\ n \in Nat
    BY SortedListing, FS_CardinalityType DEF Sorts
  <2>2. DOMAIN s = 1 .. n
    BY <2>1
  <2> QED BY <2>1, <2>2, SortedHoldsAll
<1>2. /\ t \in [1 .. m -> more] /\ Increasing(t) /\ DOMAIN t = 1 .. m /\ m \in Nat
      /\ \A x \in more : \E i \in 1 .. m : t[i] = x
  <2>1. t \in [1 .. m -> more] /\ Increasing(t) /\ m \in Nat
    BY SortedListing, FS_CardinalityType DEF Sorts
  <2>2. DOMAIN t = 1 .. m
    BY <2>1
  <2> QED BY <2>1, <2>2, SortedHoldsAll
<1>3. n <= m
  BY FS_Subset
<1> HIDE DEF s, t, n, m
<1> DEFINE Bad == {i \in 1 .. n : s[i] # t[i]}
<1>4. Bad = {}
  <2> SUFFICES ASSUME Bad # {} PROVE FALSE
    OBVIOUS
  <2>1. PICK i \in Bad : \A j \in Bad : i <= j
    <3>1. Bad \in SUBSET Nat
      BY <1>1
    <3> HIDE DEF Bad
    <3> QED BY <3>1, LeastNumber
  <2>2. /\ i \in 1 .. n /\ i \in 1 .. m /\ s[i] # t[i] /\ s[i] \in Int /\ t[i] \in Int /\ s[i] \in ids /\ t[i] \in more
    <3>1. i \in 1 .. n /\ s[i] # t[i]
      BY <2>1
    <3>2. i \in 1 .. m
      BY <1>1, <1>2, <1>3, <3>1
    <3>3. s[i] \in ids /\ t[i] \in more
      BY <1>1, <1>2, <3>1, <3>2
    <3>4. s[i] \in Int /\ t[i] \in Int
      BY <3>3
    <3> QED BY <3>1, <3>2, <3>3, <3>4
  <2>3. \A j \in 1 .. n : j < i => s[j] = t[j]
    BY <2>1
  <2>4. t[i] <= s[i]
    <3>1. PICK j \in 1 .. m : t[j] = s[i]
      BY <1>2, <2>2
    <3>2. CASE j < i
      <4>1. j \in 1 .. n /\ s[j] = s[i]
        BY <1>1, <1>2, <2>2, <2>3, <3>1, <3>2
      <4>2. s[j] < s[i]
        BY <1>1, <2>2, <3>2, <4>1 DEF Increasing
      <4> QED BY <2>2, <4>1, <4>2
    <3>3. CASE j = i
      BY <2>2, <3>1, <3>3
    <3>4. CASE i < j
      <4>1. t[i] < t[j]
        BY <1>2, <2>2, <3>4 DEF Increasing
      <4> QED BY <2>2, <3>1, <4>1
    <3> QED BY <2>2, <3>2, <3>3, <3>4
  <2>5. t[i] \in ids
    <3> SUFFICES ASSUME t[i] \in more \ ids PROVE FALSE
      BY <2>2
    <3>1. s[i] < t[i]
      BY <2>2
    <3> QED BY <2>2, <2>4, <3>1
  <2>6. PICK k \in 1 .. n : s[k] = t[i]
    BY <1>1, <2>5
  <2>7. CASE k < i
    <3>1. t[k] = t[i] /\ k \in 1 .. m
      BY <1>1, <1>2, <1>3, <2>2, <2>3, <2>6, <2>7
    <3>2. t[k] < t[i]
      BY <1>2, <2>2, <2>7, <3>1 DEF Increasing
    <3> QED BY <2>2, <3>1, <3>2
  <2>8. CASE k = i
    BY <2>2, <2>6, <2>8
  <2>9. CASE i < k
    <3>1. s[i] < s[k]
      BY <1>1, <2>2, <2>9 DEF Increasing
    <3> QED BY <2>2, <2>4, <2>6, <3>1
  <2> QED BY <2>2, <2>7, <2>8, <2>9
<1>5. ASSUME NEW i, NEW x, Nth(ids, i, x) PROVE Nth(more, i, x)
  <2>1. i \in 1 .. n /\ s[i] = x
    BY <1>1, <1>5 DEF Nth, s
  <2>2. i \in 1 .. m /\ t[i] = x
    BY <1>1, <1>2, <1>3, <1>4, <2>1
  <2> QED BY <1>2, <2>2 DEF Nth, t
<1> QED BY <1>5

\* The last of a listing is the largest.
LEMMA LastIsLargest ==
    ASSUME NEW ids, IsFiniteSet(ids), ids \in SUBSET Int, SortedIds(ids) # <<>>
    PROVE  Last(SortedIds(ids)) \in ids /\ \A x \in ids : x <= Last(SortedIds(ids))
<1> DEFINE s == SortedIds(ids)
           n == Len(s)
<1>1. /\ s \in Seq(Int) /\ DOMAIN s = 1 .. n /\ n \in Nat /\ Increasing(s)
      /\ \A i \in DOMAIN s : s[i] \in ids
  BY SortedListing DEF Sorts
<1>2. \A x \in ids : \E i \in 1 .. n : s[i] = x
  BY <1>1, SortedHoldsAll
<1> HIDE DEF s
<1>3. n # 0 /\ Last(s) = s[n]
  BY <1>1, EmptySeq DEF s, Last
<1> HIDE DEF n
<1>4. n \in 1 .. n /\ s[n] \in ids
  BY <1>1, <1>3
<1>5. ASSUME NEW x \in ids PROVE x <= s[n]
  <2>1. PICK i \in 1 .. n : s[i] = x
    BY <1>2
  <2>2. i = n \/ s[i] < s[n]
    BY <1>1, <1>4 DEF Increasing
  <2>3. x \in Int /\ s[n] \in Int
    BY <1>4
  <2> QED BY <2>1, <2>2, <2>3
<1> QED BY <1>3, <1>4, <1>5 DEF s
-----------------------------------------------------------------------------
(* What a listing shows, as time goes by                                   *)

IdsIn(base, st) == {k[Len(base) + 1] : k \in {l \in DOMAIN st : Under(base, l) /\ Carries(base, l)}}
Revisions(x) == <<"plan-rolling", x, "revisions">>

\* The key of a file, or of a marker, of one job.
KeyIn(k, w, j) == \E f : k = KeyOf(w, j, f)
JobOf(w, j) == w \in Writers /\ j \in Jobs(w)

LEMMA KeyOwner ==
    ASSUME setup \in Setups, NEW st, StoreTyped(st), NEW k \in DOMAIN st
    PROVE  \E w, j : JobOf(w, j) /\ KeyIn(k, w, j)
BY DEF StoreTyped, JobOf, KeyIn

LEMMA OwnedShape ==
    ASSUME setup \in Setups, NEW w, NEW j, JobOf(w, j), NEW k, KeyIn(k, w, j)
    PROVE  /\ JobAt(w, j).run \in Nat
           /\ \/ \E d, f : k = <<d, JobAt(w, j).run, f>>
              \/ \E d \in Nat : \E f : /\ JobAt(w, j).dir = Revisions(d) /\ Len(JobAt(w, j).dir) = 3
                                      /\ k = <<"plan-rolling", d, "revisions", JobAt(w, j).run, f>>
<1> DEFINE job == JobAt(w, j)
           run == job.run
           d3 == job.dir[2]
<1>1. JobShape(job)
  BY JobFacts DEF JobOf
<1>2. PICK f : k = Key(job.dir, job.run, f)
  BY DEF KeyIn, KeyOf
<1>3. \/ job.dir = <<job.dir[1]>> /\ Key(job.dir, job.run, f) = <<job.dir[1], job.run, f>>
      \/ /\ job.dir = <<"plan-rolling", job.dir[2], "revisions">>
         /\ Key(job.dir, job.run, f) = <<"plan-rolling", job.dir[2], "revisions", job.run, f>>
  BY <1>1, KeyShape
<1>4. job.run \in Nat /\ (job.dir = <<job.dir[1]>> \/ job.dir[2] \in Nat)
  BY <1>1 DEF JobShape
<1> HIDE DEF job
<1>5. CASE job.dir = <<job.dir[1]>> /\ Key(job.dir, job.run, f) = <<job.dir[1], job.run, f>>
  BY <1>2, <1>4, <1>5 DEF job
<1>6. CASE /\ job.dir = <<"plan-rolling", job.dir[2], "revisions">>
           /\ Key(job.dir, job.run, f) = <<"plan-rolling", job.dir[2], "revisions", job.run, f>>
  <2> DEFINE d == job.dir[2]
  <2>1. job.dir = <<"plan-rolling", d, "revisions">> /\ k = <<"plan-rolling", d, "revisions", run, f>>
    BY <1>2, <1>6 DEF job
  <2> HIDE DEF d, run
  <2>2. Len(job.dir) = 3 /\ job.dir # <<job.dir[1]>>
    <3>1. Len(<<"plan-rolling", d, "revisions">>) = 3 /\ \A z : <<"plan-rolling", d, "revisions">> # <<z>>
      OBVIOUS
    <3> QED BY <2>1, <3>1
  <2>3. d \in Nat
    BY <1>4, <2>2 DEF d
  <2> QED BY <1>4, <2>1, <2>2, <2>3 DEF Revisions, job, run
<1> QED BY <1>3, <1>5, <1>6

\* A key under the directory of a mode, and under that of a run's revisions.
LEMMA UnderMode ==
    ASSUME setup \in Setups, NEW st, StoreTyped(st), NEW k \in DOMAIN st, NEW m, Under(<<m>>, k)
    PROVE  k[2] \in Nat
<1>1. PICK w, j : JobOf(w, j) /\ KeyIn(k, w, j)
  BY KeyOwner
<1> QED BY <1>1, OwnedShape

LEMMA UnderRevisions ==
    ASSUME setup \in Setups, NEW st, StoreTyped(st), NEW k \in DOMAIN st, NEW m, NEW x, Under(<<m, x, "revisions">>, k),
           NEW w, NEW j, JobOf(w, j), KeyIn(k, w, j)
    PROVE  /\ k[4] = JobAt(w, j).run /\ JobAt(w, j).run \in Nat
           /\ JobAt(w, j).dir = Revisions(x) /\ Len(JobAt(w, j).dir) = 3
           /\ m = "plan-rolling"
<1> DEFINE run == JobAt(w, j).run
           base == <<m, x, "revisions">>
<1>1. Len(k) >= 5 /\ IsPrefix(base, k)
  BY DEF Under
<1> HIDE DEF run
<1>2. PICK d \in Nat : \E f : /\ JobAt(w, j).dir = Revisions(d) /\ Len(JobAt(w, j).dir) = 3
                              /\ k = <<"plan-rolling", d, "revisions", run, f>>
  <2>1. \A d, f : k # <<d, run, f>>
    <3> SUFFICES ASSUME NEW d, NEW f, k = <<d, run, f>> PROVE FALSE
      OBVIOUS
    <3>1. Len(<<d, run, f>>) = 3
      OBVIOUS
    <3> QED BY <1>1, <3>1
  <2> QED BY <2>1, OwnedShape DEF run
<1>3. PICK f : k = <<"plan-rolling", d, "revisions", run, f>>
  BY <1>2
<1>4. m = "plan-rolling" /\ x = d
  <2> DEFINE S == {"plan-rolling", "revisions", m, x, d, run, f}
  <2>1. base \in Seq(S) /\ k \in Seq(S) /\ Len(base) = 3 /\ base[1] = m /\ base[2] = x
        /\ k[1] = "plan-rolling" /\ k[2] = d
    BY <1>3
  <2> HIDE DEF base, S
  <2>2. \A i \in 1 .. Len(base) : base[i] = k[i]
    BY ZenonT(60), <1>1, <2>1, PrefixAgrees
  <2> QED BY <2>1, <2>2
<1>5. k[4] = run
  BY <1>3
<1> QED BY <1>2, <1>4, <1>5, OwnedShape DEF run

\* Listings are of finitely many numbers.
Listable(base) == (\E m : base = <<m>>) \/ (\E m, x : base = <<m, x, "revisions">>)

LEMMA IdsTyped ==
    ASSUME setup \in Setups, NEW st, StoreTyped(st), NEW base, Listable(base)
    PROVE  IsFiniteSet(IdsIn(base, st)) /\ IdsIn(base, st) \in SUBSET Nat
<1> DEFINE keys == {l \in DOMAIN st : Under(base, l) /\ Carries(base, l)}
           id == [k \in keys |-> k[Len(base) + 1]]
           ids == IdsIn(base, st)
<1>1. IsFiniteSet(keys)
  BY FS_Subset DEF StoreTyped
<1>2. id \in Surjection(keys, ids)
  BY DEF Surjection, IdsIn
<1>3. IsFiniteSet(ids)
  <2> HIDE DEF keys, id, ids
  <2> QED BY <1>1, <1>2, FS_Surjection
<1>4. ASSUME NEW k \in keys PROVE k[Len(base) + 1] \in Nat
  <2>1. CASE \E m : base = <<m>>
    <3>1. PICK m : base = <<m>>
      BY <2>1
    <3>2. Len(base) + 1 = 2 /\ Under(<<m>>, k)
      BY <1>4, <3>1
    <3> QED BY <1>4, <3>2, UnderMode
  <2>2. CASE \E m, x : base = <<m, x, "revisions">>
    <3>1. PICK m, x : base = <<m, x, "revisions">>
      BY <2>2
    <3>2. Len(base) + 1 = 4 /\ Under(<<m, x, "revisions">>, k)
      BY <1>4, <3>1
    <3>3. PICK w, j : JobOf(w, j) /\ KeyIn(k, w, j)
      BY <1>4, KeyOwner
    <3> QED BY <1>4, <3>2, <3>3, UnderRevisions
  <2> QED BY <2>1, <2>2 DEF Listable
<1> QED BY <1>3, <1>4 DEF IdsIn

\* A writer has put objects only for the jobs it has come to.
Started(st, wr) == \A w \in Writers : \A j \in Jobs(w) : \A f : KeyOf(w, j, f) \in DOMAIN st => j <= wr[w].job

Later(m, n) == m \in Nat /\ n \in Nat /\ m <= n

\* A step adds at most one key, of the job its writer is at.
LEMMA AddedKey ==
    ASSUME Writing, [Next]_vars
    PROVE  /\ \A k \in DOMAIN store' \ DOMAIN store : \E w \in Writers : writer[w].job \in Jobs(w) /\ KeyIn(k, w, writer[w].job)
           /\ \A w \in Writers : Later(writer[w].job, writer'[w].job)
<1>1. setup \in Setups /\ WritersTyped(writer) /\ \A w \in Writers : writer[w].job \in Nat
  BY DEF Writing, WritingOf, WritersTyped, WriterState
<1>2. ASSUME NEW w \in Writers, OpenFile(w)
      PROVE  /\ \A k \in DOMAIN store' \ DOMAIN store : writer[w].job \in Jobs(w) /\ KeyIn(k, w, writer[w].job)
             /\ \A v \in Writers : Later(writer[v].job, writer'[v].job)
  <2>1. DOMAIN store' = DOMAIN store \cup {FileKey(w)} /\ writer' = [writer EXCEPT ![w].open = TRUE] /\ Busy(w)
    BY <1>2 DEF OpenFile, Put
  <2>2. writer[w].job \in Jobs(w) /\ FileKey(w) = PathOf(w, writer[w].job, writer[w].file)
    BY <1>1, <2>1, WriterAt
  <2>3. KeyIn(FileKey(w), w, writer[w].job)
    BY <2>2 DEF PathOf, KeyIn
  <2>4. \A v \in Writers : writer'[v].job = writer[v].job
    BY <1>1, <2>1 DEF WritersTyped, WriterState
  <2>5. \A v \in Writers : Later(writer[v].job, writer'[v].job)
    BY <1>1, <2>4 DEF Later
  <2> QED BY <2>1, <2>2, <2>3, <2>5
<1>3. ASSUME NEW w \in Writers, FillFile(w)
      PROVE  DOMAIN store' = DOMAIN store /\ \A v \in Writers : Later(writer[v].job, writer'[v].job)
  <2>1. DOMAIN store' = DOMAIN store /\ writer' = [writer EXCEPT ![w].open = FALSE, ![w].file = @ + 1]
    BY <1>3 DEF FillFile
  <2>2. \A v \in Writers : writer'[v].job = writer[v].job
    BY <1>1, <2>1 DEF WritersTyped, WriterState
  <2>3. \A v \in Writers : Later(writer[v].job, writer'[v].job)
    BY <1>1, <2>2 DEF Later
  <2> QED BY <2>1, <2>3
<1>4. ASSUME NEW w \in Writers, Publish(w)
      PROVE  /\ \A k \in DOMAIN store' \ DOMAIN store : writer[w].job \in Jobs(w) /\ KeyIn(k, w, writer[w].job)
             /\ \A v \in Writers : Later(writer[v].job, writer'[v].job)
  <2> DEFINE marker == Key(Job(w).dir, Job(w).run, Marker)
  <2>1. /\ DOMAIN store' \in SUBSET (DOMAIN store \cup {marker}) /\ Busy(w)
        /\ writer' = [writer EXCEPT ![w] = NextJob(w)]
    BY <1>4 DEF Publish, Put
  <2>2. writer[w].job \in Jobs(w) /\ marker = MarkerOf(w, writer[w].job)
    BY <1>1, <2>1, WriterAt
  <2>3. KeyIn(marker, w, writer[w].job)
    BY <2>2 DEF MarkerOf, KeyIn
  <2>4. \A v \in Writers : writer'[v].job = writer[v].job \/ (v = w /\ writer'[v].job = writer[v].job + 1)
    BY <1>1, <2>1 DEF WritersTyped, WriterState, NextJob
  <2>5. \A v \in Writers : Later(writer[v].job, writer'[v].job)
    BY <1>1, <2>4 DEF Later
  <2> QED BY <2>1, <2>2, <2>3, <2>5
<1>5. ASSUME NEW w \in Writers, Crash(w)
      PROVE  store' = store /\ \A v \in Writers : Later(writer[v].job, writer'[v].job)
  <2>1. CASE writer' = [writer EXCEPT ![w] = [NextJob(w) EXCEPT !.crashes = @ + 1]]
    <3>1. \A v \in Writers : writer'[v].job = writer[v].job \/ (v = w /\ writer'[v].job = writer[v].job + 1)
      BY <1>1, <2>1 DEF WritersTyped, NextJob
    <3> QED BY <1>1, <1>5, <3>1 DEF Crash, Later
  <2>2. CASE writer' = [writer EXCEPT ![w].file = 1, ![w].open = FALSE, ![w].attempt = @ + 1, ![w].crashes = @ + 1]
    <3>1. \A v \in Writers : writer'[v].job = writer[v].job
      BY <1>1, <2>2 DEF WritersTyped, WriterState
    <3> QED BY <1>1, <1>5, <3>1 DEF Crash, Later
  <2> QED BY <1>5, <2>1, <2>2 DEF Crash
<1>6. CASE WriterStep
  BY <1>2, <1>3, <1>4, <1>5, <1>6 DEF WriterStep
<1>7. CASE ~WriterStep
  <2>1. store' = store /\ writer' = writer
    BY <1>7, StoreQuiet
  <2> QED BY <1>1, <2>1 DEF Later
<1> QED BY <1>6, <1>7

LEMMA StartedHolds == Spec => []Started(store, writer)
<1>1. Init => Started(store, writer)
  BY DEF Init, Started, Empty
<1>2. ASSUME Core, Writing, Started(store, writer), [Next]_vars PROVE Started(store', writer')
  <2> SUFFICES ASSUME NEW w \in Writers, NEW j \in Jobs(w), NEW f, KeyOf(w, j, f) \in DOMAIN store'
               PROVE  j <= writer'[w].job
    BY DEF Started
  <2>1. j \in Nat /\ setup \in Setups
    BY <1>2, JobFacts DEF Writing, WritingOf
  <2>2. j <= writer[w].job
    <3>1. CASE KeyOf(w, j, f) \in DOMAIN store
      BY <1>2, <3>1 DEF Started
    <3>2. CASE KeyOf(w, j, f) \notin DOMAIN store
      <4>1. PICK v \in Writers : writer[v].job \in Jobs(v) /\ KeyIn(KeyOf(w, j, f), v, writer[v].job)
        BY <1>2, <3>2, AddedKey
      <4>2. PICK g : KeyOf(w, j, f) = KeyOf(v, writer[v].job, g)
        BY <4>1 DEF KeyIn
      <4> DEFINE l == writer[v].job
      <4>3. l \in Jobs(v)
        BY <4>1
      <4> HIDE DEF l
      <4>4. KeyOf(w, j, f) = KeyOf(v, l, g)
        BY <4>2 DEF l
      <4>5. v = w /\ l = j
        BY <2>1, <4>3, <4>4, KeysDiffer
      <4> QED BY <2>1, <4>5 DEF l
    <3> QED BY <3>1, <3>2
  <2>3. Later(writer[w].job, writer'[w].job)
    BY <1>2, AddedKey
  <2> QED BY <2>1, <2>2, <2>3 DEF Later
<1>3. Core /\ Writing /\ Started(store, writer) /\ [Next]_vars => Started(store, writer)'
  <2> SUFFICES ASSUME Core, Writing, Started(store, writer), [Next]_vars PROVE Started(store, writer)'
    OBVIOUS
  <2>1. setup' = setup /\ Started(store', writer')
    BY <1>2, StepShapes
  <2> QED BY <2>1 DEF Started, Writers, Jobs, JobAt, KeyOf
<1> QED BY <1>1, <1>3, CoreHolds, WritingHolds, PTL DEF Spec
\* Listings only grow, and those of revisions at their end.
LEMMA ListingsGrow ==
    ASSUME Writing, Started(store, writer), [Next]_vars, StoreTyped(store')
    PROVE  /\ \A base : IdsIn(base, store) \in SUBSET IdsIn(base, store')
           /\ \A m, x : \A old \in IdsIn(<<m, x, "revisions">>, store) :
                \A new \in IdsIn(<<m, x, "revisions">>, store') \ IdsIn(<<m, x, "revisions">>, store) : old < new
<1>1. DOMAIN store \in SUBSET DOMAIN store'
  BY StoreGrows
<1>2. \A base : IdsIn(base, store) \in SUBSET IdsIn(base, store')
  BY <1>1 DEF IdsIn
<1>3. ASSUME NEW m, NEW x, NEW old \in IdsIn(<<m, x, "revisions">>, store),
             NEW new \in IdsIn(<<m, x, "revisions">>, store') \ IdsIn(<<m, x, "revisions">>, store)
      PROVE  old < new
  <2> DEFINE base == <<m, x, "revisions">>
  <2>0. Len(base) + 1 = 4 /\ setup \in Setups /\ StoreTyped(store)
    BY DEF Writing, WritingOf
  <2>1. PICK k \in DOMAIN store : Under(base, k) /\ Carries(base, k) /\ old = k[4]
    BY <1>3, <2>0 DEF IdsIn
  <2>2. PICK l \in DOMAIN store' : Under(base, l) /\ Carries(base, l) /\ new = l[4]
    BY <1>3, <2>0 DEF IdsIn
  <2>3. l \notin DOMAIN store
    BY <1>3, <2>0, <2>2 DEF IdsIn
  <2>4. PICK v, i : JobOf(v, i) /\ KeyIn(k, v, i)
    BY <2>0, KeyOwner
  <2>5. PICK w \in Writers : writer[w].job \in Jobs(w) /\ KeyIn(l, w, writer[w].job)
    BY <2>2, <2>3, AddedKey
  <2> DEFINE j == writer[w].job
  <2>6. JobOf(w, j) /\ KeyIn(l, w, j)
    BY <2>5 DEF JobOf
  <2> HIDE DEF j
  <2>7. /\ old = JobAt(v, i).run /\ old \in Nat
        /\ JobAt(v, i).dir = Revisions(x) /\ Len(JobAt(v, i).dir) = 3
    BY <2>0, <2>1, <2>4, UnderRevisions
  <2>8. new = JobAt(w, j).run /\ new \in Nat /\ JobAt(w, j).dir = Revisions(x)
    BY <2>0, <2>2, <2>6, UnderRevisions
  <2>9. v = w /\ (i < j => JobAt(v, i).run < JobAt(w, j).run)
    <3>1. v \in DOMAIN setup.jobs /\ w \in DOMAIN setup.jobs /\ i \in DOMAIN setup.jobs[v] /\ j \in DOMAIN setup.jobs[w]
      BY <2>4, <2>6 DEF JobOf, Jobs, Writers
    <3>2. setup.jobs[v][i].dir = setup.jobs[w][j].dir /\ Len(setup.jobs[v][i].dir) = 3
      BY <2>7, <2>8 DEF JobAt
    <3> QED BY <2>0, <3>1, <3>2, JobsAssumption DEF JobAt
  <2>10. i <= j /\ i \in Nat /\ j \in Nat
    <3>1. i <= writer[v].job
      BY <2>4 DEF KeyIn, JobOf, Started
    <3>2. i \in Nat /\ j \in Nat
      BY <2>0, <2>4, <2>6, JobFacts DEF JobOf
    <3> QED BY <2>9, <3>1, <3>2 DEF j
  <2>11. i # j
    <3> SUFFICES ASSUME i = j PROVE FALSE
      OBVIOUS
    <3>1. new = old
      BY <2>7, <2>8, <2>9
    <3> QED BY <1>3, <3>1
  <2> QED BY <2>7, <2>8, <2>9, <2>10, <2>11
<1> QED BY <1>2, <1>3

-----------------------------------------------------------------------------
(* The document a request is answered with                                 *)

Listed(call, x, st) == x \in IdsIn(<<call.mode>>, st) /\ x \in Nat /\ (call.run # Latest => x = call.run)
Placed(call, x, v, st) ==
    /\ v \in IdsIn(<<call.mode, x, "revisions">>, st) /\ v \in Nat
    /\ call.route = "revision" => Nth(IdsIn(<<call.mode, x, "revisions">>, st), call.number + 1, v)
Document(call, x, v, p) ==
    IF call.mode = "plan-periodic" THEN p = <<call.mode, x, "plan">> ELSE p = <<call.mode, x, "revisions", v, "plan">>
Names(call, x, v, p, st) ==
    /\ Document(call, x, v, p) /\ Listed(call, x, st)
    /\ call.mode # "plan-periodic" => Placed(call, x, v, st)
AtDocument(call, p, st) == \E x, v : Names(call, x, v, p, st)

PathOlder(p, q) == p[2] < q[2] \/ (p[2] = q[2] /\ Len(p) = 5 /\ Len(q) = 5 /\ p[4] < q[4])
NotBehind(call, p, q) == ~PathOlder(p, q) /\ (call.route = "revision" /\ call.run # Latest => p = q)

\* A document keeps its name while runs and revisions are added.
LEMMA NamesKept ==
    ASSUME Writing, Started(store, writer), [Next]_vars, StoreTyped(store'),
           NEW call, NEW x, NEW v, NEW p, Names(call, x, v, p, store)
    PROVE  Names(call, x, v, p, store')
<1> DEFINE base == <<call.mode, x, "revisions">>
           ids == IdsIn(base, store)
           more == IdsIn(base, store')
<1>1. Listed(call, x, store')
  BY ListingsGrow DEF Names, Listed
<1>2. ASSUME Placed(call, x, v, store) PROVE Placed(call, x, v, store')
  <2>1. setup \in Setups /\ StoreTyped(store) /\ Listable(base)
    BY DEF Writing, WritingOf, Listable
  <2>2. IsFiniteSet(ids) /\ IsFiniteSet(more) /\ more \in SUBSET Int
    BY <2>1, IdsTyped
  <2>3. ids \in SUBSET more /\ \A a \in ids : \A b \in more \ ids : a < b
    BY ListingsGrow
  <2> HIDE DEF ids, more, base
  <2>4. \A i, a : Nth(ids, i, a) => Nth(more, i, a)
    BY <2>2, <2>3, PlacesKept
  <2> QED BY <1>2, <2>3, <2>4 DEF Placed, ids, more, base
<1> QED BY <1>1, <1>2 DEF Names

\* What a request resolves to after an answer to the same call is not behind it.
InOrder(call, x, v, y, u) ==
    /\ y <= x
    /\ call.mode # "plan-periodic" /\ x = y => u <= v /\ (call.route = "revision" => u = v)

LEMMA OrderedDocuments ==
    ASSUME NEW call, call.route = "revision" => call.mode = "plan-rolling",
           NEW x, NEW v, NEW p, NEW y, NEW u, NEW q, NEW st, NEW old,
           Names(call, x, v, p, st), Names(call, y, u, q, old), InOrder(call, x, v, y, u)
    PROVE  NotBehind(call, p, q)
<1>1. x \in Nat /\ y \in Nat /\ (call.run # Latest => x = y)
  BY DEF Names, Listed
<1>2. CASE call.mode = "plan-periodic"
  <2>1. p = <<call.mode, x, "plan">> /\ q = <<call.mode, y, "plan">>
    BY <1>2 DEF Names, Document
  <2>2. p[2] = x /\ q[2] = y /\ Len(p) = 3
    BY <2>1
  <2> QED BY <1>1, <1>2, <2>2 DEF NotBehind, PathOlder, InOrder
<1>3. CASE call.mode # "plan-periodic"
  <2>1. p = <<call.mode, x, "revisions", v, "plan">> /\ q = <<call.mode, y, "revisions", u, "plan">>
        /\ u \in Nat /\ v \in Nat
    BY <1>3 DEF Names, Document, Placed
  <2>2. p[2] = x /\ q[2] = y /\ p[4] = v /\ q[4] = u
    BY <2>1
  <2>3. ~PathOlder(p, q)
    BY <1>1, <1>3, <2>1, <2>2 DEF PathOlder, InOrder
  <2>4. call.route = "revision" /\ call.run # Latest => p = q
    BY <1>1, <1>3, <2>1 DEF InOrder
  <2> QED BY <2>3, <2>4 DEF NotBehind
<1> QED BY <1>2, <1>3
-----------------------------------------------------------------------------
(* Answers never go back                                                   *)

PlanAnswer(r) == r.call.route \in {"plan", "revision"} /\ r.status = 200
AnswersTo(r, call) == PlanAnswer(r) /\ r.call = call

\* The answers so far name documents of the store, each client's in order.
Ordered(rs, st) ==
    /\ \A i \in DOMAIN rs : PlanAnswer(rs[i]) => AtDocument(rs[i].call, rs[i].doc.path, st)
    /\ \A i, j \in DOMAIN rs : i < j /\ PlanAnswer(rs[i]) /\ AnswersTo(rs[j], rs[i].call)
                             => NotBehind(rs[i].call, rs[j].doc.path, rs[i].doc.path)

\* A request on its way has resolved to nothing older than they name.
UpTo(call, x, q, st) == \E y, u : Names(call, y, u, q, st) /\ y <= x
RunAhead(r, x, rs, st) ==
    /\ r.call.mode # "plan-periodic" /\ Listed(r.call, x, st) /\ r.path = <<r.call.mode, x, "revisions">>
    /\ \A i \in DOMAIN rs : AnswersTo(rs[i], r.call) => UpTo(r.call, x, rs[i].doc.path, st)
DocumentAhead(r, rs, st) ==
    /\ AtDocument(r.call, r.path, st)
    /\ \A i \in DOMAIN rs : AnswersTo(rs[i], r.call) => NotBehind(r.call, r.path, rs[i].doc.path)
Heading(r, rs, st) ==
    r # Idle /\ r.call.route \in {"plan", "revision"} =>
        /\ r.pc = "revisions" => \E x : RunAhead(r, x, rs, st)
        /\ r.pc \in {"exists", "read"} => DocumentAhead(r, rs, st)

LEMMA RevisionCalls ==
    ASSUME Core, Serving, req # Idle
    PROVE  req.call.route = "revision" => req.call.mode = "plan-rolling"
BY CallsAssumption DEF Core, Serving, ServingOf

\* What a listing of a run's or mode's directory is.
LEMMA ListingIs ==
    ASSUME Writing, NEW base, Listable(base)
    PROVE  /\ ListRunIds(base) = SortedIds(IdsIn(base, store))
           /\ IsFiniteSet(IdsIn(base, store)) /\ IdsIn(base, store) \in SUBSET Nat
<1>1. IsFiniteSet(IdsIn(base, store)) /\ IdsIn(base, store) \in SUBSET Nat
  BY IdsTyped DEF Writing, WritingOf
<1> QED BY <1>1 DEF ListRunIds, IdsIn

LEMMA RunResolves ==
    ASSUME Core, Writing, Serving, Ordered(replies, store), ResolveRun, req' # Idle
    PROVE  Heading(req', replies, store)
<1> DEFINE call == req.call
           mode == call.mode
           base == <<mode>>
           ids == IdsIn(base, store)
           runs == ListRunIds(base)
           run == IF call.run = Latest THEN Last(runs) ELSE call.run
<1>1. /\ req.pc = "resolve" /\ call.route \in Plans \ {"list"} /\ runs # <<>> /\ Contains(runs, run)
      /\ req' = IF call.route = "summary"
                THEN [req EXCEPT !.pc = "exists", !.path = <<mode, run, "summary">>]
                ELSE IF mode = "plan-periodic"
                THEN [req EXCEPT !.pc = "exists", !.path = <<mode, run, "plan">>]
                ELSE [req EXCEPT !.pc = "revisions", !.path = <<mode, run, "revisions">>]
  BY DEF ResolveRun, Step, Refuse, Answer
<1>2. req # Idle /\ DOMAIN req = RequestFields
  <2>1. req # Idle
    BY <1>1 DEF Idle
  <2> QED BY <2>1 DEF Core
<1>3. runs = SortedIds(ids) /\ IsFiniteSet(ids) /\ ids \in SUBSET Nat
  BY ListingIs DEF Listable
<1> HIDE DEF ids
<1>4. run \in ids
  <2> HIDE DEF run
  <2>1. PICK i \in 1 .. Len(runs) : runs[i] = run
    BY <1>1 DEF Contains
  <2>2. DOMAIN SortedIds(ids) = 1 .. Len(SortedIds(ids)) /\ \A n \in DOMAIN SortedIds(ids) : SortedIds(ids)[n] \in ids
    <3>1. ids \in SUBSET Int
      BY <1>3
    <3> QED BY <1>3, <3>1, SortedListing
  <2> QED BY <1>3, <2>1, <2>2
<1>5. call.run = Latest => \A y \in ids : y <= run
  BY <1>1, <1>3, LastIsLargest
<1> HIDE DEF run, runs
<1>6. Listed(call, run, store)
  BY <1>3, <1>4 DEF Listed, ids, run
<1>7. ASSUME NEW i \in DOMAIN replies, AnswersTo(replies[i], call)
      PROVE  \E y, u : Names(call, y, u, replies[i].doc.path, store) /\ y <= run
  <2>1. PICK y, u : Names(call, y, u, replies[i].doc.path, store)
    BY <1>7 DEF Ordered, AtDocument, AnswersTo
  <2>2. y \in ids /\ y \in Nat /\ (call.run # Latest => y = run)
    BY <2>1 DEF Names, Listed, ids, run
  <2> QED BY <1>5, <2>1, <2>2
<1>8. SUFFICES ASSUME call.route \in {"plan", "revision"} PROVE Heading(req', replies, store)
  <2>1. req'.call = call
    BY <1>1, <1>2 DEF RequestFields
  <2> QED BY <2>1 DEF Heading
<1>9. CASE mode = "plan-periodic"
  <2> DEFINE p == <<mode, run, "plan">>
             q == req'
  <2>1. q.pc = "exists" /\ q.path = p /\ q.call = call
    BY <1>1, <1>2, <1>8, <1>9 DEF RequestFields
  <2>2. \A v : Names(call, run, v, p, store)
    BY <1>6, <1>9 DEF Names, Document
  <2> HIDE DEF p, q
  <2>3. ASSUME NEW i \in DOMAIN replies, AnswersTo(replies[i], call) PROVE NotBehind(call, p, replies[i].doc.path)
    <3>1. PICK y, u : Names(call, y, u, replies[i].doc.path, store) /\ y <= run
      BY <1>7, <2>3
    <3>2. InOrder(call, run, 0, y, u)
      BY <1>9, <3>1 DEF InOrder
    <3>3. Names(call, run, 0, p, store)
      BY <2>2
    <3>4. call.route = "revision" => call.mode = "plan-rolling"
      BY <1>2, RevisionCalls
    <3> HIDE DEF call
    <3> QED BY <3>1, <3>2, <3>3, <3>4, OrderedDocuments
  <2>4. DocumentAhead(q, replies, store)
    BY <2>1, <2>2, <2>3 DEF DocumentAhead, AtDocument
  <2> QED BY <2>1, <2>4 DEF Heading, q
<1>10. CASE mode # "plan-periodic"
  <2> DEFINE p == <<mode, run, "revisions">>
             q == req'
  <2>1. q.pc = "revisions" /\ q.path = p /\ q.call = call
    BY <1>1, <1>2, <1>8, <1>10 DEF RequestFields
  <2> HIDE DEF q
  <2>2. RunAhead(q, run, replies, store)
    BY <1>6, <1>7, <1>10, <2>1 DEF RunAhead, UpTo
  <2> QED BY <2>1, <2>2 DEF Heading, q
<1> QED BY <1>9, <1>10

LEMMA RevisionResolves ==
    ASSUME Core, Writing, Serving, Heading(req, replies, store), ResolveRevision, req' # Idle
    PROVE  Heading(req', replies, store)
<1> DEFINE call == req.call
           n == call.number
           runs == ListRunIds(req.path)
           v == IF call.route = "plan" THEN Newest(runs) ELSE runs[n + 1]
           p == Key(req.path, v, "plan")
<1>1. /\ req.pc = "revisions"
      /\ ~(call.route = "plan" /\ runs = <<>>)
      /\ ~(call.route = "revision" /\ (n < 0 \/ n >= Len(runs)))
      /\ req' = [req EXCEPT !.pc = "exists", !.path = p]
  BY DEF ResolveRevision, Step, Refuse, Answer
<1>2. /\ req # Idle /\ DOMAIN req = RequestFields /\ call.route \in {"plan", "revision"} /\ n \in Int
  <2>1. req # Idle
    BY <1>1 DEF Idle
  <2> QED BY <1>1, <2>1, CallsAssumption DEF Core, Serving, ServingOf
<1>3. PICK x : RunAhead(req, x, replies, store)
  BY <1>1, <1>2 DEF Heading
<1> DEFINE base == <<call.mode, x, "revisions">>
           ids == IdsIn(base, store)
<1>4. /\ call.mode # "plan-periodic" /\ Listed(call, x, store) /\ req.path = base
      /\ \A i \in DOMAIN replies : AnswersTo(replies[i], call) => UpTo(call, x, replies[i].doc.path, store)
  BY <1>3 DEF RunAhead
<1>5. runs = SortedIds(ids) /\ IsFiniteSet(ids) /\ ids \in SUBSET Nat
  BY <1>4, ListingIs DEF Listable
<1>6. p = <<call.mode, x, "revisions", v, "plan">>
  <2> HIDE DEF v
  <2> QED BY <1>4, LongKey
<1> HIDE DEF p, ids
<1>7. v \in ids /\ (call.route = "plan" => \A u \in ids : u <= v) /\ (call.route = "revision" => Nth(ids, n + 1, v))
  <2>1. CASE call.route = "plan"
    <3>1. SortedIds(ids) # <<>> /\ v = Last(SortedIds(ids))
      BY <1>1, <1>5, <2>1 DEF Newest
    <3> HIDE DEF v
    <3>2. ids \in SUBSET Int
      BY <1>5
    <3>3. v \in ids /\ \A u \in ids : u <= v
      BY <1>5, <3>1, <3>2, LastIsLargest
    <3> QED BY <2>1, <3>3
  <2>2. CASE call.route = "revision"
    <3>1. DOMAIN SortedIds(ids) = 1 .. Len(SortedIds(ids)) /\ Len(SortedIds(ids)) \in Nat
          /\ \A i \in DOMAIN SortedIds(ids) : SortedIds(ids)[i] \in ids
      <4>1. ids \in SUBSET Int
        BY <1>5
      <4> QED BY <1>5, <4>1, SortedListing
    <3>2. n + 1 \in DOMAIN SortedIds(ids) /\ v = SortedIds(ids)[n + 1]
      <4>1. ~(n < 0 \/ n >= Len(SortedIds(ids)))
        BY <1>1, <1>5, <2>2
      <4>2. v = SortedIds(ids)[n + 1]
        BY <1>5, <2>2
      <4> HIDE DEF v
      <4> QED BY <1>2, <3>1, <4>1, <4>2
    <3> HIDE DEF v
    <3> QED BY <2>2, <3>1, <3>2 DEF Nth
  <2> HIDE DEF v
  <2>3. call.route = "plan" \/ call.route = "revision"
    BY <1>2
  <2>4. ~(call.route = "plan" /\ call.route = "revision")
    OBVIOUS
  <2> QED BY <2>1, <2>2, <2>3, <2>4
<1> HIDE DEF v
<1>8. Names(call, x, v, p, store)
  <2>1. Placed(call, x, v, store)
    BY <1>5, <1>7 DEF Placed, ids
  <2> QED BY <1>4, <1>6, <2>1 DEF Names, Document
<1>9. ASSUME NEW i \in DOMAIN replies, AnswersTo(replies[i], call) PROVE NotBehind(call, p, replies[i].doc.path)
  <2>1. PICK y, u : Names(call, y, u, replies[i].doc.path, store) /\ y <= x
    BY <1>4, <1>9 DEF UpTo
  <2>2. ASSUME x = y PROVE u <= v /\ (call.route = "revision" => u = v)
    <3>1. u \in ids /\ u \in Nat /\ (call.route = "revision" => Nth(ids, n + 1, u))
      BY <1>4, <2>1, <2>2 DEF Names, Placed, ids
    <3>2. call.route = "revision" => u = v
      BY <1>7, <3>1 DEF Nth
    <3> QED BY <1>2, <1>5, <1>7, <3>1, <3>2
  <2>3. InOrder(call, x, v, y, u)
    BY <2>1, <2>2 DEF InOrder
  <2>4. call.route = "revision" => call.mode = "plan-rolling"
    BY <1>2, RevisionCalls
  <2> HIDE DEF call
  <2> QED BY <1>8, <2>1, <2>3, <2>4, OrderedDocuments
<1> DEFINE q == req'
<1>10. q.pc = "exists" /\ q.path = p /\ q.call = call
  BY <1>1, <1>2 DEF RequestFields
<1> HIDE DEF q
<1>11. DocumentAhead(q, replies, store)
  BY <1>8, <1>9, <1>10 DEF DocumentAhead, AtDocument
<1> QED BY <1>10, <1>11 DEF Heading, q

LEMMA HeadingMoves ==
    ASSUME NEW r, NEW q, NEW rs, NEW st, Heading(r, rs, st), r # Idle, Steered(r, q)
    PROVE  Heading(q, rs, st)
<1>1. q.call = r.call
  BY DEF Steered
<1>2. CASE q.pc = r.pc /\ q.path = r.path
  BY <1>1, <1>2 DEF Heading, RunAhead, DocumentAhead
<1>3. CASE q.pc \in Evaluations
  BY <1>3 DEF Heading, Evaluations
<1>4. CASE q.pc = "read" /\ r.pc = "exists" /\ q.path = r.path
  BY <1>1, <1>4 DEF Heading, DocumentAhead
<1> QED BY <1>2, <1>3, <1>4 DEF Steered
\* The request at hand after a step, against the answers and the store before.
LEMMA HeadingStep ==
    ASSUME Core, Writing, Serving, Ordered(replies, store), Heading(req, replies, store), [Next]_vars
    PROVE  Heading(req', replies, store)
<1> DEFINE q == req'
<1>1. CASE q = Idle
  BY <1>1 DEF Heading
<1>2. CASE q = req
  BY <1>2
<1>3. CASE q.pc = "resolve"
  BY <1>3 DEF Heading
<1>4. CASE req # Idle /\ Steered(req, q)
  <2> HIDE DEF q
  <2> QED BY <1>4, HeadingMoves DEF q
<1>5. CASE q # Idle /\ ResolveRun
  BY <1>5, RunResolves
<1>6. CASE q # Idle /\ ResolveRevision
  BY <1>6, RevisionResolves
<1> QED BY <1>1, <1>2, <1>3, <1>4, <1>5, <1>6, RequestMoves

\* The answers after a step, against the store before.
LEMMA OrderedStep ==
    ASSUME Core, Writing, Serving, Ordered(replies, store), Heading(req, replies, store), [Next]_vars
    PROVE  Ordered(replies', store) /\ (replies' = replies \/ req' = Idle)
<1>1. CASE replies' = replies
  BY <1>1
<1>2. CASE req' = Idle /\ \E r : replies' = Append(replies, r) /\ PlanReply(r)
  <2>1. PICK r : replies' = Append(replies, r) /\ PlanReply(r)
    BY <1>2
  <2> DEFINE rs == replies'
             n == Len(replies) + 1
  <2>2. /\ DOMAIN replies = 1 .. Len(replies) /\ Len(replies) \in Nat
        /\ DOMAIN rs = 1 .. n /\ rs[n] = r
        /\ \A i \in DOMAIN replies : rs[i] = replies[i]
    BY <2>1, Appended DEF Core
  <2>3. ASSUME PlanAnswer(r)
        PROVE  /\ AtDocument(r.call, r.doc.path, store)
               /\ \A i \in DOMAIN replies : AnswersTo(replies[i], r.call) => NotBehind(r.call, r.doc.path, replies[i].doc.path)
    <3>1. req.pc = "read" /\ r.call = req.call /\ r.doc.path = req.path
      BY <2>1, <2>3 DEF PlanReply, PlanAnswer, Step
    <3>2. req # Idle
      BY <3>1 DEF Idle
    <3>3. DocumentAhead(req, replies, store)
      BY <2>3, <3>1, <3>2 DEF Heading, PlanAnswer
    <3> QED BY <3>1, <3>3 DEF DocumentAhead
  <2> HIDE DEF rs
  <2>4. ASSUME NEW i \in DOMAIN rs, PlanAnswer(rs[i]) PROVE AtDocument(rs[i].call, rs[i].doc.path, store)
    <3>1. i \in DOMAIN replies \/ i = n
      BY <2>2
    <3>2. CASE i \in DOMAIN replies
      BY <2>2, <2>4, <3>2 DEF Ordered
    <3>3. CASE i = n
      BY <2>2, <2>3, <2>4, <3>3
    <3> QED BY <3>1, <3>2, <3>3
  <2>5. ASSUME NEW i \in DOMAIN rs, NEW j \in DOMAIN rs, i < j, PlanAnswer(rs[i]), AnswersTo(rs[j], rs[i].call)
        PROVE  NotBehind(rs[i].call, rs[j].doc.path, rs[i].doc.path)
    <3>1. i \in DOMAIN replies /\ (j \in DOMAIN replies \/ j = n)
      BY <2>2, <2>5
    <3>2. CASE j \in DOMAIN replies
      BY <2>2, <2>5, <3>1, <3>2 DEF Ordered
    <3>3. CASE j = n
      <4>1. PlanAnswer(r) /\ r.call = rs[i].call /\ AnswersTo(replies[i], r.call)
        BY <2>2, <2>5, <3>1, <3>3 DEF AnswersTo
      <4> QED BY <2>2, <2>3, <3>1, <3>3, <4>1
    <3> QED BY <3>1, <3>2, <3>3
  <2>6. Ordered(rs, store)
    BY <2>4, <2>5 DEF Ordered
  <2> QED BY <1>2, <2>6 DEF rs
<1> QED BY <1>1, <1>2, AnswerShapes

\* Both are kept by what the writers do beside.
LEMMA AheadGrows ==
    ASSUME Writing, Started(store, writer), [Next]_vars, StoreTyped(store'), NEW r, NEW rs
    PROVE  /\ Ordered(rs, store) => Ordered(rs, store')
           /\ Heading(r, rs, store) => Heading(r, rs, store')
<1>1. \A call, x, v, p : Names(call, x, v, p, store) => Names(call, x, v, p, store')
  BY NamesKept
<1>2. \A call, p : AtDocument(call, p, store) => AtDocument(call, p, store')
  BY <1>1 DEF AtDocument
<1>3. \A call, x, p : UpTo(call, x, p, store) => UpTo(call, x, p, store')
  BY <1>1 DEF UpTo
<1>4. \A call, x : Listed(call, x, store) => Listed(call, x, store')
  BY ListingsGrow DEF Listed
<1>5. Ordered(rs, store) => Ordered(rs, store')
  BY <1>2 DEF Ordered
<1>6. ASSUME Heading(r, rs, store) PROVE Heading(r, rs, store')
  <2>1. \A x : RunAhead(r, x, rs, store) => RunAhead(r, x, rs, store')
    BY <1>3, <1>4 DEF RunAhead
  <2>2. DocumentAhead(r, rs, store) => DocumentAhead(r, rs, store')
    BY <1>2 DEF DocumentAhead
  <2> QED BY <1>6, <2>1, <2>2 DEF Heading
<1> QED BY <1>5, <1>6

Onward == Ordered(replies, store) /\ Heading(req, replies, store)

LEMMA OnwardHolds == Spec => []Onward
<1>1. Init => Onward
  BY DEF Init, Onward, Ordered, Heading
<1>2. Core /\ Writing /\ Writing' /\ Serving /\ Started(store, writer) /\ Onward /\ [Next]_vars => Onward'
  <2> SUFFICES ASSUME Core, Writing, Writing', Serving, Started(store, writer), Onward, [Next]_vars PROVE Onward'
    OBVIOUS
  <2>1. setup' = setup
    BY StepShapes
  <2>2. StoreTyped(store')
    BY <2>1 DEF Writing, WritingOf, StoreTyped, Writers, Jobs, JobAt, KeyOf
  <2>3. Heading(req', replies, store) /\ Ordered(replies', store) /\ (replies' = replies \/ req' = Idle)
    BY HeadingStep, OrderedStep DEF Onward
  <2>4. Heading(req', replies', store)
    BY <2>3 DEF Heading
  <2>5. Ordered(replies', store') /\ Heading(req', replies', store')
    BY <2>2, <2>3, <2>4, AheadGrows
  <2>6. Ordered(replies, store)'
    <3>1. (\A i \in DOMAIN replies : PlanAnswer(replies[i]) => AtDocument(replies[i].call, replies[i].doc.path, store))'
      <4>1. \A i \in DOMAIN replies' : PlanAnswer(replies'[i]) => AtDocument(replies'[i].call, replies'[i].doc.path, store')
        BY <2>5 DEF Ordered
      <4>2. SUFFICES ASSUME NEW i \in DOMAIN replies', PlanAnswer(replies'[i])
                     PROVE  AtDocument(replies[i].call, replies[i].doc.path, store)'
        OBVIOUS
      <4>3. AtDocument(replies'[i].call, replies'[i].doc.path, store')
        BY <4>1, <4>2
      <4> QED BY <2>1, <4>3 DEF AtDocument, Names, Listed, Placed, IdsIn, Carries, ObjectStore
    <3>2. (\A i, j \in DOMAIN replies : i < j /\ PlanAnswer(replies[i]) /\ AnswersTo(replies[j], replies[i].call)
                             => NotBehind(replies[i].call, replies[j].doc.path, replies[i].doc.path))'
      BY <2>5 DEF Ordered
    <3> QED BY <3>1, <3>2 DEF Ordered
  <2>7. Heading(req, replies, store)'
    <3>1. SUFFICES ASSUME req' # Idle, req'.call.route \in {"plan", "revision"}
                   PROVE  /\ req'.pc = "revisions" => \E x : RunAhead(req, x, replies, store)'
                          /\ req'.pc \in {"exists", "read"} => DocumentAhead(req, replies, store)'
      BY DEF Heading
    <3>2. ASSUME req'.pc = "revisions" PROVE \E x : RunAhead(req, x, replies, store)'
      <4>1. PICK x : RunAhead(req', x, replies', store')
        BY <2>5, <3>1, <3>2 DEF Heading
      <4>2. RunAhead(req, x, replies, store)'
        BY <2>1, <4>1 DEF RunAhead, UpTo, Names, Listed, Placed, IdsIn, Carries, ObjectStore
      <4> QED BY <4>2
    <3>3. ASSUME req'.pc \in {"exists", "read"} PROVE DocumentAhead(req, replies, store)'
      <4>1. DocumentAhead(req', replies', store')
        BY <2>5, <3>1, <3>3 DEF Heading
      <4> QED BY <2>1, <4>1 DEF DocumentAhead, AtDocument, Names, Listed, Placed, IdsIn, Carries, ObjectStore
    <3> QED BY <3>2, <3>3
  <2> QED BY <2>6, <2>7 DEF Onward
<1> QED BY <1>1, <1>2, CoreHolds, WritingHolds, ServingHolds, StartedHolds, PTL DEF Spec

\* A client that repeats a request for a plan never gets an older document, and a
\* revision asked for by its position in a given run is always the same one, whatever
\* is published between the two requests and whether the service restarts
\* (_resolve_run_rel, _rolling_revision_ids, list_run_ids).
THEOREM NoAnswerGoesBack == Spec => []AnswersNeverGoBack
<1>1. Onward => AnswersNeverGoBack
  <2> SUFFICES ASSUME Onward, NEW i \in DOMAIN replies, NEW j \in DOMAIN replies,
                      i < j, replies[i].call = replies[j].call, Ok(i), Ok(j), IsRoute(i, {"plan", "revision"})
               PROVE  /\ ~Older(replies[j].doc, replies[i].doc)
                      /\ IsRoute(i, {"revision"}) /\ replies[i].call.run # Latest => replies[j].doc.path = replies[i].doc.path
    BY DEF AnswersNeverGoBack
  <2>1. PlanAnswer(replies[i]) /\ AnswersTo(replies[j], replies[i].call)
    BY DEF PlanAnswer, AnswersTo, Ok, IsRoute
  <2>2. NotBehind(replies[i].call, replies[j].doc.path, replies[i].doc.path)
    BY <2>1 DEF Onward, Ordered
  <2> QED BY <2>2 DEF NotBehind, PathOlder, Older, IsRoute
<1> QED BY <1>1, OnwardHolds, PTL

=============================================================================
