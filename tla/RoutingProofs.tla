---------------------------- MODULE RoutingProofs ----------------------------
(***************************************************************************)
(* What a cluster's solve guarantees for every set of rows: whatever       *)
(* routes the search builds inside the constraints the code adds, what is  *)
(* extracted from them can be carried out, loses no task, and is priced    *)
(* for the restrictions in force.                                          *)
(***************************************************************************)
EXTENDS DivisionProofs

-----------------------------------------------------------------------------
(* The cluster that is solved *)

\* What a search is given: the bundles of the cluster, no vehicle and no
\* implement twice, and its tasks, told apart by whether a bundle could serve them.
Prepared(in, c, bs, os, ps) ==
    /\ c \in Clusters(in)
    /\ bs \in Seq(in.compat) /\ bs # <<>>
    /\ \A k, l \in 1 .. Len(bs) : bs[k][1] = bs[l][1] \/ bs[k][2] = bs[l][2] => k = l
    /\ os \in Seq(in.known) /\ IsInjective(os) /\ ps \in Seq(in.known)
    /\ ToSet(os) \cap ToSet(ps) = {} /\ ToSet(os) \cup ToSet(ps) = ToSet(Known(in, c))

LEMMA SortedPairs ==
    ASSUME NEW S \in SUBSET (Int \X Int), IsFiniteSet(S), Single(S)
    PROVE  /\ Sorted(S, LAMBDA p, q : p[1] < q[1]) \in Seq(S)
           /\ ToSet(Sorted(S, LAMBDA p, q : p[1] < q[1])) = S
           /\ IsInjective(Sorted(S, LAMBDA p, q : p[1] < q[1]))
<1> DEFINE R == {r \in S \X S : r[1][1] < r[2][1]}
           Ahead(x) == {y \in S : y[1] < x[1]}
           q == [r \in 1 .. Cardinality(S) |-> CHOOSE x \in S : Cardinality(Ahead(x)) = r - 1]
           srt == Sorted(S, LAMBDA p, r : p[1] < r[1])
<1>1. q = srt
  BY Zenon DEF Sorted
<1>2. \A p \in S : p = <<p[1], p[2]>> /\ p[1] \in Int /\ p[2] \in Int
  <2>1. \A p \in S : p \in Int \X Int
    OBVIOUS
  <2> QED BY <2>1, PairIs
<1>3. Orders(R, S)
  <2>1. \A x, y \in S : <<x, y>> \in R <=> x[1] < y[1]
    OBVIOUS
  <2>2. \A x, y \in S : x[1] = y[1] => x = y
    BY DEF Single
  <2> HIDE DEF R
  <2>3. \A x \in S : <<x, x>> \notin R
    BY <1>2, <2>1
  <2>4. ASSUME NEW x \in S, NEW y \in S PROVE x = y \/ <<x, y>> \in R \/ <<y, x>> \in R
    <3>1. x[1] \in Int /\ y[1] \in Int
      BY <1>2
    <3>2. x[1] = y[1] \/ x[1] < y[1] \/ y[1] < x[1]
      BY <3>1
    <3> QED BY <2>1, <2>2, <3>2
  <2>5. \A x, y, z \in S : <<x, y>> \in R /\ <<y, z>> \in R => <<x, z>> \in R
    BY <1>2, <2>1
  <2> QED BY <2>3, <2>4, <2>5 DEF Orders
<1>4. \A x \in S : Ahead(x) = Before(R, S, x)
  BY DEF Before
<1> HIDE DEF R, Ahead
<1>5. q = Ranking(R, S)
  <2>1. \A r \in 1 .. Cardinality(S) : \E x \in S : Cardinality(Before(R, S, x)) = r - 1
    BY <1>3, RanksExist
  <2>2. ASSUME NEW r \in 1 .. Cardinality(S) PROVE q[r] \in S /\ Cardinality(Ahead(q[r])) = r - 1
    <3>1. \E x \in S : Cardinality(Ahead(x)) = r - 1
      BY <1>4, <2>1
    <3> QED BY <3>1
  <2>3. q = [r \in 1 .. Cardinality(S) |-> q[r]]
    OBVIOUS
  <2> HIDE DEF q
  <2>4. \A r \in 1 .. Cardinality(S) : q[r] \in S /\ Cardinality(Before(R, S, q[r])) = r - 1
    BY <1>4, <2>2
  <2> QED BY <1>3, <2>3, <2>4, RankingIs
<1> HIDE DEF q, srt
<1>6. /\ Ranking(R, S) \in Seq(S) /\ Len(Ranking(R, S)) = Cardinality(S) /\ ToSet(Ranking(R, S)) = S
      /\ \A i, j \in 1 .. Cardinality(S) : Ranking(R, S)[i] = Ranking(R, S)[j] => i = j
  BY <1>3, RankingFacts
<1>7. srt \in Seq(S) /\ ToSet(srt) = S /\ Len(srt) = Cardinality(S) /\ \A i, j \in 1 .. Cardinality(S) : srt[i] = srt[j] => i = j
  BY <1>1, <1>5, <1>6
<1>8. IsInjective(srt)
  BY <1>7 DEF IsInjective
<1> QED BY <1>7, <1>8 DEF srt

LEMMA AllocatedFacts ==
    ASSUME Divisible(inp), Claims(inp, alloc), NEW c \in Clusters(inp), alloc[c] # {}
    PROVE  /\ Allocated(c) \in Seq(inp.compat) /\ Allocated(c) # <<>>
           /\ \A k, l \in 1 .. Len(Allocated(c)) :
                 Allocated(c)[k][1] = Allocated(c)[l][1] \/ Allocated(c)[k][2] = Allocated(c)[l][2] => k = l
<1> DEFINE S == alloc[c]
           bs == Allocated(c)
<1>1. S \in SUBSET inp.compat /\ Single(S)
  BY DEF Claims
<1>2. inp.compat \in SUBSET (Int \X Int) /\ IsFiniteSet(inp.compat)
  BY DEF Divisible, RowsOk, Spans
<1>3. S \in SUBSET (Int \X Int) /\ IsFiniteSet(S)
  BY <1>1, <1>2, FS_Subset
<1>4. bs \in Seq(S) /\ ToSet(bs) = S /\ IsInjective(bs)
  <2>1. bs = Sorted(S, LAMBDA p, q : p[1] < q[1])
    BY Zenon DEF Allocated
  <2> HIDE DEF bs, S
  <2> QED BY <1>1, <1>3, <2>1, SortedPairs
<1> HIDE DEF bs
<1>5. bs # <<>>
  <2>1. S # {}
    OBVIOUS
  <2> QED BY <1>4, <2>1, NoneLeft
<1>6. \A k, l \in 1 .. Len(bs) : bs[k][1] = bs[l][1] \/ bs[k][2] = bs[l][2] => k = l
  <2> SUFFICES ASSUME NEW k \in 1 .. Len(bs), NEW l \in 1 .. Len(bs), bs[k][1] = bs[l][1] \/ bs[k][2] = bs[l][2]
               PROVE  k = l
    OBVIOUS
  <2>1. bs[k] \in S /\ bs[l] \in S /\ k \in DOMAIN bs /\ l \in DOMAIN bs
    BY <1>4
  <2>2. bs[k] = bs[l]
    BY <1>1, <2>1 DEF Single
  <2> QED BY <1>4, <2>1, <2>2 DEF IsInjective
<1>7. bs \in Seq(inp.compat)
  BY <1>1, <1>4
<1> QED BY <1>5, <1>6, <1>7 DEF bs

LEMMA PrepareFacts ==
    ASSUME DivisionInv, cluster \in Clusters(inp), Prepare
    PROVE  Prepared(inp, cluster, bundles', orders', preInf')
<1>1. pc = "prepare" /\ ~Rejected
  BY DEF Prepare
<1>2. Divisible(inp) /\ Claims(inp, alloc)
  BY <1>1 DEF DivisionInv, RowsInv, ClustersOk, HeldOnce, Divisible
<1>3. alloc[cluster] # {}
  BY <1>1 DEF Rejected
<1>4. bundles' = Allocated(cluster)
  BY DEF Prepare
<1> DEFINE S == {t \in inp.known : Compatible(bundles', t)}
           T == {t \in inp.known : ~Compatible(bundles', t)}
           kn == Known(inp, cluster)
<1>5. orders' = Filtered(kn, S) /\ preInf' = Filtered(kn, T)
  BY DEF Prepare
<1>6. kn \in Seq(inp.known) /\ IsInjective(kn)
  BY <1>2, KnownFacts
<1>7. S \cap T = {} /\ S \cup T = inp.known
  OBVIOUS
<1> HIDE DEF S, T, kn
<1>8. /\ Filtered(kn, S) \in Seq(inp.known) /\ ToSet(Filtered(kn, S)) = ToSet(kn) \cap S
      /\ IsInjective(Filtered(kn, S))
  BY <1>6, FilteredFacts
<1>9. Filtered(kn, T) \in Seq(inp.known) /\ ToSet(Filtered(kn, T)) = ToSet(kn) \cap T
  BY <1>6, FilteredFacts
<1>10. ToSet(kn) \in SUBSET inp.known
  BY <1>6 DEF ToSet
<1>11. /\ Allocated(cluster) \in Seq(inp.compat) /\ Allocated(cluster) # <<>>
       /\ \A k, l \in 1 .. Len(Allocated(cluster)) :
             Allocated(cluster)[k][1] = Allocated(cluster)[l][1] \/ Allocated(cluster)[k][2] = Allocated(cluster)[l][2]
                => k = l
  BY <1>2, <1>3, AllocatedFacts
<1>12. ToSet(orders') \cap ToSet(preInf') = {} /\ ToSet(orders') \cup ToSet(preInf') = ToSet(kn)
  BY <1>5, <1>7, <1>8, <1>9, <1>10
<1> QED BY <1>4, <1>5, <1>8, <1>9, <1>11, <1>12 DEF Prepared, kn

-----------------------------------------------------------------------------
(* What a search works with *)

\* The variables the constraints of a search are made of, but for the overrides.
Frame == <<inp, alloc, crew, cluster, bundles, orders, preInf, networkVars>>

LEMMA FrameTasks ==
    ASSUME UNCHANGED Frame
    PROVE  /\ \A t : Deadline(t)' = Deadline(t) /\ OperatorOf(t)' = OperatorOf(t)
           /\ \A t, s : StartAllowed(t, s)' = StartAllowed(t, s)
           /\ \A t, s, d : KeepsClear(t, s, d)' = KeepsClear(t, s, d) /\ FinishFits(t, s, d)' = FinishFits(t, s, d)
           /\ \A A : Held(A)' = Held(A)
           /\ \A k, n : Service(k, n)' = Service(k, n)
<1>1. inp' = inp /\ bundles' = bundles /\ crew' = crew /\ cluster' = cluster
  BY DEF Frame
<1>2. \A t : Task(t)' = Task(t) /\ Deadline(t)' = Deadline(t) /\ OperatorOf(t)' = OperatorOf(t)
  BY <1>1 DEF Deadline, OperatorOf, Task
<1>3. \A t : Blocked(t)' = Blocked(t)
  BY <1>2 DEF Blocked
<1>4. \A t, s : StartAllowed(t, s)' = StartAllowed(t, s)
  BY <1>2, <1>3 DEF StartAllowed
<1>5. \A t, s, d : KeepsClear(t, s, d)' = KeepsClear(t, s, d)
  BY <1>2, <1>3 DEF KeepsClear
<1>6. \A t, s, d : FinishFits(t, s, d)' = FinishFits(t, s, d)
  BY <1>2 DEF FinishFits
<1>7. \A A : Held(A)' = Held(A)
  BY <1>1 DEF Held
<1>8. \A k, n : Service(k, n)' = Service(k, n)
  BY <1>1, <1>2 DEF Service
<1> QED BY <1>2, <1>4, <1>5, <1>6, <1>7, <1>8

\* What ways between two places cost with some polygons on them.
Pricing(ways, a, b, R) ==
    LET extra == Max({r.extra : r \in {r \in R : r.arc = {a, b}}} \cup {0})
    IN IF ways = {} THEN Apart(a, b) + extra ELSE Max({Detoured(w, a, b, extra) : w \in ways})
ModeOf(k) == inp.mode[bundles[k][1]]
WaysOf(k, n, m) == NetworkRoute(ModeOf(k), Place(n), Place(m))

LEMMA ArcPricing ==
    \A k, n, m, R : ArcSeconds(k, n, m, R) = Pricing(WaysOf(k, n, m), Place(n), Place(m), R)
BY Zenon DEF ArcSeconds, Pricing, WaysOf, ModeOf

LEMMA FrameRoads ==
    ASSUME UNCHANGED Frame
    PROVE  /\ \A k : Restrictions(k)' = Restrictions(k)
           /\ \A k, n, m, R : ArcSeconds(k, n, m, R)' = ArcSeconds(k, n, m, R)
<1>1. inp' = inp /\ bundles' = bundles /\ nets' = nets /\ aggregate' = aggregate
  BY DEF Frame, networkVars
<1>2. \A k : Restrictions(k)' = Restrictions(k)
  BY <1>1 DEF Restrictions, BundleOps
<1>3. \A m, a, b : NetworkRoute(m, a, b)' = NetworkRoute(m, a, b)
  BY <1>1 DEF NetworkRoute, Answers, Asked
<1>4. \A n : Place(n)' = Place(n)
  BY <1>1 DEF Place, Task
<1>5. \A k, n : ModeOf(k)' = ModeOf(k)
  BY <1>1 DEF ModeOf
<1>6. ASSUME NEW k, NEW n, NEW m, NEW R PROVE ArcSeconds(k, n, m, R)' = ArcSeconds(k, n, m, R)
  <2>1. WaysOf(k, n, m)' = WaysOf(k, n, m)
    BY <1>3, <1>4, <1>5 DEF WaysOf
  <2>2. Pricing(WaysOf(k, n, m), Place(n), Place(m), R)' = Pricing(WaysOf(k, n, m), Place(n), Place(m), R)
    BY <1>4, <2>1
  <2>3. ArcSeconds(k, n, m, R)' = Pricing(WaysOf(k, n, m), Place(n), Place(m), R)'
    BY Zenon DEF ArcSeconds, Pricing, WaysOf, ModeOf
  <2> QED BY <2>2, <2>3, ArcPricing
<1> QED BY <1>2, <1>6

LEMMA FrameLoads ==
    ASSUME UNCHANGED Frame
    PROVE  /\ Materials' = Materials /\ Nodes' = Nodes /\ PickupNodes' = PickupNodes
           /\ \A v, m : Capacity(v, m)' = Capacity(v, m)
           /\ \A n, m : Demand(n, m)' = Demand(n, m) /\ Slack(n, m)' = Slack(n, m)
           /\ Expandable' = Expandable
           /\ \A s, n : ExpandedSeconds(s, n)' = ExpandedSeconds(s, n)
<1>1. inp' = inp /\ bundles' = bundles /\ orders' = orders
  BY DEF Frame
<1>2. Materials' = Materials /\ PickupNodes' = PickupNodes /\ \A t : Task(t)' = Task(t)
  BY <1>1 DEF Materials, PickupNodes, Task
<1>3. \A v, m : Capacity(v, m)' = Capacity(v, m)
  BY <1>1 DEF Capacity
<1>4. K' = K
  BY <1>1 DEF K
<1>5. Nodes' = Nodes
  <2>1. Reloads' = Reloads
    BY <1>1 DEF Reloads, Materials, K, Refills, Capacity, Task
  <2>2. ReloadNodes' = ReloadNodes
    BY <2>1 DEF ReloadNodes
  <2>3. TaskNodes' = TaskNodes
    BY <1>1 DEF TaskNodes
  <2> QED BY <1>2, <2>2, <2>3 DEF Nodes
<1>6. \A m : MaxCapacity(m)' = MaxCapacity(m)
  BY <1>1, <1>3, <1>4 DEF MaxCapacity
<1>7. \A n, m : Demand(n, m)' = Demand(n, m) /\ Slack(n, m)' = Slack(n, m)
  BY <1>2, <1>6 DEF Demand, Slack
<1>8. Restrictions(1)' = Restrictions(1) /\ \A k, n, m, R : ArcSeconds(k, n, m, R)' = ArcSeconds(k, n, m, R)
  BY FrameRoads
<1>9. Expandable' = Expandable
  BY <1>1, <1>2, <1>4, <1>8 DEF Expandable, Plain
<1>10. ASSUME NEW s, NEW n PROVE ExpandedSeconds(s, n)' = ExpandedSeconds(s, n)
  BY <1>8 DEF ExpandedSeconds, Segment
<1> QED BY <1>2, <1>3, <1>5, <1>7, <1>9, <1>10

LEMMA FrameSeconds ==
    ASSUME UNCHANGED <<Frame, overrides>>
    PROVE  \A k, n, m : Seconds(k, n, m)' = Seconds(k, n, m)
<1>1. /\ \A k : Restrictions(k)' = Restrictions(k)
      /\ \A k, n, m, R : ArcSeconds(k, n, m, R)' = ArcSeconds(k, n, m, R)
  BY FrameRoads
<1> QED BY <1>1 DEF Seconds

-----------------------------------------------------------------------------
(* Sums of parts *)

SumOf(f, s) == Total([t \in s |-> f[t]])

\* The order in which the library adds makes no difference.
Adds(h, f, S) == \A s \in SUBSET S : h[s] \in Int /\ \A x \in s : h[s] = f[x] + h[s \ {x}]
LEMMA SumsAdd ==
    ASSUME NEW S, IsFiniteSet(S), NEW f, \A x \in S : f[x] \in Int, NEW h, Sums(h, f, S)
    PROVE  Adds(h, f, S)
<1>1. h[{}] = 0 /\ \A s \in SUBSET S : s # {} => h[s] = f[Pick(s)] + h[s \ {Pick(s)}]
  BY SumsValue
<1>2. \A s \in SUBSET S : s # {} => Pick(s) \in s
  BY PickIn
<1>3. \A s \in SUBSET S : h[s] \in Int
  <2> DEFINE Bad == {s \in SUBSET S : h[s] \notin Int}
  <2> SUFFICES ASSUME Bad # {} PROVE FALSE
    OBVIOUS
  <2>1. Bad \in SUBSET SUBSET S
    OBVIOUS
  <2>2. PICK s \in Bad : \A x \in s : s \ {x} \notin Bad
    <3> HIDE DEF Bad
    <3> QED BY <2>1, SmallestSubset
  <2>3. s \in SUBSET S /\ h[s] \notin Int /\ s # {}
    <3>1. s \in SUBSET S /\ h[s] \notin Int
      OBVIOUS
    <3>2. h[{}] = 0
      BY <1>1
    <3> HIDE DEF Bad
    <3>3. s # {}
      BY <3>1, <3>2
    <3> QED BY <3>1, <3>3
  <2>4. Pick(s) \in s /\ s \ {Pick(s)} \in SUBSET S
    BY <1>2, <2>3
  <2>5. h[s \ {Pick(s)}] \in Int /\ f[Pick(s)] \in Int
    BY <2>2, <2>3, <2>4
  <2>6. h[s] = f[Pick(s)] + h[s \ {Pick(s)}]
    BY <1>1, <2>3
  <2> QED BY <2>3, <2>5, <2>6
<1>4. \A s \in SUBSET S : \A x \in s : h[s] = f[x] + h[s \ {x}]
  <2> DEFINE Bad == {s \in SUBSET S : \E x \in s : h[s] # f[x] + h[s \ {x}]}
  <2> SUFFICES ASSUME Bad # {} PROVE FALSE
    OBVIOUS
  <2>1. Bad \in SUBSET SUBSET S
    OBVIOUS
  <2>2. PICK s \in Bad : \A x \in s : s \ {x} \notin Bad
    <3> HIDE DEF Bad
    <3> QED BY <2>1, SmallestSubset
  <2>3. s \in SUBSET S
    OBVIOUS
  <2>4. PICK x \in s : h[s] # f[x] + h[s \ {x}]
    OBVIOUS
  <2> DEFINE p == Pick(s)
  <2>5. p \in s /\ h[s] = f[p] + h[s \ {p}]
    BY <1>1, <1>2, <2>3, <2>4
  <2> HIDE DEF p
  <2>6. x # p
    BY <2>4, <2>5
  <2>7. s \ {p} \in SUBSET S /\ s \ {x} \in SUBSET S /\ x \in s \ {p} /\ p \in s \ {x}
    BY <2>3, <2>5, <2>6
  <2>8. h[s \ {p}] = f[x] + h[(s \ {p}) \ {x}]
    BY <2>2, <2>5, <2>7
  <2>9. h[s \ {x}] = f[p] + h[(s \ {x}) \ {p}]
    BY <2>2, <2>4, <2>7
  <2>10. (s \ {p}) \ {x} = (s \ {x}) \ {p} /\ (s \ {x}) \ {p} \in SUBSET S
    BY <2>3
  <2> DEFINE rest == h[(s \ {x}) \ {p}]
  <2>11. rest \in Int /\ f[x] \in Int /\ f[p] \in Int
    BY <1>3, <2>3, <2>4, <2>5, <2>10
  <2>12. h[s \ {p}] = f[x] + rest /\ h[s \ {x}] = f[p] + rest
    BY <2>8, <2>9, <2>10
  <2> HIDE DEF rest
  <2>13. h[s] = f[x] + h[s \ {x}]
    BY <2>5, <2>11, <2>12
  <2> QED BY <2>4, <2>13
<1> QED BY <1>3, <1>4 DEF Adds

\* Functions that agree on s have the same sum there.
LEMMA SumsAgree ==
    ASSUME NEW S, IsFiniteSet(S), NEW f, NEW h, Sums(h, f, S), NEW T, NEW g, NEW k, Sums(k, g, T),
           T \in SUBSET S, \A x \in T : f[x] = g[x]
    PROVE  \A s \in SUBSET T : h[s] = k[s]
<1>1. h[{}] = 0 /\ \A s \in SUBSET S : s # {} => h[s] = f[Pick(s)] + h[s \ {Pick(s)}]
  BY SumsValue
<1>2. k[{}] = 0 /\ \A s \in SUBSET T : s # {} => k[s] = g[Pick(s)] + k[s \ {Pick(s)}]
  BY ZenonT(60), SumsValue
<1> DEFINE Bad == {s \in SUBSET T : h[s] # k[s]}
<1> SUFFICES ASSUME Bad # {} PROVE FALSE
  OBVIOUS
<1>3. IsFiniteSet(T) /\ Bad \in SUBSET SUBSET T
  BY FS_Subset
<1>4. PICK s \in Bad : \A x \in s : s \ {x} \notin Bad
  <2> HIDE DEF Bad
  <2> QED BY <1>3, SmallestSubset
<1>5. s \in SUBSET T /\ s # {}
  BY <1>1, <1>2
<1>6. Pick(s) \in s /\ s \ {Pick(s)} \in SUBSET T
  BY <1>5, PickIn
<1>7. h[s \ {Pick(s)}] = k[s \ {Pick(s)}] /\ f[Pick(s)] = g[Pick(s)]
  BY <1>4, <1>5, <1>6
<1>8. h[s] = f[Pick(s)] + h[s \ {Pick(s)}] /\ k[s] = g[Pick(s)] + k[s \ {Pick(s)}]
  BY <1>1, <1>2, <1>5
<1> QED BY <1>7, <1>8

LEMMA TotalIs ==
    ASSUME NEW f, IsFiniteSet(DOMAIN f)
    PROVE  \E h : Sums(h, f, DOMAIN f) /\ Total(f) = h[DOMAIN f]
<1> DEFINE S == DOMAIN f
           h == CHOOSE k : Sums(k, f, S)
<1>1. Sums(h, f, S)
  BY SumsExist
<1>2. Total(f) = h[S]
  BY Zenon DEF Total, FoldFunction, FoldFunctionOnSet, MapThenFoldSet, Sums, Pick
<1> HIDE DEF h
<1> QED BY <1>1, <1>2

LEMMA SumIs ==
    ASSUME NEW S, IsFiniteSet(S), NEW f, NEW h, Sums(h, f, S), NEW s \in SUBSET S
    PROVE  SumOf(f, s) = h[s]
<1> DEFINE g == [t \in s |-> f[t]]
<1>1. DOMAIN g = s /\ IsFiniteSet(s) /\ \A x \in s : f[x] = g[x]
  BY FS_Subset
<1>2. SumOf(f, s) = Total(g)
  BY DEF SumOf
<1> HIDE DEF g
<1>3. PICK k : Sums(k, g, s) /\ Total(g) = k[s]
  BY <1>1, TotalIs
<1>4. h[s] = k[s]
  BY <1>1, <1>3, SumsAgree
<1> QED BY <1>2, <1>3, <1>4

Summed(f, S) ==
    /\ SumOf(f, {}) = 0 /\ \A s \in SUBSET S : SumOf(f, s) \in Int
    /\ \A s \in SUBSET S : \A x \in S \ s : SumOf(f, s \cup {x}) = SumOf(f, s) + f[x]
LEMMA SumAdd ==
    ASSUME NEW S, IsFiniteSet(S), NEW f, \A x \in S : f[x] \in Int
    PROVE  Summed(f, S)
<1>1. PICK h : Sums(h, f, S)
  BY SumsExist
<1>2. \A s \in SUBSET S : h[s] \in Int /\ \A x \in s : h[s] = f[x] + h[s \ {x}]
  <2>1. Adds(h, f, S)
    BY <1>1, SumsAdd
  <2> QED BY <2>1 DEF Adds
<1>3. \A s \in SUBSET S : SumOf(f, s) = h[s]
  BY <1>1, SumIs
<1>4. SumOf(f, {}) = 0
  BY <1>1, <1>3, SumsValue
<1>5. ASSUME NEW s \in SUBSET S, NEW x \in S \ s PROVE SumOf(f, s \cup {x}) = SumOf(f, s) + f[x]
  <2>1. s \cup {x} \in SUBSET S /\ (s \cup {x}) \ {x} = s
    OBVIOUS
  <2>2. h[s \cup {x}] = f[x] + h[(s \cup {x}) \ {x}]
    BY <1>2, <2>1
  <2>3. h[s] \in Int /\ f[x] \in Int
    BY <1>2
  <2>4. SumOf(f, s \cup {x}) = h[s \cup {x}] /\ SumOf(f, s) = h[s]
    BY <1>3, <2>1
  <2>5. h[s \cup {x}] = f[x] + h[s]
    BY <2>1, <2>2
  <2> QED BY <2>3, <2>4, <2>5
<1> QED BY <1>2, <1>3, <1>4, <1>5 DEF Summed

LEMMA SumGrows ==
    ASSUME NEW S, IsFiniteSet(S), NEW f, \A x \in S : f[x] \in Nat
    PROVE  \A u \in SUBSET S : \A s \in SUBSET u : SumOf(f, s) <= SumOf(f, u) /\ SumOf(f, s) \in Nat
<1>1. /\ SumOf(f, {}) = 0 /\ \A s \in SUBSET S : SumOf(f, s) \in Int
      /\ \A s \in SUBSET S : \A x \in S \ s : SumOf(f, s \cup {x}) = SumOf(f, s) + f[x]
  <2>1. Summed(f, S)
    BY SumAdd
  <2> QED BY <2>1 DEF Summed
<1> DEFINE Good == {u \in SUBSET S : \A s \in SUBSET u : SumOf(f, s) <= SumOf(f, u) /\ SumOf(f, s) >= 0}
<1>2. {} \in Good
  BY <1>1
<1>3. ASSUME NEW u \in SUBSET S, NEW x \in S, u \in Good, x \notin u PROVE u \cup {x} \in Good
  <2>1. SumOf(f, u \cup {x}) = SumOf(f, u) + f[x] /\ f[x] \in Nat /\ SumOf(f, u) \in Int
    BY <1>1, <1>3
  <2>2. ASSUME NEW s \in SUBSET (u \cup {x}) PROVE SumOf(f, s) <= SumOf(f, u \cup {x}) /\ SumOf(f, s) >= 0
    <3>1. CASE x \notin s
      <4>1. SumOf(f, s) <= SumOf(f, u) /\ SumOf(f, s) >= 0 /\ SumOf(f, s) \in Int
        BY <1>1, <1>3, <3>1
      <4> QED BY <2>1, <4>1
    <3>2. CASE x \in s
      <4> DEFINE r == s \ {x}
      <4>1. r \in SUBSET u /\ r \in SUBSET S /\ x \in S \ r /\ s = r \cup {x}
        BY <3>2
      <4> HIDE DEF r
      <4>2. SumOf(f, r) <= SumOf(f, u) /\ SumOf(f, r) >= 0 /\ SumOf(f, r) \in Int
        BY <1>1, <1>3, <4>1
      <4>3. SumOf(f, s) = SumOf(f, r) + f[x]
        BY <1>1, <4>1
      <4> QED BY <2>1, <4>2, <4>3
    <3> QED BY <3>1, <3>2
  <2> QED BY <2>2
<1> HIDE DEF Good
<1>4. \A u \in SUBSET S : u \in Good
  BY <1>2, <1>3, EverySubset
<1> QED BY <1>1, <1>4 DEF Good

LEMMA TotalAtLeast ==
    ASSUME NEW f, IsFiniteSet(DOMAIN f), \A x \in DOMAIN f : f[x] \in Nat
    PROVE  Total(f) \in Nat /\ \A x \in DOMAIN f : Total(f) >= f[x]
<1>1. PICK h : Sums(h, f, DOMAIN f) /\ Total(f) = h[DOMAIN f]
  BY TotalIs
<1>2. Total(f) \in Nat
  BY TotalTyped
<1>3. ASSUME NEW x \in DOMAIN f PROVE Total(f) >= f[x]
  <2> DEFINE s == DOMAIN f
             r == s \ {x}
             g == [t \in r |-> f[t]]
  <2>1. h[s] = f[x] + h[r]
    <3>1. Adds(h, f, s)
      BY <1>1, SumsAdd
    <3> QED BY <3>1 DEF Adds
  <2>2. h[r] = SumOf(f, r)
    BY <1>1, SumIs
  <2>3. SumOf(f, r) = Total(g)
    BY DEF SumOf
  <2>4. DOMAIN g = r /\ IsFiniteSet(r) /\ \A t \in r : g[t] \in Nat
    BY FS_Subset
  <2> HIDE DEF g, r
  <2>5. Total(g) \in Nat
    BY <2>4, TotalTyped
  <2> QED BY <1>1, <1>2, <2>1, <2>2, <2>3, <2>5
<1> QED BY <1>2, <1>3

-----------------------------------------------------------------------------
(* What an arc costs *)

LEMMA TracedFacts ==
    ASSUME NEW line \in Seq(Int), line # <<>>
    PROVE  Traced(line) \in Nat /\ (line[1] # Last(line) => Traced(line) > 0)
<1> DEFINE n == Len(line)
           f == [i \in 1 .. n - 1 |-> IF line[i] <= line[i + 1] THEN line[i + 1] - line[i] ELSE line[i] - line[i + 1]]
<1>1. Traced(line) = Total(f)
  BY Zenon DEF Traced
<1>2. n \in Nat \ {0} /\ DOMAIN f = 1 .. n - 1 /\ IsFiniteSet(1 .. n - 1)
  <2>1. n \in Nat \ {0}
    OBVIOUS
  <2>2. n - 1 \in Nat
    BY <2>1
  <2> QED BY <2>1, <2>2, FirstOnes
<1>3. \A i \in 1 .. n - 1 : f[i] \in Nat /\ (line[i] # line[i + 1] => f[i] >= 1)
  <2> SUFFICES ASSUME NEW i \in 1 .. n - 1 PROVE f[i] \in Nat /\ (line[i] # line[i + 1] => f[i] >= 1)
    OBVIOUS
  <2>1. line[i] \in Int /\ line[i + 1] \in Int
    OBVIOUS
  <2> QED BY <2>1
<1> HIDE DEF f
<1>4. Total(f) \in Nat /\ \A i \in 1 .. n - 1 : Total(f) >= f[i]
  BY <1>2, <1>3, TotalAtLeast
<1>5. ASSUME line[1] # Last(line), Total(f) = 0 PROVE FALSE
  <2>1. \A i \in 1 .. n - 1 : line[i] = line[i + 1]
    BY <1>3, <1>4, <1>5
  <2> DEFINE Good == {i \in 0 .. n - 1 : line[i + 1] = line[1]}
  <2>2. 0 \in Good
    BY <1>2
  <2>3. ASSUME NEW i \in 0 .. (n - 1) - 1, i \in Good PROVE i + 1 \in Good
    <3>1. i + 1 \in 1 .. n - 1 /\ i + 1 \in 0 .. n - 1
      BY <1>2
    <3> QED BY <2>1, <2>3, <3>1
  <2> HIDE DEF Good
  <2>4. n - 1 \in Nat
    BY <1>2
  <2>5. \A i \in 0 .. n - 1 : i \in Good
    BY <2>2, <2>3, <2>4, UpTo
  <2>6. n - 1 \in Good /\ (n - 1) + 1 = n
    BY <2>4, <2>5, <1>2
  <2>7. line[n] = line[1]
    BY <2>6 DEF Good
  <2> QED BY <1>5, <2>7 DEF Last
<1> QED BY <1>1, <1>4, <1>5

LEMMA RoundDivGrows ==
    ASSUME NEW d \in Nat \ {0}, NEW m \in Nat, NEW n \in Nat, m <= n
    PROVE  RoundDiv(m, d) \in Nat /\ RoundDiv(n, d) \in Nat /\ RoundDiv(m, d) <= RoundDiv(n, d)
<1> DEFINE p == m \div d
           q == n \div d
           r == m % d
           s == n % d
<1>1. p \in Nat /\ r \in Nat /\ r < d /\ m = d * p + r
  BY DivIs
<1>2. q \in Nat /\ s \in Nat /\ s < d /\ n = d * q + s
  BY DivIs
<1>3. RoundDiv(m, d) = (IF 2 * r > d \/ (2 * r = d /\ p % 2 = 1) THEN p + 1 ELSE p)
  BY DEF RoundDiv
<1>4. RoundDiv(n, d) = (IF 2 * s > d \/ (2 * s = d /\ q % 2 = 1) THEN q + 1 ELSE q)
  BY DEF RoundDiv
<1> HIDE DEF p, q, r, s
<1>5. p <= q
  <2> SUFFICES ASSUME q + 1 <= p PROVE FALSE
    BY <1>1, <1>2
  <2>1. d * (q + 1) <= d * p
    BY <1>1, <1>2
  <2>2. d * (q + 1) = d * q + d /\ d * q \in Nat /\ d * p \in Nat
    BY <1>1, <1>2
  <2> QED BY <1>1, <1>2, <2>1, <2>2
<1>6. p = q => r <= s
  <2> SUFFICES ASSUME p = q PROVE r <= s
    OBVIOUS
  <2>1. d * p = d * q /\ d * q \in Nat
    BY <1>1, <1>2
  <2> QED BY <1>1, <1>2, <2>1
<1> QED BY <1>1, <1>2, <1>3, <1>4, <1>5, <1>6

LEMMA DetouredGrows ==
    ASSUME NEW w \in Times, NEW a \in Int, NEW b \in Int, a # b, NEW e \in Nat, NEW g \in Nat, e <= g
    PROVE  Detoured(w, a, b, e) \in Nat /\ Detoured(w, a, b, g) \in Nat /\ Detoured(w, a, b, e) <= Detoured(w, a, b, g)
<1>1. w.s \in Nat \ {0} /\ w.line \in Seq(Int)
  BY DEF Times
<1> DEFINE meets == w.line[1] = a /\ Last(w.line) = b
           length == IF meets THEN Traced(w.line) ELSE Apart(a, b)
<1>2. \A x : Detoured(w, a, b, x) = IF w.line = <<>> THEN w.s ELSE RoundDiv(w.s * (length + x), length)
  BY Zenon DEF Detoured
<1>3. CASE w.line = <<>>
  BY <1>1, <1>2, <1>3
<1>4. CASE w.line # <<>>
  <2>1. length \in Nat \ {0}
    <3>1. Apart(a, b) \in Nat \ {0}
      BY DEF Apart
    <3>2. meets => w.line[1] # Last(w.line)
      OBVIOUS
    <3>3. meets => Traced(w.line) \in Nat \ {0}
      BY <1>1, <1>4, <3>2, TracedFacts
    <3> QED BY <3>1, <3>3
  <2> HIDE DEF length, meets
  <2> DEFINE s == w.s
  <2>2. s * (length + e) \in Nat /\ s * (length + g) \in Nat /\ s * (length + e) <= s * (length + g)
    <3>1. s \in Nat
      BY <1>1
    <3> HIDE DEF s
    <3>2. length + e \in Nat /\ length + g \in Nat /\ length + e <= length + g
      BY <2>1
    <3> DEFINE x == length + e
               y == length + g
    <3>3. x \in Nat /\ y \in Nat /\ x <= y
      BY <3>2
    <3> HIDE DEF x, y
    <3>4. s * x \in Nat /\ s * y \in Nat /\ s * x <= s * y
      BY <3>1, <3>3
    <3> QED BY <3>4 DEF x, y
  <2> DEFINE m == s * (length + e)
             n == s * (length + g)
  <2>3. m \in Nat /\ n \in Nat /\ m <= n
    BY <2>2
  <2> HIDE DEF m, n
  <2>4. RoundDiv(m, length) \in Nat /\ RoundDiv(n, length) \in Nat /\ RoundDiv(m, length) <= RoundDiv(n, length)
    BY <2>1, <2>3, RoundDivGrows
  <2> QED BY <1>2, <1>4, <2>4 DEF m, n
<1> QED BY <1>3, <1>4

LEMMA AnswersFew ==
    ASSUME NEW mode, NEW a, NEW b
    PROVE  IsFiniteSet(NetworkRoute(mode, a, b)) /\ (a = b => NetworkRoute(mode, a, b) = {})
<1>1. \A p : \E x : Answers(mode, p) \subseteq {x}
  <2> SUFFICES ASSUME NEW p PROVE \E x : Answers(mode, p) \subseteq {x}
    OBVIOUS
  <2> DEFINE asked == Asked(mode)
             known == {i \in DOMAIN asked : p \in DOMAIN asked[i]}
             drawn == {i \in known : asked[i][p].line # <<>>}
             x == [s |-> asked[Min(known)][p].s, line |-> IF drawn = {} THEN <<>> ELSE asked[Min(drawn)][p].line]
  <2>1. Answers(mode, p) = IF known = {} THEN {} ELSE {x}
    BY Zenon DEF Answers
  <2> HIDE DEF x, known
  <2> QED BY <2>1
<1>2. \A p : IsFiniteSet(Answers(mode, p))
  <2> SUFFICES ASSUME NEW p PROVE IsFiniteSet(Answers(mode, p))
    OBVIOUS
  <2>1. PICK x : Answers(mode, p) \subseteq {x}
    BY <1>1
  <2> QED BY <2>1, FS_Singleton, FS_Subset
<1> DEFINE S == Answers(mode, <<b, a>>)
           T == {[r EXCEPT !.line = Reverse(@)] : r \in S}
           f == [r \in S |-> [r EXCEPT !.line = Reverse(@)]]
<1>3. IsFiniteSet(T)
  <2>1. T = {f[r] : r \in S}
    OBVIOUS
  <2>2. IsFiniteSet(S)
    BY <1>2
  <2> HIDE DEF f, T, S
  <2> QED BY <2>1, <2>2, ImageFinite
<1>4. NetworkRoute(mode, a, b) \in {{}, Answers(mode, <<a, b>>), T}
  BY Zenon DEF NetworkRoute
<1>5. a = b => NetworkRoute(mode, a, b) = {}
  BY DEF NetworkRoute
<1> QED BY <1>2, <1>3, <1>4, <1>5, FS_EmptySet

PolygonsOk(R) == IsFiniteSet(R) /\ \A r \in R : r.extra \in Nat

Dearest(R, arc) == Max({r.extra : r \in {r \in R : r.arc = arc}} \cup {0})

LEMMA ExtraGrows ==
    ASSUME NEW Q, PolygonsOk(Q), NEW R \in SUBSET Q, NEW arc
    PROVE  Dearest(R, arc) \in Nat /\ Dearest(R, arc) <= Dearest(Q, arc)
<1> DEFINE Extras(P) == {r.extra : r \in {r \in P : r.arc = arc}} \cup {0}
<1>1. ASSUME NEW P \in SUBSET Q
      PROVE  Extras(P) \in SUBSET Int /\ IsFiniteSet(Extras(P)) /\ \A x \in Extras(P) : x >= 0
  <2> DEFINE S == {r \in P : r.arc = arc}
             f == [r \in S |-> r.extra]
             T == {r.extra : r \in S}
  <2>1. \A r \in S : r.extra \in Nat
    BY DEF PolygonsOk
  <2>2. S \in SUBSET Q /\ IsFiniteSet(Q)
    BY DEF PolygonsOk
  <2>3. T = {f[r] : r \in S}
    OBVIOUS
  <2>4. Extras(P) = T \cup {0}
    OBVIOUS
  <2>5. T \in SUBSET Nat
    BY <2>1
  <2>6. IsFiniteSet(T)
    <3> HIDE DEF f, T, S
    <3>1. IsFiniteSet(S)
      BY <2>2, FS_Subset
    <3> QED BY <2>3, <3>1, ImageFinite
  <2> HIDE DEF T, Extras
  <2>7. IsFiniteSet(T \cup {0})
    BY <2>6, FS_AddElement
  <2>8. IsFiniteSet(Extras(P))
    BY <2>4, <2>7
  <2>9. \A x \in T \cup {0} : x \in Int /\ x >= 0
    BY <2>5
  <2>10. \A x \in Extras(P) : x \in Int /\ x >= 0
    BY Zenon, <2>4, <2>9
  <2> QED BY <2>8, <2>10
<1>2. Extras(R) \subseteq Extras(Q) /\ Extras(R) # {} /\ Extras(Q) # {}
  OBVIOUS
<1>3. \A P \in SUBSET Q : Extras(P) # {} => /\ Max(Extras(P)) \in Extras(P) /\ Max(Extras(P)) \in Int
                                             /\ \A y \in Extras(P) : Max(Extras(P)) >= y
  <2> SUFFICES ASSUME NEW P \in SUBSET Q, Extras(P) # {}
               PROVE  /\ Max(Extras(P)) \in Extras(P) /\ Max(Extras(P)) \in Int
                      /\ \A y \in Extras(P) : Max(Extras(P)) >= y
    OBVIOUS
  <2>1. Extras(P) \in SUBSET Int /\ IsFiniteSet(Extras(P))
    BY <1>1
  <2> HIDE DEF Extras
  <2> QED BY <2>1, MaxIs
<1>4. Q \in SUBSET Q
  OBVIOUS
<1> HIDE DEF Extras
<1>5. Max(Extras(R)) \in Extras(R) /\ Max(Extras(R)) \in Int
  BY <1>2, <1>3
<1>6. Max(Extras(Q)) \in Int /\ \A y \in Extras(Q) : Max(Extras(Q)) >= y
  BY <1>2, <1>3, <1>4
<1>7. Max(Extras(R)) >= 0 /\ Max(Extras(Q)) >= Max(Extras(R))
  BY <1>1, <1>2, <1>5, <1>6
<1>8. Max(Extras(R)) \in Nat /\ Max(Extras(R)) <= Max(Extras(Q))
  BY <1>5, <1>6, <1>7
<1> QED BY Zenon, <1>8 DEF Extras, Dearest

\* More polygons on the ways make none of them cheaper.
LEMMA PricingGrows ==
    ASSUME NEW ways \in SUBSET Times, IsFiniteSet(ways), NEW a \in Int, NEW b \in Int, a = b => ways = {},
           NEW Q, PolygonsOk(Q), NEW R \in SUBSET Q
    PROVE  /\ Pricing(ways, a, b, R) \in Nat /\ Pricing(ways, a, b, R) <= Pricing(ways, a, b, Q)
<1> DEFINE e == Dearest(R, {a, b})
           g == Dearest(Q, {a, b})
           Costs(x) == {Detoured(w, a, b, x) : w \in ways}
<1>1. /\ Pricing(ways, a, b, R) = IF ways = {} THEN Apart(a, b) + e ELSE Max(Costs(e))
      /\ Pricing(ways, a, b, Q) = IF ways = {} THEN Apart(a, b) + g ELSE Max(Costs(g))
  BY Zenon DEF Pricing, Dearest
<1>2. e \in Nat /\ g \in Nat /\ e <= g
  <2>1. Q \in SUBSET Q
    OBVIOUS
  <2>2. e \in Nat /\ e <= g
    BY ExtraGrows
  <2>3. g \in Nat
    BY <2>1, ExtraGrows
  <2> QED BY <2>2, <2>3
<1> HIDE DEF e, g
<1>3. CASE ways = {}
  <2>1. Apart(a, b) \in Nat
    BY DEF Apart
  <2> QED BY <1>1, <1>2, <1>3, <2>1
<1>4. CASE ways # {}
  <2>1. a # b
    BY <1>4
  <2>2. \A w \in ways : /\ Detoured(w, a, b, e) \in Nat /\ Detoured(w, a, b, g) \in Nat
                        /\ Detoured(w, a, b, e) <= Detoured(w, a, b, g)
    BY <1>2, <2>1, DetouredGrows
  <2>3. ASSUME NEW x, \A w \in ways : Detoured(w, a, b, x) \in Nat
        PROVE  /\ Costs(x) \in SUBSET Nat
               /\ Max(Costs(x)) \in Costs(x) /\ Max(Costs(x)) \in Int /\ \A y \in Costs(x) : Max(Costs(x)) >= y
    <3> DEFINE f == [w \in ways |-> Detoured(w, a, b, x)]
    <3>1. Costs(x) = {f[w] : w \in ways} /\ Costs(x) # {} /\ Costs(x) \in SUBSET Nat
      BY <1>4, <2>3
    <3> HIDE DEF f, Costs
    <3>2. IsFiniteSet(Costs(x))
      BY <3>1, ImageFinite
    <3>3. Costs(x) \in SUBSET Int
      BY <3>1
    <3> QED BY <3>1, <3>2, <3>3, MaxIs
  <2>4. Costs(e) \in SUBSET Nat /\ Max(Costs(e)) \in Costs(e) /\ Max(Costs(e)) \in Int
    BY <2>2, <2>3
  <2>5. Max(Costs(g)) \in Int /\ \A y \in Costs(g) : Max(Costs(g)) >= y
    BY <2>2, <2>3
  <2>6. PICK w \in ways : Max(Costs(e)) = Detoured(w, a, b, e)
    BY <2>4
  <2>7. Detoured(w, a, b, g) \in Costs(g)
    OBVIOUS
  <2>8. Max(Costs(g)) >= Detoured(w, a, b, g)
    BY <2>5, <2>7
  <2>9. Max(Costs(e)) \in Nat
    BY <2>4
  <2> HIDE DEF Costs
  <2>10. Max(Costs(e)) <= Max(Costs(g))
    BY <2>2, <2>5, <2>6, <2>8
  <2> QED BY <1>1, <1>4, <2>9, <2>10
<1> QED BY <1>3, <1>4

\* What holds while a cluster is solved.
Ready ==
    /\ NetInv /\ NetworkReady /\ Divisible(inp) /\ Crews(inp, crew)
    /\ Prepared(inp, cluster, bundles, orders, preInf)

LEMMA TasksFacts ==
    ASSUME Ready
    PROVE  /\ ToSet(orders) \in SUBSET DOMAIN inp.task /\ IsFiniteSet(ToSet(orders)) /\ ToSet(orders) \in SUBSET inp.known
           /\ \A t \in ToSet(orders) : TaskRow(inp, Task(t))
           /\ K \in Nat \ {0} /\ DOMAIN bundles = 1 .. K
           /\ \A k \in 1 .. K : bundles[k] \in inp.compat /\ bundles[k][1] \in Int /\ bundles[k][2] \in Int
           /\ \A k, l \in 1 .. K : bundles[k][1] = bundles[l][1] \/ bundles[k][2] = bundles[l][2] => k = l
<1>1. /\ bundles \in Seq(inp.compat) /\ bundles # <<>> /\ orders \in Seq(inp.known)
      /\ \A k, l \in 1 .. Len(bundles) : bundles[k][1] = bundles[l][1] \/ bundles[k][2] = bundles[l][2] => k = l
  BY DEF Ready, Prepared
<1>2. /\ inp.known \in SUBSET Ids(inp) /\ Ids(inp) \in SUBSET DOMAIN inp.task /\ IsFiniteSet(inp.known)
  BY KnownFacts DEF Ready
<1>3. ToSet(orders) \in SUBSET inp.known
  BY <1>1 DEF ToSet
<1>4. ToSet(orders) \in SUBSET DOMAIN inp.task /\ IsFiniteSet(ToSet(orders))
  BY <1>2, <1>3, FS_Subset
<1>5. \A t \in DOMAIN inp.task : TaskRow(inp, inp.task[t])
  BY DEF Ready, Divisible, RowsOk
<1>6. \A t \in ToSet(orders) : TaskRow(inp, Task(t))
  BY <1>4, <1>5 DEF Task
<1>7. K \in Nat \ {0} /\ DOMAIN bundles = 1 .. K
  BY <1>1 DEF K
<1>8. \A k \in 1 .. K : bundles[k] \in inp.compat /\ bundles[k][1] \in Int /\ bundles[k][2] \in Int
  <2> SUFFICES ASSUME NEW k \in 1 .. K PROVE bundles[k] \in inp.compat /\ bundles[k][1] \in Int /\ bundles[k][2] \in Int
    OBVIOUS
  <2>1. bundles[k] \in inp.compat
    BY <1>1, <1>7
  <2>2. inp.compat \in SUBSET (Int \X Int)
    BY DEF Ready, Divisible, RowsOk, Spans
  <2>3. bundles[k] \in Int \X Int
    BY <2>1, <2>2
  <2> QED BY <2>1, <2>3, PairIs
<1> QED BY <1>1, <1>3, <1>4, <1>6, <1>7, <1>8 DEF K

LEMMA NodeKinds ==
    ASSUME NEW n \in Nodes
    PROVE  /\ n[1] \in {"depot", "task", "pickup", "reload"}
           /\ n[1] = "task" => n = <<"task", n[2]>> /\ n[2] \in ToSet(orders)
           /\ n[1] = "pickup" => n = <<"pickup", n[2]>> /\ n[2] \in ToSet(orders) /\ Task(n[2]).pickup # None
           /\ n[1] = "depot" => n = Depot
<1>1. CASE n = Depot
  BY <1>1 DEF Depot
<1>2. CASE n \in TaskNodes
  BY <1>2 DEF TaskNodes
<1>3. CASE n \in PickupNodes
  BY <1>3 DEF PickupNodes
<1>4. CASE n \in ReloadNodes
  BY <1>4 DEF ReloadNodes
<1> QED BY <1>1, <1>2, <1>3, <1>4 DEF Nodes

LEMMA NodesTyped ==
    ASSUME Ready, NEW n \in Nodes
    PROVE  Place(n) \in Int /\ \A k \in 1 .. K : Service(k, n) \in Nat
<1>1. \A t \in ToSet(orders) : TaskRow(inp, Task(t))
  BY TasksFacts
<1>2. \A k \in 1 .. K : bundles[k] \in inp.compat
  BY TasksFacts
<1>3. Place(n) \in Int
  <2>1. n[1] = "task" => n[2] \in ToSet(orders)
    BY NodeKinds
  <2>2. n[1] = "pickup" => n[2] \in ToSet(orders) /\ Task(n[2]).pickup # None
    BY NodeKinds
  <2> QED BY <1>1, <2>1, <2>2 DEF Place, TaskRow
<1>4. ASSUME NEW k \in 1 .. K PROVE Service(k, n) \in Nat
  <2>1. n[1] = "task" => n[2] \in ToSet(orders)
    BY NodeKinds
  <2>2. n[1] = "task" => Task(n[2]).service[bundles[k][2]] \in Nat
    BY <1>1, <1>2, <2>1 DEF TaskRow
  <2>3. ReloadService \in Nat
    BY LimitsAssumption
  <2> QED BY <2>2, <2>3 DEF Service
<1> QED BY <1>3, <1>4

LEMMA RestrictionsOk ==
    ASSUME RowsOk(inp), NEW k
    PROVE  PolygonsOk(Restrictions(k))
<1> DEFINE P == {p \in inp.polygons : /\ p.prohibits \cap BundleOps(bundles[k]) # {}
                                      /\ p.windows # {} => Clamp(p.windows, Horizon) # {}}
           f == [p \in P |-> [arc |-> p.arc, extra |-> p.extra, windows |-> Clamp(p.windows, Horizon)]]
           T == Restrictions(k)
<1>1. T = {f[p] : p \in P}
  BY DEF Restrictions
<1>2. IsFiniteSet(inp.polygons) /\ \A p \in inp.polygons : Polygon(p)
  BY DEF RowsOk
<1>3. P \in SUBSET inp.polygons
  OBVIOUS
<1>4. \A p \in P : f[p].extra \in Nat
  BY <1>2, <1>3 DEF Polygon
<1> HIDE DEF f, P, T
<1>5. IsFiniteSet(P)
  BY <1>2, <1>3, FS_Subset
<1>6. IsFiniteSet(T)
  BY <1>1, <1>5, ImageFinite
<1> QED BY <1>1, <1>4, <1>6 DEF PolygonsOk, T

\* Whatever polygons are in force, an arc takes some time, and no more than with
\* all of them.
LEMMA ArcFacts ==
    ASSUME Ready, NEW k, NEW n \in Nodes, NEW m \in Nodes, NEW Q, PolygonsOk(Q), NEW R \in SUBSET Q
    PROVE  ArcSeconds(k, n, m, R) \in Nat /\ ArcSeconds(k, n, m, R) <= ArcSeconds(k, n, m, Q)
<1> DEFINE ways == WaysOf(k, n, m)
           a == Place(n)
           b == Place(m)
<1>1. a \in Int /\ b \in Int
  BY NodesTyped
<1>2. ways \in SUBSET Times /\ IsFiniteSet(ways) /\ (a = b => ways = {})
  BY RoutesTyped, AnswersFew DEF WaysOf, Ready
<1>3. ArcSeconds(k, n, m, R) = Pricing(ways, a, b, R) /\ ArcSeconds(k, n, m, Q) = Pricing(ways, a, b, Q)
  BY ArcPricing
<1> HIDE DEF ways, a, b
<1>4. Pricing(ways, a, b, R) \in Nat /\ Pricing(ways, a, b, R) <= Pricing(ways, a, b, Q)
  BY <1>1, <1>2, PricingGrows
<1> QED BY <1>3, <1>4

-----------------------------------------------------------------------------
(* What holds of the routes while they grow *)

\* When a bundle is done with a stop, and how long it takes to the next.
EndOf(k, s) == s.at + Service(k, s.node)
Pace(k, s, n) == IF Expandable THEN ExpandedSeconds(s, n) ELSE Seconds(k, s.node, n)

StopSet == [node : Nodes, at : 0 .. Horizon, load : [Materials -> Nat]]

\* A task stop is where the task, the machines and the operator allow it, and no
\* stop is loaded beyond the compartments.
Timely(k, t, s) ==
    /\ s.at <= Deadline(t)
    /\ ~Expandable =>
          /\ StartAllowed(t, s.at) /\ KeepsClear(t, s.at, Service(k, s.node)) /\ FinishFits(t, s.at, Service(k, s.node))
          /\ Clear(s.at, EndOf(k, s), Held({bundles[k][1], bundles[k][2]}))
          /\ OperatorOf(t) # None => Clear(s.at, EndOf(k, s), Held({OperatorOf(t)}))
StopFits(k, s) ==
    /\ s.node[1] = "task" => Timely(k, s.node[2], s)
    /\ ~Expandable => \A m \in Materials : s.load[m] <= Capacity(bundles[k][1], m)

\* From stop r to stop s: the time to drive, and what was loaded or delivered.
LegFits(k, r, s) ==
    /\ s.at - EndOf(k, r) >= Pace(k, r, s.node)
    /\ ~Expandable => /\ r.node # s.node
                      /\ \A m \in Materials : \E x \in Slack(r.node, m) : s.load[m] = r.load[m] + Demand(r.node, m) + x

\* Task stops of two bundles with one operator.
CrewFree(k, r, l, s) ==
    r.node[1] = "task" /\ s.node[1] = "task" /\ OperatorOf(r.node[2]) # None
    /\ OperatorOf(r.node[2]) = OperatorOf(s.node[2])
        => EndOf(k, r) <= s.at \/ EndOf(l, s) <= r.at

At(rs, k, i) == k \in 1 .. Len(rs) /\ i \in 1 .. Len(rs[k])

RoutesTypedOk(rs) == rs \in Seq(Seq(StopSet)) /\ Len(rs) <= K
StopsOk(rs) ==
    \A k, i : At(rs, k, i) => /\ StopFits(k, rs[k][i])
                              /\ i = 1 => rs[k][i].node = Depot
LegsOk(rs) ==
    \A k, i, j : At(rs, k, i) /\ At(rs, k, j) =>
        /\ j = i + 1 => LegFits(k, rs[k][i], rs[k][j])
        /\ i < j => EndOf(k, rs[k][i]) <= rs[k][j].at
NodesOnce(rs) ==
    \A k, i, l, j : At(rs, k, i) /\ At(rs, l, j) /\ rs[k][i].node = rs[l][j].node =>
        rs[k][i].node = Depot \/ (k = l /\ i = j)
CrewsFree(rs) ==
    \A k, i, l, j : At(rs, k, i) /\ At(rs, l, j) /\ k # l => CrewFree(k, rs[k][i], l, rs[l][j])
PickedUp(rs) ==
    ~Expandable =>
        \A k, i : At(rs, k, i) /\ rs[k][i].node[1] = "task" /\ Task(rs[k][i].node[2]).pickup # None =>
            \E j : At(rs, k, j) /\ j < i /\ rs[k][j].node = <<"pickup", rs[k][i].node[2]>>
RoutesOk(rs) == RoutesTypedOk(rs) /\ StopsOk(rs) /\ LegsOk(rs) /\ NodesOnce(rs) /\ CrewsFree(rs) /\ PickedUp(rs)

LEMMA NoRoutes == RoutesOk(<<>>)
<1>1. <<>> \in Seq(Seq(StopSet)) /\ Len(<<>>) = 0 /\ 0 <= K
  BY DEF K
<1>2. \A k, i : ~At(<<>>, k, i)
  BY <1>1 DEF At
<1> QED BY <1>1, <1>2 DEF RoutesOk, RoutesTypedOk, StopsOk, LegsOk, NodesOnce, CrewsFree, PickedUp

\* Every stop of qs is one of rs, but for stop n of route k.
Grown(rs, qs, k, n) ==
    /\ qs \in Seq(Seq(StopSet)) /\ Len(qs) <= K
    /\ At(qs, k, n) /\ n = Len(qs[k])
    /\ \A l, i : At(rs, l, i) => At(qs, l, i) /\ qs[l][i] = rs[l][i]
    /\ \A l, i : At(qs, l, i) => (At(rs, l, i) /\ qs[l][i] = rs[l][i]) \/ (l = k /\ i = n)
    /\ ~At(rs, k, n)

\* What the new stop has to meet.
StartsWell(qs, k, n) ==
    /\ StopFits(k, qs[k][n])
    /\ n = 1 => qs[k][n].node = Depot
    /\ n > 1 => LegFits(k, qs[k][n - 1], qs[k][n]) /\ EndOf(k, qs[k][n - 1]) <= qs[k][n].at
Fresh(rs, s) == s.node = Depot \/ \A l, i : At(rs, l, i) => rs[l][i].node # s.node
OthersFree(rs, k, s) == \A l, i : At(rs, l, i) /\ l # k => CrewFree(k, s, l, rs[l][i])
AfterPickup(rs, k, s) ==
    ~Expandable /\ s.node[1] = "task" /\ Task(s.node[2]).pickup # None =>
        \E j : At(rs, k, j) /\ rs[k][j].node = <<"pickup", s.node[2]>>

LEMMA EndsTyped ==
    ASSUME Ready, NEW s \in StopSet, NEW k \in 1 .. K
    PROVE  EndOf(k, s) \in Nat /\ s.at \in Nat /\ s.at <= Horizon /\ s.at <= EndOf(k, s) /\ s.node \in Nodes
<1>1. s.at \in Nat /\ s.at <= Horizon /\ s.node \in Nodes
  BY LimitsAssumption DEF StopSet
<1>2. Service(k, s.node) \in Nat
  BY <1>1, NodesTyped
<1> QED BY <1>1, <1>2 DEF EndOf

LEMMA RoutesGrow ==
    ASSUME Ready, NEW rs, NEW qs, NEW k, NEW n, RoutesOk(rs), Grown(rs, qs, k, n),
           StartsWell(qs, k, n), Fresh(rs, qs[k][n]), OthersFree(rs, k, qs[k][n]), AfterPickup(rs, k, qs[k][n])
    PROVE  RoutesOk(qs)
<1> DEFINE s == qs[k][n]
<1>1. \A l, i : At(qs, l, i) => (At(rs, l, i) /\ qs[l][i] = rs[l][i]) \/ (l = k /\ i = n)
  BY DEF Grown
<1>2. RoutesTypedOk(qs)
  BY DEF Grown, RoutesTypedOk
<1>3. k \in 1 .. Len(qs) /\ n \in 1 .. Len(qs[k]) /\ n = Len(qs[k]) /\ k \in 1 .. K
  BY DEF Grown, At, K
<1>4. StopsOk(qs)
  BY <1>1 DEF StopsOk, StartsWell, RoutesOk
<1>5. \A l, i : At(qs, l, i) => qs[l][i] \in StopSet /\ l \in 1 .. K /\ i \in Nat
  BY <1>2 DEF At, RoutesTypedOk, K
<1>6. LegsOk(qs)
  <2> SUFFICES ASSUME NEW l, NEW i, NEW j, At(qs, l, i), At(qs, l, j), i < j
               PROVE  /\ j = i + 1 => LegFits(l, qs[l][i], qs[l][j])
                      /\ EndOf(l, qs[l][i]) <= qs[l][j].at
    <3>1. \A l, i : At(qs, l, i) => i \in Nat
      BY <1>5
    <3> QED BY <3>1 DEF LegsOk
  <2>1. CASE At(rs, l, i) /\ qs[l][i] = rs[l][i] /\ At(rs, l, j) /\ qs[l][j] = rs[l][j]
    BY <2>1 DEF LegsOk, RoutesOk
  <2>2. CASE l = k /\ i = n
    BY <1>3, <2>2 DEF At
  <2>3. CASE l = k /\ j = n /\ i # n
    <3>1. i \in Nat /\ i >= 1 /\ n \in Nat /\ n > 1 /\ At(qs, k, n - 1) /\ i <= n - 1 /\ n - 1 < n /\ n - 1 # n
      BY <1>3, <2>3 DEF At
    <3>2. LegFits(k, qs[k][n - 1], s) /\ EndOf(k, qs[k][n - 1]) <= s.at
      BY <3>1 DEF StartsWell
    <3>3. CASE i = n - 1
      BY <2>3, <3>2, <3>3
    <3>4. CASE i < n - 1
      <4>1. At(rs, k, i) /\ qs[k][i] = rs[k][i] /\ At(rs, k, n - 1) /\ qs[k][n - 1] = rs[k][n - 1]
        BY <1>1, <2>3, <3>1
      <4>2. EndOf(k, qs[k][i]) <= qs[k][n - 1].at
        BY <3>4, <4>1 DEF LegsOk, RoutesOk
      <4>3. /\ EndOf(k, qs[k][i]) \in Nat /\ EndOf(k, qs[k][n - 1]) \in Nat /\ s.at \in Nat
            /\ qs[k][n - 1].at \in Nat /\ qs[k][n - 1].at <= EndOf(k, qs[k][n - 1])
        <5>1. qs[k][i] \in StopSet /\ qs[k][n - 1] \in StopSet /\ s \in StopSet
          BY <1>5, <2>3, <3>1
        <5> HIDE DEF s
        <5> QED BY <1>3, <5>1, EndsTyped
      <4>4. EndOf(k, qs[k][i]) <= s.at
        BY <3>2, <4>2, <4>3
      <4>5. j # i + 1
        BY <2>3, <3>1, <3>4
      <4> QED BY <2>3, <4>4, <4>5
    <3> QED BY <3>1, <3>3, <3>4
  <2> QED BY <1>1, <2>1, <2>2, <2>3
<1>7. NodesOnce(qs)
  <2> SUFFICES ASSUME NEW l, NEW i, NEW q, NEW j, At(qs, l, i), At(qs, q, j), qs[l][i].node = qs[q][j].node
               PROVE  qs[l][i].node = Depot \/ (l = q /\ i = j)
    BY DEF NodesOnce
  <2>1. CASE At(rs, l, i) /\ qs[l][i] = rs[l][i] /\ At(rs, q, j) /\ qs[q][j] = rs[q][j]
    BY <2>1 DEF NodesOnce, RoutesOk
  <2>2. CASE At(rs, l, i) /\ qs[l][i] = rs[l][i] /\ q = k /\ j = n
    BY <2>2 DEF Fresh
  <2>3. CASE At(rs, q, j) /\ qs[q][j] = rs[q][j] /\ l = k /\ i = n
    BY <2>3 DEF Fresh
  <2>4. CASE l = k /\ i = n /\ q = k /\ j = n
    BY <2>4
  <2> QED BY <1>1, <2>1, <2>2, <2>3, <2>4
<1>8. CrewsFree(qs)
  <2> SUFFICES ASSUME NEW l, NEW i, NEW q, NEW j, At(qs, l, i), At(qs, q, j), l # q
               PROVE  CrewFree(l, qs[l][i], q, qs[q][j])
    BY DEF CrewsFree
  <2>1. CASE At(rs, l, i) /\ qs[l][i] = rs[l][i] /\ At(rs, q, j) /\ qs[q][j] = rs[q][j]
    BY <2>1 DEF CrewsFree, RoutesOk
  <2>2. CASE At(rs, l, i) /\ qs[l][i] = rs[l][i] /\ q = k /\ j = n
    <3>1. CrewFree(q, qs[q][j], l, qs[l][i])
      BY <2>2 DEF OthersFree
    <3> QED BY <3>1 DEF CrewFree
  <2>3. CASE At(rs, q, j) /\ qs[q][j] = rs[q][j] /\ l = k /\ i = n
    BY <2>3 DEF OthersFree
  <2> QED BY <1>1, <2>1, <2>2, <2>3
<1>9. PickedUp(qs)
  <2> SUFFICES ASSUME ~Expandable, NEW l, NEW i, At(qs, l, i), qs[l][i].node[1] = "task", Task(qs[l][i].node[2]).pickup # None
               PROVE  \E j : At(qs, l, j) /\ j < i /\ qs[l][j].node = <<"pickup", qs[l][i].node[2]>>
    BY DEF PickedUp
  <2>1. \A m, j : At(rs, m, j) => At(qs, m, j) /\ qs[m][j] = rs[m][j]
    BY DEF Grown
  <2>2. CASE At(rs, l, i) /\ qs[l][i] = rs[l][i]
    <3>1. PICK j : At(rs, l, j) /\ j < i /\ rs[l][j].node = <<"pickup", qs[l][i].node[2]>>
      BY ZenonT(60), <2>2 DEF PickedUp, RoutesOk
    <3> QED BY <2>1, <3>1
  <2>3. CASE l = k /\ i = n
    <3>1. PICK j : At(rs, k, j) /\ rs[k][j].node = <<"pickup", qs[k][n].node[2]>>
      BY <2>3 DEF AfterPickup
    <3>2. At(qs, k, j) /\ qs[k][j] = rs[k][j] /\ j # n
      BY <2>1, <3>1 DEF Grown
    <3>3. j < n
      BY <1>3, <3>2 DEF At
    <3> QED BY <2>3, <3>1, <3>2, <3>3
  <2> QED BY <1>1, <2>2, <2>3
<1> QED BY <1>2, <1>4, <1>6, <1>7, <1>8, <1>9 DEF RoutesOk

StopAt(k, i) == [veh |-> k, pos |-> i, node |-> routes[k][i].node, at |-> routes[k][i].at,
                 fin |-> routes[k][i].at + Service(k, routes[k][i].node)]

LEMMA StopsAre ==
    /\ \A k, i : At(routes, k, i) => StopAt(k, i) \in Stops
    /\ \A s \in Stops : \E k, i : At(routes, k, i) /\ s = StopAt(k, i)
    /\ \A k, i : /\ StopAt(k, i).veh = k /\ StopAt(k, i).pos = i /\ StopAt(k, i).node = routes[k][i].node
                 /\ StopAt(k, i).at = routes[k][i].at /\ StopAt(k, i).fin = EndOf(k, routes[k][i])
<1> DEFINE Row(k) == {StopAt(k, i) : i \in 1 .. Len(routes[k])}
<1>1. Stops = UNION {Row(k) : k \in 1 .. Len(routes)}
  BY Zenon DEF Stops, StopAt
<1>2. ASSUME NEW k, NEW i, At(routes, k, i) PROVE StopAt(k, i) \in Stops
  <2>1. k \in 1 .. Len(routes) /\ StopAt(k, i) \in Row(k)
    BY <1>2 DEF At
  <2> HIDE DEF Row
  <2> QED BY <1>1, <2>1
<1>3. ASSUME NEW s \in Stops PROVE \E k, i : At(routes, k, i) /\ s = StopAt(k, i)
  <2>1. PICK k \in 1 .. Len(routes) : s \in Row(k)
    <3> HIDE DEF Row
    <3> QED BY <1>1
  <2>2. PICK i \in 1 .. Len(routes[k]) : s = StopAt(k, i)
    BY <2>1
  <2> QED BY <2>2 DEF At
<1>4. \A k, i : /\ StopAt(k, i).veh = k /\ StopAt(k, i).pos = i /\ StopAt(k, i).node = routes[k][i].node
                /\ StopAt(k, i).at = routes[k][i].at /\ StopAt(k, i).fin = EndOf(k, routes[k][i])
  BY DEF StopAt, EndOf
<1> QED BY <1>2, <1>3, <1>4

LEMMA FreshIs ==
    ASSUME NEW s, s.node = Depot \/ ~Visited(s.node)
    PROVE  Fresh(routes, s)
<1> SUFFICES ASSUME s.node # Depot, NEW l, NEW i, At(routes, l, i), routes[l][i].node = s.node PROVE FALSE
  BY DEF Fresh
<1>1. StopAt(l, i) \in Stops /\ StopAt(l, i).node = s.node
  BY StopsAre
<1> QED BY <1>1 DEF Visited

\* A stop is added to the last route, or a route is begun.
Lengthened(rs, s) == [rs EXCEPT ![Len(rs)] = Append(@, s)]

LEMMA LengthenedGrows ==
    ASSUME NEW rs \in Seq(Seq(StopSet)), Len(rs) <= K, rs # <<>>, rs[Len(rs)] # <<>>, NEW s \in StopSet
    PROVE  LET k == Len(rs)  n == Len(rs[Len(rs)])
           IN /\ Grown(rs, Lengthened(rs, s), k, n + 1) /\ Lengthened(rs, s)[k][n + 1] = s
              /\ n \in Nat \ {0} /\ n + 1 - 1 = n /\ Lengthened(rs, s)[k][n] = Last(rs[k]) /\ At(rs, k, n)
<1> DEFINE k == Len(rs)
           n == Len(rs[k])
           qs == Lengthened(rs, s)
<1>1. k \in Nat \ {0} /\ rs[k] \in Seq(StopSet) /\ n \in Nat \ {0} /\ n + 1 - 1 = n /\ DOMAIN rs = 1 .. k
  <2>1. k \in Nat \ {0} /\ rs[k] \in Seq(StopSet) /\ DOMAIN rs = 1 .. k
    OBVIOUS
  <2>2. n \in Nat /\ n # 0
    BY <2>1
  <2> HIDE DEF k, n
  <2> QED BY <2>1, <2>2
<1>2. qs = [rs EXCEPT ![k] = Append(rs[k], s)]
  BY DEF Lengthened
<1> HIDE DEF qs
<1>3. /\ qs \in Seq(Seq(StopSet)) /\ Len(qs) = k
      /\ \A l \in 1 .. k : qs[l] = IF l = k THEN Append(rs[k], s) ELSE rs[l]
  <2>1. Append(rs[k], s) \in Seq(StopSet)
    BY <1>1
  <2> QED BY <1>1, <1>2, <2>1
<1>4. /\ qs[k] = Append(rs[k], s) /\ Len(qs[k]) = n + 1 /\ qs[k][n + 1] = s
      /\ \A i \in 1 .. n : qs[k][i] = rs[k][i]
  <2>1. qs[k] = Append(rs[k], s)
    <3>1. k \in 1 .. k
      BY <1>1
    <3> HIDE DEF k
    <3> QED BY <1>3, <3>1
  <2>2. \A r \in Seq(StopSet) : /\ Len(Append(r, s)) = Len(r) + 1 /\ Append(r, s)[Len(r) + 1] = s
                               /\ \A i \in 1 .. Len(r) : Append(r, s)[i] = r[i]
    OBVIOUS
  <2> QED BY <1>1, <2>1, <2>2
<1>5. \A l, i : At(qs, l, i) <=> At(rs, l, i) \/ (l = k /\ i = n + 1)
  <2>1. ASSUME NEW l \in 1 .. k, NEW i PROVE At(qs, l, i) <=> At(rs, l, i) \/ (l = k /\ i = n + 1)
    <3>1. CASE l = k
      <4>1. i \in 1 .. n + 1 <=> i \in 1 .. n \/ i = n + 1
        BY <1>1
      <4> QED BY <1>3, <1>4, <3>1, <4>1 DEF At
    <3>2. CASE l # k
      BY <1>3, <3>2 DEF At
    <3> QED BY <3>1, <3>2
  <2>2. k \in 1 .. k
    BY <1>1
  <2> QED BY <1>3, <2>1, <2>2 DEF At
<1>6. \A l, i : At(rs, l, i) => qs[l][i] = rs[l][i]
  BY <1>3, <1>4 DEF At
<1>7. ~At(rs, k, n + 1) /\ At(rs, k, n)
  BY <1>1 DEF At
<1>8. Grown(rs, qs, k, n + 1)
  BY <1>3, <1>4, <1>5, <1>6, <1>7 DEF Grown
<1>9. qs[k][n] = Last(rs[k])
  BY <1>1, <1>4 DEF Last
<1> QED BY <1>1, <1>4, <1>7, <1>8, <1>9 DEF qs

LEMMA BegunGrows ==
    ASSUME NEW rs \in Seq(Seq(StopSet)), Len(rs) < K, K \in Nat, NEW s \in StopSet
    PROVE  LET qs == Append(rs, <<s>>) IN Grown(rs, qs, Len(rs) + 1, 1) /\ qs[Len(rs) + 1][1] = s
<1> DEFINE k == Len(rs) + 1
           qs == Append(rs, <<s>>)
<1>1. Len(rs) \in Nat /\ <<s>> \in Seq(StopSet) /\ Len(<<s>>) = 1 /\ <<s>>[1] = s
  OBVIOUS
<1>2. /\ qs \in Seq(Seq(StopSet)) /\ Len(qs) = k /\ qs[k] = <<s>>
      /\ \A l \in 1 .. Len(rs) : qs[l] = rs[l]
  BY <1>1
<1> HIDE DEF qs
<1>3. \A l : l \in 1 .. k <=> l \in 1 .. Len(rs) \/ l = k
  BY <1>1
<1>4. k \notin 1 .. Len(rs) /\ k <= K
  BY <1>1
<1>5. \A i : i \in 1 .. 1 <=> i = 1
  OBVIOUS
<1> HIDE DEF k
<1>6. \A l, i : At(qs, l, i) <=> At(rs, l, i) \/ (l = k /\ i = 1)
  BY <1>1, <1>2, <1>3, <1>4, <1>5 DEF At
<1>7. \A l, i : At(rs, l, i) => qs[l][i] = rs[l][i]
  BY <1>2 DEF At
<1>8. Grown(rs, qs, k, 1)
  BY <1>1, <1>2, <1>4, <1>6, <1>7 DEF Grown, At
<1> QED BY <1>1, <1>2, <1>8 DEF qs, k

LEMMA SkippedOk ==
    ASSUME NEW rs, RoutesOk(rs), Len(rs) < K, K \in Nat
    PROVE  RoutesOk(Append(rs, <<>>))
<1> DEFINE qs == Append(rs, <<>>)
<1>1. rs \in Seq(Seq(StopSet)) /\ Len(rs) \in Nat
  BY DEF RoutesOk, RoutesTypedOk
<1>2. /\ qs \in Seq(Seq(StopSet)) /\ Len(qs) = Len(rs) + 1 /\ qs[Len(rs) + 1] = <<>>
      /\ \A l \in 1 .. Len(rs) : qs[l] = rs[l]
  <2>1. <<>> \in Seq(StopSet)
    OBVIOUS
  <2> QED BY <1>1, <2>1
<1> HIDE DEF qs
<1>3. \A l : l \in 1 .. Len(rs) + 1 <=> l \in 1 .. Len(rs) \/ l = Len(rs) + 1
  BY <1>1
<1>4. \A l, i : At(qs, l, i) => At(rs, l, i) /\ qs[l][i] = rs[l][i]
  <2>1. \A i : i \notin 1 .. Len(<<>>)
    OBVIOUS
  <2> QED BY <1>2, <1>3, <2>1 DEF At
<1>5. \A l, i : At(rs, l, i) => At(qs, l, i)
  BY <1>2, <1>3 DEF At
<1>6. RoutesTypedOk(qs)
  BY <1>1, <1>2 DEF RoutesTypedOk
<1>7. StopsOk(qs) /\ LegsOk(qs)
  BY <1>4 DEF RoutesOk, StopsOk, LegsOk
<1>8. NodesOnce(qs) /\ CrewsFree(qs)
  BY <1>4 DEF RoutesOk, NodesOnce, CrewsFree
<1>9. PickedUp(qs)
  <2> SUFFICES ASSUME ~Expandable, NEW l, NEW i, At(qs, l, i), qs[l][i].node[1] = "task", Task(qs[l][i].node[2]).pickup # None
               PROVE  \E j : At(qs, l, j) /\ j < i /\ qs[l][j].node = <<"pickup", qs[l][i].node[2]>>
    BY DEF PickedUp
  <2>3. /\ PickedUp(rs) /\ At(rs, l, i) /\ rs[l][i].node[1] = "task"
        /\ Task(rs[l][i].node[2]).pickup # None
    BY <1>4 DEF RoutesOk
  <2>1. PICK j : At(rs, l, j) /\ j < i /\ rs[l][j].node = <<"pickup", rs[l][i].node[2]>>
    BY <2>3 DEF PickedUp
  <2>2. At(qs, l, j) /\ qs[l][j] = rs[l][j] /\ qs[l][i] = rs[l][i]
    BY <1>4, <1>5, <2>1
  <2> QED BY <2>1, <2>2
<1> QED BY <1>6, <1>7, <1>8, <1>9 DEF RoutesOk, qs

LEMMA CapacityIs ==
    ASSUME Ready, NEW k \in 1 .. K, NEW m
    PROVE  Capacity(bundles[k][1], m) \in Nat \ {0}
<1>1. bundles[k] \in inp.compat
  BY TasksFacts
<1>2. inp.aggregate[bundles[k][1]] \in Int /\ \A x \in DOMAIN inp.capacity[bundles[k][1]] : inp.capacity[bundles[k][1]][x] \in Int
  BY <1>1 DEF Ready, Divisible, RowsOk
<1> QED BY <1>2, LimitsAssumption DEF Capacity

-----------------------------------------------------------------------------
(* The steps of a search *)

OverridesOk == \A a \in DOMAIN overrides : overrides[a] \in Nat
Searching == Ready /\ OverridesOk /\ RoutesOk(routes)

LEMMA PaceTyped ==
    ASSUME Ready, OverridesOk, NEW k \in 1 .. K, NEW s \in StopSet, NEW n \in Nodes
    PROVE  Pace(k, s, n) \in Nat
<1>1. s.node \in Nodes
  BY DEF StopSet
<1>2. RowsOk(inp)
  BY DEF Ready, Divisible
<1>3. \A l : PolygonsOk(Restrictions(l))
  BY <1>2, RestrictionsOk
<1>4. ASSUME NEW l, NEW R \in SUBSET Restrictions(l), NEW m \in Nodes PROVE ArcSeconds(l, m, n, R) \in Nat
  BY <1>3, ArcFacts
<1>5. Unconditional(Restrictions(k)) \in SUBSET Restrictions(k)
  BY DEF Unconditional
<1>6. ActivePolygons(Restrictions(1), Segment(s.at), Segment(s.at)) \in SUBSET Restrictions(1)
  BY DEF ActivePolygons
<1>7. Seconds(k, s.node, n) \in Nat
  <2>1. ArcSeconds(k, s.node, n, Unconditional(Restrictions(k))) \in Nat
    BY <1>1, <1>4, <1>5
  <2> QED BY <2>1 DEF Seconds, OverridesOk
<1>8. ExpandedSeconds(s, n) \in Nat
  BY <1>1, <1>4, <1>6 DEF ExpandedSeconds
<1> QED BY <1>7, <1>8 DEF Pace

LEMMA GrowingIs ==
    ASSUME Searching, Growing
    PROVE  /\ routes \in Seq(Seq(StopSet)) /\ routes # <<>> /\ routes[Len(routes)] # <<>> /\ Len(routes) <= K
           /\ Len(routes) \in 1 .. K /\ Last(routes) = routes[Len(routes)] /\ Last(routes[Len(routes)]) \in StopSet
           /\ Len(routes[Len(routes)]) > 1 => Last(routes[Len(routes)]).node # Depot
<1>1. routes \in Seq(Seq(StopSet)) /\ Len(routes) <= K /\ Len(routes) > 0 /\ ~Closed(Last(routes))
  BY DEF Searching, RoutesOk, RoutesTypedOk, Growing
<1>2. Len(routes) \in Nat /\ Last(routes) = routes[Len(routes)] /\ routes[Len(routes)] \in Seq(StopSet) /\ routes # <<>>
  BY <1>1 DEF Last
<1>3. routes[Len(routes)] # <<>>
  BY <1>1, <1>2 DEF Closed
<1>4. \A r \in Seq(StopSet) : r # <<>> => Last(r) \in StopSet
  BY DEF Last
<1>5. K \in Nat
  BY TasksFacts DEF Searching
<1> QED BY <1>1, <1>2, <1>3, <1>4, <1>5 DEF Closed

\* A step that adds stop s to the route at hand.
LEMMA StopAdded ==
    ASSUME Searching, Growing, NEW s \in StopSet, StopFits(Len(routes), s),
           LegFits(Len(routes), Last(routes[Len(routes)]), s), Fresh(routes, s),
           OthersFree(routes, Len(routes), s), AfterPickup(routes, Len(routes), s)
    PROVE  RoutesOk(Lengthened(routes, s))
<1> DEFINE k == Len(routes)
           n == Len(routes[Len(routes)])
           qs == Lengthened(routes, s)
           r == Last(routes[Len(routes)])
<1>1. /\ routes \in Seq(Seq(StopSet)) /\ routes # <<>> /\ routes[k] # <<>> /\ k <= K
      /\ k \in 1 .. K /\ r \in StopSet
  BY GrowingIs
<1>2. /\ Grown(routes, qs, k, n + 1) /\ qs[k][n + 1] = s
      /\ n \in Nat \ {0} /\ n + 1 - 1 = n /\ qs[k][n] = r
  BY <1>1, LengthenedGrows
<1>3. Ready /\ OverridesOk /\ RoutesOk(routes)
  BY DEF Searching
<1>4. EndOf(k, r) <= s.at
  <2>1. s.at \in Nat /\ s.node \in Nodes /\ EndOf(k, r) \in Nat
    BY <1>1, <1>3, EndsTyped
  <2>2. Pace(k, r, s.node) \in Nat
    BY <1>1, <1>3, <2>1, PaceTyped
  <2>3. s.at - EndOf(k, r) >= Pace(k, r, s.node)
    BY DEF LegFits
  <2> HIDE DEF r, k
  <2> QED BY <2>1, <2>2, <2>3
<1>5. StartsWell(qs, k, n + 1)
  <2>1. n + 1 # 1 /\ n + 1 > 1
    BY <1>2
  <2> HIDE DEF qs, n, r
  <2> QED BY <1>2, <1>4, <2>1 DEF StartsWell, r
<1> HIDE DEF qs, n
<1>6. RoutesOk(qs)
  BY <1>2, <1>3, <1>5, RoutesGrow
<1> QED BY <1>6 DEF qs

LEMMA RouteBegun ==
    ASSUME Searching, Len(routes) < K, NEW s \in StopSet, s.node = Depot, StopFits(Len(routes) + 1, s)
    PROVE  RoutesOk(Append(routes, <<s>>))
<1> DEFINE k == Len(routes) + 1
           qs == Append(routes, <<s>>)
<1>1. routes \in Seq(Seq(StopSet)) /\ K \in Nat
  BY TasksFacts DEF Searching, RoutesOk, RoutesTypedOk
<1>2. Grown(routes, qs, k, 1) /\ qs[k][1] = s
  BY <1>1, BegunGrows
<1>3. StartsWell(qs, k, 1) /\ Fresh(routes, s)
  BY <1>2 DEF StartsWell, Fresh
<1>4. s.node[1] # "task"
  BY DEF Depot
<1>5. OthersFree(routes, k, s) /\ AfterPickup(routes, k, s)
  <2> HIDE DEF k
  <2>1. \A l, r : CrewFree(k, s, l, r)
    BY <1>4 DEF CrewFree
  <2>2. AfterPickup(routes, k, s)
    BY <1>4 DEF AfterPickup
  <2> QED BY <2>1, <2>2 DEF OthersFree
<1> HIDE DEF qs, k
<1>6. RoutesOk(qs)
  BY <1>2, <1>3, <1>5, RoutesGrow DEF Searching
<1> QED BY <1>6 DEF qs

LEMMA DepotStop == Depot \in Nodes /\ Depot[1] = "depot"
BY DEF Nodes, Depot

LEMMA OpenOk ==
    ASSUME Searching, OpenRoute
    PROVE  RoutesOk(routes')
<1>1. PICK s \in 0 .. Horizon : routes' = Append(routes, <<[node |-> Depot, at |-> s, load |-> [m \in Materials |-> 0]]>>)
  BY DEF OpenRoute, Extend
<1> DEFINE x == [node |-> Depot, at |-> s, load |-> [m \in Materials |-> 0]]
<1>2. Len(routes) < K /\ Len(routes) \in Nat /\ K \in Nat
  BY TasksFacts DEF OpenRoute, Searching, RoutesOk, RoutesTypedOk
<1>3. x \in StopSet
  BY DepotStop DEF StopSet
<1>4. StopFits(Len(routes) + 1, x)
  <2>1. Len(routes) + 1 \in 1 .. K
    BY <1>2
  <2>2. \A m \in Materials : 0 <= Capacity(bundles[Len(routes) + 1][1], m)
    BY <2>1, CapacityIs DEF Searching
  <2> QED BY <2>2, DepotStop DEF StopFits
<1>5. x.node = Depot
  OBVIOUS
<1> HIDE DEF x
<1>6. RoutesOk(Append(routes, <<x>>))
  BY <1>2, <1>3, <1>4, <1>5, RouteBegun
<1> QED BY <1>1, <1>6 DEF x

\* A load level the dimensions admit.
LEMMA LoadsTyped ==
    ASSUME NEW k, NEW r, NEW l \in NextLoads(k, r)
    PROVE  /\ l \in [Materials -> Nat] /\ \A m \in Materials : l[m] <= Capacity(bundles[k][1], m)
           /\ \A m \in Materials : \E x \in Slack(r.node, m) : l[m] = r.load[m] + Demand(r.node, m) + x
<1>1. l \in [Materials -> 0 .. Max({MaxCapacity(m) : m \in Materials} \cup {0})]
  BY DEF NextLoads
<1>2. \A b : 0 .. b \in SUBSET Nat
  OBVIOUS
<1>3. l \in [Materials -> Nat]
  <2> DEFINE b == Max({MaxCapacity(m) : m \in Materials} \cup {0})
  <2>1. l \in [Materials -> 0 .. b] /\ 0 .. b \in SUBSET Nat
    BY <1>1, <1>2
  <2> HIDE DEF b
  <2> QED BY <2>1
<1> QED BY <1>3 DEF NextLoads

\* The driving time, and the busy intervals on the way.
LEMMA DrivesIs ==
    ASSUME Searching, NEW k \in 1 .. K, NEW r \in StopSet, NEW n \in Nodes, NEW t \in 0 .. Horizon, Drives(k, r, n, t)
    PROVE  /\ t - EndOf(k, r) >= Seconds(k, r.node, n)
           /\ Clear(t, t + Service(k, n), Held({bundles[k][1], bundles[k][2]}))
<1> DEFINE W == Held({bundles[k][1], bundles[k][2]})
           leave == r.at + Service(k, r.node)
           S == {x \in leave .. t - 1 : \E w \in W : x \in w[1] .. w[2] - 1}
<1>1. /\ t - leave - Cardinality(S) >= Seconds(k, r.node, n) /\ Clear(t, t + Service(k, n), W)
  BY DEF Drives, BreakSeconds
<1>2. leave \in Nat
  <2>1. EndOf(k, r) \in Nat
    BY EndsTyped DEF Searching
  <2> QED BY <2>1 DEF EndOf
<1>3. Cardinality(S) \in Nat
  <2>1. S \in SUBSET (leave .. t - 1)
    OBVIOUS
  <2>2. leave \in Int /\ t - 1 \in Int
    BY <1>2
  <2> HIDE DEF S, leave
  <2>3. IsFiniteSet(leave .. t - 1)
    BY <2>2, FS_Interval
  <2> QED BY <2>1, <2>3, FS_Subset, FS_CardinalityType
<1>4. Seconds(k, r.node, n) \in Nat
  <2>1. r.node \in Nodes
    BY DEF StopSet
  <2>2. \A m \in Nodes, R \in SUBSET Restrictions(k) : ArcSeconds(k, m, n, R) \in Nat
    <3>1. RowsOk(inp)
      BY DEF Searching, Ready, Divisible
    <3> QED BY <3>1, RestrictionsOk, ArcFacts DEF Searching
  <2>3. Unconditional(Restrictions(k)) \in SUBSET Restrictions(k)
    BY DEF Unconditional
  <2> QED BY <2>1, <2>2, <2>3 DEF Seconds, Searching, OverridesOk
<1> HIDE DEF S
<1>5. t - leave >= Seconds(k, r.node, n)
  BY <1>1, <1>2, <1>3, <1>4
<1> QED BY <1>1, <1>5 DEF EndOf

LEMMA SkipOk ==
    ASSUME Searching, SkipVehicle
    PROVE  RoutesOk(routes')
<1>1. routes' = Append(routes, <<>>) /\ Len(routes) < K
  BY DEF SkipVehicle, Extend
<1>2. K \in Nat /\ RoutesOk(routes)
  BY TasksFacts DEF Searching
<1> QED BY <1>1, <1>2, SkippedOk

\* What a task stop is admitted for.
LEMMA AdmittedIs ==
    ASSUME Searching, ~Expandable, NEW k \in 1 .. K, NEW r \in StopSet, NEW n \in TaskNodes, NEW t \in 0 .. Horizon,
           Drives(k, r, n, t), TaskAdmitted(k, n[2], t), NEW s \in StopSet, s.node = n, s.at = t
    PROVE  Timely(k, n[2], s) /\ OthersFree(routes, k, s) /\ AfterPickup(routes, k, s)
<1> DEFINE u == n[2]
           d == Service(k, n)
<1>1. n = <<"task", u>> /\ n[1] = "task" /\ n \in Nodes
  <2>1. n \in Nodes
    BY DEF Nodes
  <2>2. n[1] = "task"
    BY DEF TaskNodes
  <2> QED BY <2>1, <2>2, NodeKinds
<1>2. d = Service(k, <<"task", u>>) /\ EndOf(k, s) = t + d
  BY <1>1 DEF EndOf
<1>3. /\ StartAllowed(u, t) /\ KeepsClear(u, t, d) /\ FinishFits(u, t, d) /\ OperatorFree(u, t, d)
      /\ Task(u).pickup # None => \E o \in Stops : o.veh = k /\ o.node = <<"pickup", u>>
  BY <1>2 DEF TaskAdmitted
<1>4. Clear(t, t + d, Held({bundles[k][1], bundles[k][2]}))
  BY <1>1, DrivesIs
<1>5. t <= Deadline(u)
  BY <1>3 DEF StartAllowed
<1>6. OperatorOf(u) # None => Clear(t, t + d, Held({OperatorOf(u)}))
  BY <1>3 DEF OperatorFree
<1> HIDE DEF d
<1>7. Timely(k, u, s)
  BY <1>2, <1>3, <1>4, <1>5, <1>6 DEF Timely, d
<1>8. OthersFree(routes, k, s)
  <2> SUFFICES ASSUME NEW l, NEW i, At(routes, l, i), routes[l][i].node[1] = "task",
                      OperatorOf(u) # None, OperatorOf(u) = OperatorOf(routes[l][i].node[2])
               PROVE  EndOf(k, s) <= routes[l][i].at \/ EndOf(l, routes[l][i]) <= s.at
    BY DEF OthersFree, CrewFree
  <2>1. /\ StopAt(l, i) \in Stops /\ StopAt(l, i).node = routes[l][i].node
        /\ StopAt(l, i).at = routes[l][i].at /\ StopAt(l, i).fin = EndOf(l, routes[l][i])
    BY StopsAre
  <2>2. StopAt(l, i) \in TaskStops
    BY <2>1 DEF TaskStops
  <2>3. t + d <= StopAt(l, i).at \/ StopAt(l, i).fin <= t
    BY <1>3, <2>1, <2>2 DEF OperatorFree
  <2> QED BY <1>2, <2>1, <2>3
<1>9. AfterPickup(routes, k, s)
  <2> SUFFICES ASSUME Task(u).pickup # None
               PROVE  \E j : At(routes, k, j) /\ routes[k][j].node = <<"pickup", u>>
    BY DEF AfterPickup
  <2>1. PICK o \in Stops : o.veh = k /\ o.node = <<"pickup", u>>
    BY <1>3
  <2>2. PICK l, j : At(routes, l, j) /\ o = StopAt(l, j)
    BY StopsAre
  <2> QED BY <2>1, <2>2, StopsAre
<1> QED BY <1>7, <1>8, <1>9

LEMMA VisitOk ==
    ASSUME Searching, ~Expandable, Visit
    PROVE  RoutesOk(routes')
<1> DEFINE k == Len(routes)
           r == Last(routes[k])
<1>1. Growing
  BY DEF Visit
<1>2. /\ routes[k] # <<>> /\ k \in 1 .. K /\ r \in StopSet /\ Last(routes) = routes[k]
      /\ routes \in Seq(Seq(StopSet)) /\ routes # <<>>
  BY <1>1, GrowingIs
<1>3. PICK n \in Nodes \ {Depot}, t \in 0 .. Horizon :
          /\ ~Visited(n) /\ Drives(k, r, n, t) /\ Admitted(k, n, t)
          /\ \E l \in NextLoads(k, r) :
                routes' = [routes EXCEPT ![k] = Append(@, [node |-> n, at |-> t, load |-> l])]
  BY Zenon DEF Visit, Extend
<1>4. PICK l \in NextLoads(k, r) : routes' = [routes EXCEPT ![k] = Append(@, [node |-> n, at |-> t, load |-> l])]
  BY <1>3
<1> DEFINE s == [node |-> n, at |-> t, load |-> l]
<1>5. /\ l \in [Materials -> Nat] /\ \A m \in Materials : l[m] <= Capacity(bundles[k][1], m)
      /\ \A m \in Materials : \E x \in Slack(r.node, m) : l[m] = r.load[m] + Demand(r.node, m) + x
  BY LoadsTyped
<1>6. s \in StopSet /\ s.node = n /\ s.at = t /\ s.load = l
  BY <1>5 DEF StopSet
<1>7. routes' = Lengthened(routes, s)
  BY <1>4 DEF Lengthened
<1> HIDE DEF s
<1>8. t - EndOf(k, r) >= Seconds(k, r.node, n)
  BY <1>2, <1>3, DrivesIs
<1>9. r.node # n
  <2>1. At(routes, k, Len(routes[k])) /\ routes[k][Len(routes[k])] = r
    <3>1. k \in 1 .. Len(routes) /\ routes[k] \in Seq(StopSet)
      BY <1>2
    <3>2. \A q \in Seq(StopSet) : q # <<>> => Len(q) \in 1 .. Len(q)
      OBVIOUS
    <3> QED BY <1>2, <3>1, <3>2 DEF At, Last
  <2> HIDE DEF r, k
  <2>2. Fresh(routes, s)
    BY <1>3, <1>6, FreshIs
  <2>3. n # Depot
    OBVIOUS
  <2> QED BY <1>6, <2>1, <2>2, <2>3 DEF Fresh
<1>10. LegFits(k, r, s)
  BY <1>5, <1>6, <1>8, <1>9 DEF LegFits, Pace
<1>11. Fresh(routes, s)
  BY <1>3, <1>6, FreshIs
<1> HIDE DEF r, k
<1>12. CASE n[1] = "task"
  <2>1. n \in TaskNodes
    BY <1>12, NodeKinds DEF TaskNodes
  <2>2. TaskAdmitted(k, n[2], t)
    BY <1>3, <1>12 DEF Admitted
  <2>3. Timely(k, n[2], s) /\ OthersFree(routes, k, s) /\ AfterPickup(routes, k, s)
    BY <1>2, <1>3, <1>6, <2>1, <2>2, AdmittedIs
  <2>4. StopFits(k, s)
    BY <1>5, <1>6, <2>3 DEF StopFits
  <2> QED BY <1>1, <1>6, <1>7, <1>10, <1>11, <2>3, <2>4, StopAdded DEF k, r
<1>13. CASE n[1] # "task"
  <2>1. StopFits(k, s)
    BY <1>5, <1>6, <1>13 DEF StopFits
  <2>2. OthersFree(routes, k, s) /\ AfterPickup(routes, k, s)
    <3>1. \A q, x : CrewFree(k, s, q, x)
      BY <1>6, <1>13 DEF CrewFree
    <3>2. AfterPickup(routes, k, s)
      BY <1>6, <1>13 DEF AfterPickup
    <3> QED BY <3>1, <3>2 DEF OthersFree
  <2> QED BY <1>1, <1>6, <1>7, <1>10, <1>11, <2>1, <2>2, StopAdded DEF k, r
<1> QED BY <1>12, <1>13

LEMMA DepotFree ==
    ASSUME NEW s, s.node = Depot, NEW k
    PROVE  Fresh(routes, s) /\ OthersFree(routes, k, s) /\ AfterPickup(routes, k, s)
<1>1. s.node[1] # "task"
  BY DepotStop
<1>2. \A q, x : CrewFree(k, s, q, x)
  BY <1>1 DEF CrewFree
<1>3. AfterPickup(routes, k, s) /\ Fresh(routes, s)
  BY <1>1 DEF AfterPickup, Fresh
<1> QED BY <1>2, <1>3 DEF OthersFree

LEMMA CloseOk ==
    ASSUME Searching, ~Expandable, CloseRoute
    PROVE  RoutesOk(routes')
<1> DEFINE k == Len(routes)
           r == Last(routes[k])
<1>1. Growing
  BY DEF CloseRoute
<1>2. /\ k \in 1 .. K /\ r \in StopSet /\ Last(routes) = routes[k]
      /\ Len(routes[k]) > 1 => r.node # Depot
  BY <1>1, GrowingIs
<1>3. PICK t \in 0 .. Horizon :
          /\ Drives(k, r, Depot, t)
          /\ \E l \in NextLoads(k, r) :
                routes' = [routes EXCEPT ![k] = Append(@, [node |-> Depot, at |-> t, load |-> l])]
  BY Zenon DEF CloseRoute, Extend
<1>4. PICK l \in NextLoads(k, r) : routes' = [routes EXCEPT ![k] = Append(@, [node |-> Depot, at |-> t, load |-> l])]
  BY <1>3
<1> DEFINE s == [node |-> Depot, at |-> t, load |-> l]
<1>5. /\ l \in [Materials -> Nat] /\ \A m \in Materials : l[m] <= Capacity(bundles[k][1], m)
      /\ \A m \in Materials : \E x \in Slack(r.node, m) : l[m] = r.load[m] + Demand(r.node, m) + x
  BY LoadsTyped
<1>6. s \in StopSet /\ s.node = Depot /\ s.at = t /\ s.load = l
  BY <1>5, DepotStop DEF StopSet
<1>7. routes' = Lengthened(routes, s)
  BY <1>4 DEF Lengthened
<1> HIDE DEF s
<1>8. t - EndOf(k, r) >= Seconds(k, r.node, Depot)
  BY <1>2, <1>3, DrivesIs, DepotStop
<1>9. r.node # Depot
  BY <1>2 DEF CloseRoute
<1>10. LegFits(k, r, s)
  BY <1>5, <1>6, <1>8, <1>9 DEF LegFits, Pace
<1>11. Fresh(routes, s) /\ OthersFree(routes, k, s) /\ AfterPickup(routes, k, s)
  BY <1>6, DepotFree
<1> HIDE DEF r, k
<1>12. StopFits(k, s)
  BY <1>5, <1>6, DepotStop DEF StopFits
<1> QED BY <1>1, <1>6, <1>7, <1>10, <1>11, <1>12, StopAdded DEF k, r

\* The time-expanded model.
LEMMA ExpandedOne ==
    ASSUME Searching, Expandable
    PROVE  K = 1 /\ Len(routes) \in {0, 1} /\ (Len(routes) = 0 <=> routes = <<>>)
<1>1. K = 1
  BY DEF Expandable
<1>2. routes \in Seq(Seq(StopSet)) /\ Len(routes) <= K
  BY DEF Searching, RoutesOk, RoutesTypedOk
<1>3. Len(routes) \in Nat
  BY <1>2
<1>4. Len(routes) = 0 <=> routes = <<>>
  BY <1>2
<1>5. Len(routes) <= 1
  BY <1>1, <1>2
<1>6. Len(routes) \in {0, 1}
  BY SMTT(60), <1>3, <1>5
<1> QED BY <1>1, <1>4, <1>6

LEMMA ExpandedOpenOk ==
    ASSUME Searching, ExpandedOpen
    PROVE  RoutesOk(routes')
<1> DEFINE s == [node |-> Depot, at |-> 0, load |-> NoLoad]
<1>1. routes = <<>> /\ routes' = <<<<s>>>> /\ Expandable
  BY DEF ExpandedOpen, Expands, Extend
<1>2. routes' = Append(routes, <<s>>) /\ Len(routes) = 0 /\ Len(routes) < K
  BY <1>1, ExpandedOne
<1>3. s \in StopSet /\ s.node = Depot
  BY DepotStop, LimitsAssumption DEF StopSet, NoLoad
<1>4. StopFits(Len(routes) + 1, s)
  BY <1>1, <1>3, DepotStop DEF StopFits
<1> HIDE DEF s
<1> QED BY <1>2, <1>3, <1>4, RouteBegun

LEMMA ExpandedAdded ==
    ASSUME Searching, Expandable, Growing, NEW n \in Nodes, NEW t \in 0 .. Horizon,
           n = Depot \/ (n[1] = "task" /\ ~Visited(n) /\ t <= Deadline(n[2])), ExpandedDrives(Last(routes[1]), n, t)
    PROVE  RoutesOk(<<Append(routes[1], [node |-> n, at |-> t, load |-> NoLoad])>>)
<1> DEFINE s == [node |-> n, at |-> t, load |-> NoLoad]
           r == Last(routes[1])
<1>1. Len(routes) = 1 /\ r \in StopSet /\ K = 1 /\ routes \in Seq(Seq(StopSet)) /\ 1 \in 1 .. K
  BY GrowingIs, ExpandedOne
<1>2. s \in StopSet /\ s.node = n /\ s.at = t
  BY DEF StopSet, NoLoad
<1>3. <<Append(routes[1], s)>> = Lengthened(routes, s)
  BY <1>1 DEF Lengthened
<1> HIDE DEF s, r
<1>4. LegFits(1, r, s)
  <2>1. t >= EndOf(1, r) + ExpandedSeconds(r, n)
    BY DEF ExpandedDrives, EndOf, r
  <2>2. Pace(1, r, n) = ExpandedSeconds(r, n) /\ Pace(1, r, n) \in Nat /\ EndOf(1, r) \in Nat
    BY <1>1, PaceTyped, EndsTyped DEF Pace, Searching
  <2> QED BY <1>2, <2>1, <2>2 DEF LegFits
<1>5. StopFits(1, s)
  <2>1. n[1] = "task" => t <= Deadline(n[2])
    BY DepotStop
  <2> QED BY <1>2, <2>1 DEF StopFits, Timely
<1>6. Fresh(routes, s)
  BY <1>2, FreshIs
<1>7. OthersFree(routes, 1, s) /\ AfterPickup(routes, 1, s)
  <2>1. \A l, i : At(routes, l, i) => l = 1
    BY <1>1 DEF At
  <2> QED BY <2>1 DEF OthersFree, AfterPickup
<1>8. RoutesOk(Lengthened(routes, s))
  BY <1>1, <1>2, <1>4, <1>5, <1>6, <1>7, StopAdded DEF r
<1> QED BY <1>3, <1>8 DEF s

LEMMA ExpandedStepsOk ==
    ASSUME Searching, ExpandedVisit \/ ExpandedClose
    PROVE  RoutesOk(routes')
<1>1. CASE ExpandedVisit
  <2>1. Expandable /\ Growing
    BY <1>1 DEF ExpandedVisit, Expands
  <2>2. PICK n \in TaskNodes, t \in 0 .. Horizon :
          /\ ~Visited(n) /\ t <= Deadline(n[2]) /\ ExpandedDrives(Last(routes[1]), n, t)
          /\ routes' = <<Append(routes[1], [node |-> n, at |-> t, load |-> NoLoad])>>
    <3>1. Len(routes) = 1 /\ Last(routes) = routes[Len(routes)]
      BY <2>1, GrowingIs, ExpandedOne
    <3>2. Last(routes) = routes[1]
      BY <3>1
    <3> QED BY <1>1, <3>2 DEF ExpandedVisit, Extend
  <2>3. n \in Nodes /\ n[1] = "task"
    BY DEF Nodes, TaskNodes
  <2> QED BY <2>1, <2>2, <2>3, ExpandedAdded
<1>2. CASE ExpandedClose
  <2>1. Expandable /\ Growing
    BY <1>2 DEF ExpandedClose, Expands
  <2>2. PICK t \in 0 .. Horizon :
          /\ ExpandedDrives(Last(routes[1]), Depot, t)
          /\ routes' = <<Append(routes[1], [node |-> Depot, at |-> t, load |-> NoLoad])>>
    <3>1. Len(routes) = 1 /\ Last(routes) = routes[Len(routes)]
      BY <2>1, GrowingIs, ExpandedOne
    <3>2. Last(routes) = routes[1]
      BY <3>1
    <3> QED BY <1>2, <3>2 DEF ExpandedClose, Extend
  <2> QED BY <2>1, <2>2, DepotStop, ExpandedAdded
<1> QED BY <1>1, <1>2

-----------------------------------------------------------------------------
(* What a step that leaves the rows alone leaves alone *)

LEMMA FrameReady ==
    ASSUME UNCHANGED Frame, Ready
    PROVE  Ready'
<1>1. UNCHANGED <<inp, crew, cluster, bundles, orders, preInf, networkVars>>
  BY DEF Frame
<1>2. NetInv'
  BY <1>1, NetInvSame DEF Ready
<1>3. NetworkReady'
  BY <1>1 DEF Ready, NetworkReady, networkVars
<1>4. /\ Divisible(inp)' /\ Crews(inp, crew)' /\ Prepared(inp, cluster, bundles, orders, preInf)'
  BY <1>1 DEF Ready
<1> QED BY <1>2, <1>3, <1>4 DEF Ready

\* The parts of the rows a route is judged by.
LEMMA FrameRoutes ==
    ASSUME UNCHANGED <<Frame, overrides>>, RoutesOk(routes')
    PROVE  RoutesOk(routes)'
<1>1. UNCHANGED Frame
  BY DEF Frame
<1>2. /\ \A t : Deadline(t)' = Deadline(t) /\ OperatorOf(t)' = OperatorOf(t)
      /\ \A t, s : StartAllowed(t, s)' = StartAllowed(t, s)
      /\ \A t, s, d : KeepsClear(t, s, d)' = KeepsClear(t, s, d) /\ FinishFits(t, s, d)' = FinishFits(t, s, d)
      /\ \A A : Held(A)' = Held(A)
      /\ \A k, n : Service(k, n)' = Service(k, n)
  BY <1>1, FrameTasks
<1>3. /\ Materials' = Materials /\ Nodes' = Nodes
      /\ \A v, m : Capacity(v, m)' = Capacity(v, m)
      /\ \A n, m : Demand(n, m)' = Demand(n, m) /\ Slack(n, m)' = Slack(n, m)
      /\ Expandable' = Expandable
      /\ \A s, n : ExpandedSeconds(s, n)' = ExpandedSeconds(s, n)
  BY <1>1, FrameLoads
<1>4. \A k, n, m : Seconds(k, n, m)' = Seconds(k, n, m)
  BY FrameSeconds
<1>5. /\ bundles' = bundles /\ K' = K /\ \A t : Task(t)' = Task(t)
  BY <1>1 DEF Frame, K, Task
<1>6. /\ \A k, s : EndOf(k, s)' = EndOf(k, s) /\ \A n : Pace(k, s, n)' = Pace(k, s, n)
      /\ StopSet' = StopSet
  BY <1>2, <1>3, <1>4 DEF EndOf, Pace, StopSet
<1>7. \A k, t, s : Timely(k, t, s)' = Timely(k, t, s)
  BY <1>2, <1>3, <1>5, <1>6 DEF Timely
<1>8. \A k, s : StopFits(k, s)' = StopFits(k, s)
  BY <1>3, <1>5, <1>7 DEF StopFits
<1>9. \A k, r, s : LegFits(k, r, s)' = LegFits(k, r, s)
  BY <1>3, <1>6 DEF LegFits
<1>10. \A k, r, l, s : CrewFree(k, r, l, s)' = CrewFree(k, r, l, s)
  BY <1>2, <1>6 DEF CrewFree
<1>11. RoutesTypedOk(routes)' /\ StopsOk(routes)' /\ NodesOnce(routes)'
  BY <1>5, <1>6, <1>8 DEF RoutesOk, RoutesTypedOk, StopsOk, NodesOnce, At, Depot
<1>12. LegsOk(routes)' /\ CrewsFree(routes)'
  BY <1>6, <1>9, <1>10 DEF RoutesOk, LegsOk, CrewsFree, At
<1>13. PickedUp(routes)'
  BY <1>3, <1>5 DEF RoutesOk, PickedUp, At
<1> QED BY <1>11, <1>12, <1>13 DEF RoutesOk

ExpandedPackages ==
    {[task |-> s.node[2], bundle |-> bundles[1], operator |-> OperatorOf(s.node[2]),
      start |-> s.at, finish |-> s.fin, travel |-> ExpandedTravel(s)] : s \in TaskStops}
Dispatch == IF Expandable THEN ExpandedPackages ELSE Packages

LEMMA FrameStops ==
    ASSUME UNCHANGED <<Frame, routes>>
    PROVE  /\ Stops' = Stops /\ TaskStops' = TaskStops /\ \A n : Visited(n)' = Visited(n)
           /\ Unserved' = Unserved /\ Reported' = Reported
           /\ Legs' = Legs
           /\ \A l : LegSeconds(l)' = LegSeconds(l)
<1>1. UNCHANGED Frame /\ routes' = routes /\ orders' = orders /\ preInf' = preInf /\ \A t : Task(t)' = Task(t)
  BY DEF Frame, Task
<1>2. \A k, n : Service(k, n)' = Service(k, n)
  BY <1>1, FrameTasks
<1>3. Stops' = Stops
  BY <1>1, <1>2 DEF Stops
<1>4. TaskStops' = TaskStops /\ \A n : Visited(n)' = Visited(n)
  BY <1>3 DEF TaskStops, Visited
<1>5. Unserved' = Unserved
  BY <1>1, <1>4 DEF Unserved
<1>6. Reported' = Reported
  BY <1>1, <1>5 DEF Reported
<1>7. Legs' = Legs
  BY <1>1 DEF Legs
<1>8. /\ \A k : Restrictions(k)' = Restrictions(k)
      /\ \A k, n, m, R : ArcSeconds(k, n, m, R)' = ArcSeconds(k, n, m, R)
  BY <1>1, FrameRoads
<1>9. \A l : LegSeconds(l)' = LegSeconds(l)
  BY <1>2, <1>8 DEF LegSeconds
<1> QED BY <1>3, <1>4, <1>5, <1>6, <1>7, <1>9

LEMMA FrameDispatch ==
    ASSUME UNCHANGED <<Frame, overrides, routes>>
    PROVE  Dispatch' = Dispatch /\ DOMAIN Activated' = DOMAIN Activated
<1>1. UNCHANGED Frame /\ UNCHANGED <<Frame, overrides>> /\ UNCHANGED <<Frame, routes>> /\ routes' = routes /\ bundles' = bundles
  BY DEF Frame
<1>2. \A k, n, m : Seconds(k, n, m)' = Seconds(k, n, m)
  BY <1>1, FrameSeconds
<1>3. TaskStops' = TaskStops /\ Legs' = Legs /\ \A l : LegSeconds(l)' = LegSeconds(l)
  BY <1>1, FrameStops
<1>4. Expandable' = Expandable /\ \A s, n : ExpandedSeconds(s, n)' = ExpandedSeconds(s, n)
  BY <1>1, FrameLoads
<1>5. \A t : OperatorOf(t)' = OperatorOf(t)
  BY SMTT(60), <1>1, FrameTasks
<1>6. \A s : TravelIn(s)' = TravelIn(s) /\ ExpandedTravel(s)' = ExpandedTravel(s)
  BY <1>1, <1>2, <1>4 DEF TravelIn, ExpandedTravel
<1>7. Packages' = Packages /\ ExpandedPackages' = ExpandedPackages
  BY <1>1, <1>3, <1>5, <1>6 DEF Packages, ExpandedPackages
<1>8. DOMAIN Activated' = DOMAIN Activated
  <2> DEFINE H == {leg \in Legs : LegSeconds(leg) > Seconds(leg[1], leg[2].node, leg[3].node)}
  <2>1. DOMAIN Activated = {<<leg[1], leg[2].node, leg[3].node>> : leg \in H}
    BY DEF Activated
  <2>2. DOMAIN Activated' = {<<leg[1], leg[2].node, leg[3].node>> : leg \in H'}
    BY DEF Activated
  <2>3. H' = H
    BY <1>2, <1>3
  <2> QED BY <2>1, <2>2, <2>3
<1> QED BY <1>4, <1>7, <1>8 DEF Dispatch

-----------------------------------------------------------------------------
(* The refinement *)

\* Every arc is priced with all restrictions of its bundle.
AllPriced ==
    \A k \in 1 .. K, n, m \in Nodes : n # m => Seconds(k, n, m) >= ArcSeconds(k, n, m, Restrictions(k))
Routed == Searching /\ (final => AllPriced)

LEMMA PricesTyped ==
    ASSUME Ready, OverridesOk, NEW k \in 1 .. K, NEW n \in Nodes, NEW m \in Nodes
    PROVE  /\ Seconds(k, n, m) \in Nat /\ ArcSeconds(k, n, m, Restrictions(k)) \in Nat
           /\ \A R \in SUBSET Restrictions(k) : /\ ArcSeconds(k, n, m, R) \in Nat
                                               /\ ArcSeconds(k, n, m, R) <= ArcSeconds(k, n, m, Restrictions(k))
<1>1. RowsOk(inp)
  BY DEF Ready, Divisible
<1>2. PolygonsOk(Restrictions(k))
  BY <1>1, RestrictionsOk
<1>3. \A R \in SUBSET Restrictions(k) : /\ ArcSeconds(k, n, m, R) \in Nat
                                       /\ ArcSeconds(k, n, m, R) <= ArcSeconds(k, n, m, Restrictions(k))
  BY <1>2, ArcFacts
<1>4. Unconditional(Restrictions(k)) \in SUBSET Restrictions(k) /\ Restrictions(k) \in SUBSET Restrictions(k)
  BY DEF Unconditional
<1>5. Seconds(k, n, m) \in Nat
  BY <1>3, <1>4 DEF Seconds, OverridesOk
<1> QED BY <1>3, <1>4, <1>5

LegAt(k, i) == <<k, routes[k][i], routes[k][i + 1]>>
LEMMA LegsAre ==
    ASSUME Searching
    PROVE  /\ IsFiniteSet(Legs)
           /\ \A leg \in Legs : \E k, i : At(routes, k, i) /\ At(routes, k, i + 1) /\ leg = LegAt(k, i)
<1> DEFINE Row(k) == {LegAt(k, i) : i \in 1 .. Len(routes[k]) - 1}
           Rws == {Row(k) : k \in 1 .. Len(routes)}
<1>1. Legs = UNION Rws
  BY Zenon DEF Legs, LegAt
<1>2. routes \in Seq(Seq(StopSet))
  BY DEF Searching, RoutesOk, RoutesTypedOk
<1>3. ASSUME NEW k \in 1 .. Len(routes) PROVE IsFiniteSet(Row(k))
  <2> DEFINE S == 1 .. Len(routes[k]) - 1
             f == [i \in S |-> LegAt(k, i)]
  <2>1. Row(k) = {f[i] : i \in S}
    OBVIOUS
  <2>2. Len(routes[k]) - 1 \in Int
    BY <1>2
  <2>3. IsFiniteSet(S)
    BY <2>2, FS_Interval
  <2> HIDE DEF f, S, Row
  <2> QED BY <2>1, <2>3, ImageFinite
<1>4. IsFiniteSet(Legs)
  <2> DEFINE S == 1 .. Len(routes)
             f == [k \in S |-> Row(k)]
  <2>1. Rws = {f[k] : k \in S}
    OBVIOUS
  <2>2. Len(routes) \in Int
    BY <1>2
  <2>3. IsFiniteSet(S)
    BY <2>2, FS_Interval
  <2>4. \A T \in Rws : IsFiniteSet(T)
    BY <1>3
  <2> HIDE DEF f, S, Row, Rws
  <2>5. IsFiniteSet(Rws)
    BY <2>1, <2>3, ImageFinite
  <2> QED BY <1>1, <2>4, <2>5, FS_UNION
<1>5. ASSUME NEW leg \in Legs PROVE \E k, i : At(routes, k, i) /\ At(routes, k, i + 1) /\ leg = LegAt(k, i)
  <2>1. PICK k \in 1 .. Len(routes) : leg \in Row(k)
    <3> HIDE DEF Row
    <3> QED BY <1>1
  <2>2. PICK i \in 1 .. Len(routes[k]) - 1 : leg = LegAt(k, i)
    BY <2>1
  <2>3. Len(routes[k]) \in Nat
    BY <1>2
  <2>4. i \in 1 .. Len(routes[k]) /\ i + 1 \in 1 .. Len(routes[k])
    BY <2>3
  <2> QED BY <2>2, <2>4 DEF At
<1> QED BY <1>4, <1>5

LEMMA LegTyped ==
    ASSUME Searching, NEW leg \in Legs
    PROVE  /\ leg[1] \in 1 .. K /\ leg[2] \in StopSet /\ leg[3] \in StopSet
           /\ leg[2].node \in Nodes /\ leg[3].node \in Nodes
           /\ LegFits(leg[1], leg[2], leg[3])
           /\ LegSeconds(leg) \in Nat
           /\ LegSeconds(leg) <= ArcSeconds(leg[1], leg[2].node, leg[3].node, Restrictions(leg[1]))
<1>1. PICK k, i : At(routes, k, i) /\ At(routes, k, i + 1) /\ leg = LegAt(k, i)
  BY LegsAre
<1>2. leg[1] = k /\ leg[2] = routes[k][i] /\ leg[3] = routes[k][i + 1]
  BY <1>1 DEF LegAt
<1>3. k \in 1 .. K /\ routes[k][i] \in StopSet /\ routes[k][i + 1] \in StopSet
  <2>1. routes \in Seq(Seq(StopSet)) /\ Len(routes) <= K /\ K \in Nat
    BY TasksFacts DEF Searching, RoutesOk, RoutesTypedOk
  <2>2. k \in 1 .. K /\ routes[k] \in Seq(StopSet)
    BY <1>1, <2>1 DEF At
  <2> QED BY <1>1, <2>2 DEF At
<1>4. LegFits(k, routes[k][i], routes[k][i + 1])
  BY <1>1 DEF Searching, RoutesOk, LegsOk
<1>5. routes[k][i].node \in Nodes /\ routes[k][i + 1].node \in Nodes
  BY <1>3 DEF StopSet
<1> DEFINE R == ActivePolygons(Restrictions(k), leg[2].at + Service(k, leg[2].node), leg[3].at)
<1>6. R \in SUBSET Restrictions(k)
  BY DEF ActivePolygons
<1>7. LegSeconds(leg) = ArcSeconds(k, leg[2].node, leg[3].node, R)
  BY <1>2 DEF LegSeconds
<1> HIDE DEF R
<1>8. LegSeconds(leg) \in Nat /\ LegSeconds(leg) <= ArcSeconds(k, leg[2].node, leg[3].node, Restrictions(k))
  BY <1>2, <1>3, <1>5, <1>6, <1>7, PricesTyped DEF Searching
<1> QED BY <1>2, <1>3, <1>4, <1>5, <1>8

\* An arc the refinement prices anew gets dearer.
LEMMA ActivatedIs ==
    ASSUME Searching, NEW a \in DOMAIN Activated
    PROVE  Activated[a] \in Nat /\ Activated[a] >= Seconds(a[1], a[2], a[3]) /\ a \in (1 .. K) \X Nodes \X Nodes
<1> DEFINE hot == {leg \in Legs : LegSeconds(leg) > Seconds(leg[1], leg[2].node, leg[3].node)}
           arc(leg) == <<leg[1], leg[2].node, leg[3].node>>
           S(x) == {leg \in {g \in hot : arc(g) = x} : TRUE}
           T == {LegSeconds(leg) : leg \in {g \in hot : arc(g) = a}}
<1>1. DOMAIN Activated = {arc(leg) : leg \in hot} /\ Activated[a] = Max(T)
  BY DEF Activated
<1>2. PICK g \in hot : a = arc(g)
  BY <1>1
<1>3. IsFiniteSet(T)
  <2> DEFINE G == {l \in hot : arc(l) = a}
             f == [l \in G |-> LegSeconds(l)]
  <2>1. T = {f[l] : l \in G}
    OBVIOUS
  <2>2. G \in SUBSET Legs /\ IsFiniteSet(Legs)
    BY LegsAre
  <2> HIDE DEF f, G, T
  <2>3. IsFiniteSet(G)
    BY <2>2, FS_Subset
  <2> QED BY <2>1, <2>3, ImageFinite
<1>4. T \in SUBSET Nat
  BY LegTyped
<1>5. LegSeconds(g) \in T /\ LegSeconds(g) > Seconds(g[1], g[2].node, g[3].node) /\ g \in Legs
  BY <1>2
<1>6. a[1] = g[1] /\ a[2] = g[2].node /\ a[3] = g[3].node /\ a = <<g[1], g[2].node, g[3].node>>
  BY <1>2
<1>7. g[1] \in 1 .. K /\ g[2].node \in Nodes /\ g[3].node \in Nodes
  BY <1>5, LegTyped
<1>8. Seconds(a[1], a[2], a[3]) \in Nat
  BY <1>6, <1>7, PricesTyped DEF Searching
<1> HIDE DEF T
<1>9. Max(T) \in T /\ Max(T) \in Int /\ \A y \in T : Max(T) >= y
  <2>1. T \in SUBSET Int /\ T # {}
    BY <1>4, <1>5
  <2> QED BY <1>3, <2>1, MaxIs
<1>10. Max(T) >= LegSeconds(g) /\ LegSeconds(g) \in Nat /\ Max(T) \in Nat
  BY <1>4, <1>5, <1>9
<1>11. Max(T) >= Seconds(a[1], a[2], a[3])
  BY <1>5, <1>6, <1>8, <1>10
<1>12. a \in (1 .. K) \X Nodes \X Nodes
  BY <1>6, <1>7
<1> QED BY <1>1, <1>10, <1>11, <1>12

-----------------------------------------------------------------------------
(* Refinement *)

Every(a) == ArcSeconds(a[1], a[2], a[3], Restrictions(a[1]))
Arcs == (1 .. K) \X Nodes \X Nodes

LEMMA AllTimedIs ==
    /\ DOMAIN AllTimed = {a \in Arcs : a[2] # a[3] /\ Every(a) > Seconds(a[1], a[2], a[3])}
    /\ \A a \in DOMAIN AllTimed : AllTimed[a] = Every(a)
BY Zenon DEF AllTimed, Every, Arcs

\* What the overrides of the next round are made of.
Refined(o) ==
    \/ Laid(o, Activated, overrides) /\ round < MaxRefinements
    \/ \E h : Laid(h, Activated, overrides) /\ Laid(o, AllTimed, h) /\ round >= MaxRefinements
LEMMA NextOverridesIs ==
    ASSUME round \in Nat
    PROVE  Refined(NextOverrides)
<1>1. Laid(Over(Activated, overrides), Activated, overrides)
  BY OverIs
<1>2. Laid(Over(AllTimed, Over(Activated, overrides)), AllTimed, Over(Activated, overrides))
  BY OverIs
<1>3. MaxRefinements \in Nat
  BY LimitsAssumption
<1>4. CASE round >= MaxRefinements
  BY <1>1, <1>2, <1>4 DEF Refined, NextOverrides
<1>5. CASE round < MaxRefinements
  <2>1. ~(round >= MaxRefinements)
    BY <1>3, <1>5
  <2> QED BY <1>1, <1>5, <2>1 DEF Refined, NextOverrides
<1> QED BY <1>3, <1>4, <1>5

LEMMA RefinedTyped ==
    ASSUME Searching, round \in Nat, NEW o, Refined(o)
    PROVE  \A a \in DOMAIN o : o[a] \in Nat
<1>1. ASSUME NEW h, Laid(h, Activated, overrides), NEW a \in DOMAIN h PROVE h[a] \in Nat
  <2>1. CASE a \in DOMAIN Activated
    BY <1>1, <2>1, ActivatedIs DEF Laid
  <2>2. CASE a \notin DOMAIN Activated
    BY <1>1, <2>2 DEF Laid, Searching, OverridesOk
  <2> QED BY <2>1, <2>2
<1>2. ASSUME NEW a \in DOMAIN AllTimed PROVE AllTimed[a] \in Nat
  <2>1. a \in Arcs /\ AllTimed[a] = Every(a)
    BY <1>2, AllTimedIs
  <2>2. a[1] \in 1 .. K /\ a[2] \in Nodes /\ a[3] \in Nodes
    BY <2>1 DEF Arcs
  <2>3. Every(a) \in Nat
    BY <2>2, PricesTyped DEF Every, Searching
  <2> QED BY <2>1, <2>3
<1>3. ASSUME NEW h, Laid(h, Activated, overrides), Laid(o, AllTimed, h), NEW a \in DOMAIN o PROVE o[a] \in Nat
  <2>1. CASE a \in DOMAIN AllTimed
    BY <1>2, <1>3, <2>1 DEF Laid
  <2>2. CASE a \notin DOMAIN AllTimed
    <3>1. a \in DOMAIN h /\ o[a] = h[a]
      BY <1>3, <2>2 DEF Laid
    <3> QED BY <1>1, <1>3, <3>1
  <2> QED BY <2>1, <2>2
<1> QED BY <1>1, <1>3 DEF Refined

PriceWith(o, a) == IF a \in DOMAIN o THEN o[a] ELSE ArcSeconds(a[1], a[2], a[3], Unconditional(Restrictions(a[1])))
LEMMA RefinedPriced ==
    ASSUME Searching, round \in Nat, round >= MaxRefinements, NEW o, Refined(o), NEW a \in Arcs, a[2] # a[3]
    PROVE  PriceWith(o, a) >= Every(a)
<1>1. PICK h : Laid(h, Activated, overrides) /\ Laid(o, AllTimed, h)
  BY LimitsAssumption DEF Refined
<1>2. a[1] \in 1 .. K /\ a[2] \in Nodes /\ a[3] \in Nodes /\ a = <<a[1], a[2], a[3]>>
  BY DEF Arcs
<1>3. Every(a) \in Nat /\ Seconds(a[1], a[2], a[3]) \in Nat
  BY <1>2, PricesTyped DEF Every, Searching
<1>4. CASE a \in DOMAIN AllTimed
  <2>1. a \in DOMAIN o /\ o[a] = Every(a)
    BY <1>1, <1>4, AllTimedIs DEF Laid
  <2> QED BY <1>3, <2>1 DEF PriceWith
<1>5. CASE a \notin DOMAIN AllTimed
  <2>1. Seconds(a[1], a[2], a[3]) >= Every(a)
    BY <1>3, <1>5, AllTimedIs
  <2>2. CASE a \in DOMAIN Activated
    <3>1. a \in DOMAIN o /\ o[a] = Activated[a]
      BY <1>1, <1>5, <2>2 DEF Laid
    <3>2. Activated[a] \in Nat /\ Activated[a] >= Seconds(a[1], a[2], a[3])
      BY <2>2, ActivatedIs
    <3> QED BY <1>3, <2>1, <3>1, <3>2 DEF PriceWith
  <2>3. CASE a \notin DOMAIN Activated /\ a \in DOMAIN overrides
    <3>1. a \in DOMAIN o /\ o[a] = overrides[a]
      BY <1>1, <1>5, <2>3 DEF Laid
    <3>2. Seconds(a[1], a[2], a[3]) = overrides[a]
      BY <1>2, <2>3 DEF Seconds
    <3> QED BY <2>1, <3>1, <3>2 DEF PriceWith
  <2>4. CASE a \notin DOMAIN Activated /\ a \notin DOMAIN overrides
    <3>1. a \notin DOMAIN o
      BY <1>1, <1>5, <2>4 DEF Laid
    <3>2. Seconds(a[1], a[2], a[3]) = ArcSeconds(a[1], a[2], a[3], Unconditional(Restrictions(a[1])))
      BY <1>2, <2>4 DEF Seconds
    <3> QED BY <2>1, <3>1, <3>2 DEF PriceWith
  <2> QED BY <2>2, <2>3, <2>4
<1> QED BY <1>4, <1>5

LEMMA RoutesDropped ==
    ASSUME routes' = <<>>
    PROVE  RoutesOk(routes)'
<1>1. <<>> \in Seq(Seq(StopSet'))
  OBVIOUS
<1>2. K' \in Nat /\ Len(<<>>) = 0
  BY DEF K
<1>3. \A k, i : ~At(<<>>, k, i)
  BY DEF At
<1>4. \A k, i : ~At(routes, k, i)'
  BY <1>3 DEF At
<1>5. RoutesTypedOk(routes)'
  BY <1>1, <1>2 DEF RoutesTypedOk
<1>6. StopsOk(routes)' /\ LegsOk(routes)' /\ NodesOnce(routes)' /\ CrewsFree(routes)'
  BY <1>4 DEF StopsOk, LegsOk, NodesOnce, CrewsFree
<1>7. PickedUp(routes)'
  BY <1>4 DEF PickedUp
<1> QED BY <1>5, <1>6, <1>7 DEF RoutesOk

\* After the refinement the prices are natural numbers again, and in the final
\* pass they cover every timed restriction of every arc.
LEMMA RefineOk ==
    ASSUME Routed, round \in Nat, Refine, UNCHANGED networkVars
    PROVE  Routed'
<1>1. UNCHANGED Frame /\ routes' = <<>> /\ overrides' = NextOverrides /\ final' = (round >= MaxRefinements)
  BY DEF Refine, Frame
<1>2. Searching /\ Ready
  BY DEF Routed, Searching
<1>3. Ready'
  BY <1>1, <1>2, FrameReady
<1>4. Refined(overrides')
  BY <1>1, NextOverridesIs
<1>5. OverridesOk'
  BY <1>2, <1>4, RefinedTyped DEF OverridesOk
<1>6. RoutesOk(routes)'
  BY <1>1, RoutesDropped DEF Frame
<1>7. ASSUME final' PROVE AllPriced'
  <2>1. round >= MaxRefinements
    BY <1>1, <1>7
  <2>2. K' = K /\ Nodes' = Nodes
    BY <1>1, FrameLoads DEF Frame, K
  <2>3. /\ \A k : Restrictions(k)' = Restrictions(k)
        /\ \A k, n, m, R : ArcSeconds(k, n, m, R)' = ArcSeconds(k, n, m, R)
    BY <1>1, FrameRoads
  <2>4. \A k, n, m : ArcSeconds(k, n, m, Restrictions(k))' = ArcSeconds(k, n, m, Restrictions(k))
    BY <2>3
  <2>5. \A k, n, m : Seconds(k, n, m)' = PriceWith(overrides', <<k, n, m>>)
    BY <2>3 DEF Seconds, PriceWith
  <2>6. \A k \in 1 .. K, n, m \in Nodes : n # m => PriceWith(overrides', <<k, n, m>>) >= Every(<<k, n, m>>)
    <3> SUFFICES ASSUME NEW k \in 1 .. K, NEW n \in Nodes, NEW m \in Nodes, n # m
                 PROVE  PriceWith(overrides', <<k, n, m>>) >= Every(<<k, n, m>>)
      OBVIOUS
    <3>1. <<k, n, m>> \in Arcs /\ <<k, n, m>>[2] # <<k, n, m>>[3]
      BY DEF Arcs
    <3> QED BY <1>2, <1>4, <2>1, <3>1, RefinedPriced
  <2>7. \A k, n, m : Every(<<k, n, m>>) = ArcSeconds(k, n, m, Restrictions(k))
    BY DEF Every
  <2>8. \A k \in 1 .. K, n, m \in Nodes : n # m => Seconds(k, n, m)' >= ArcSeconds(k, n, m, Restrictions(k))'
    BY <2>4, <2>5, <2>6, <2>7
  <2>9. \A k \in 1 .. K', n, m \in Nodes' : n # m => Seconds(k, n, m)' >= ArcSeconds(k, n, m, Restrictions(k))'
    BY <2>2, <2>8
  <2> QED BY ONLY <2>9 DEF AllPriced
<1> QED BY <1>3, <1>5, <1>6, <1>7 DEF Routed, Searching

-----------------------------------------------------------------------------
(* What holds all through a solve *)

Idle == routes = <<>> /\ packages = {} /\ DOMAIN overrides = {} /\ ~final /\ ~improved
AllClosed == Len(routes) = K /\ \A k \in 1 .. K : Closed(routes[k])
Abandoned == routes = <<>> /\ packages = {} /\ ToSet(Known(inp, cluster)) \subseteq ToSet(infeasible)
Dispatched ==
    /\ Routed /\ AllClosed
    /\ packages = Dispatch /\ infeasible = Reported
    /\ ~improved /\ ~Expandable => (final \/ DOMAIN Activated = {})

SolvePhases ==
    /\ pc \in {"cluster", "allocate", "prepare", "search", "improve", "done"}
    /\ pc \in {"cluster", "allocate", "prepare"} => Idle
    /\ pc = "prepare" => cluster \in Clusters(inp)
    /\ pc = "search" => (Routed /\ packages = {} /\ ~improved)
    /\ pc = "improve" => (Routed /\ packages = {} /\ improved /\ ~Expandable)
    /\ pc = "done" => (Abandoned \/ Dispatched)
SolveInv == DivisionInv /\ round \in Nat /\ SolvePhases

LEMMA RoutedKept ==
    ASSUME Routed, UNCHANGED <<Frame, overrides, final>>, RoutesOk(routes)'
    PROVE  Routed'
<1>1. UNCHANGED Frame /\ UNCHANGED <<Frame, overrides>> /\ final' = final /\ overrides' = overrides
  BY DEF Frame
<1>2. Ready'
  BY <1>1, FrameReady DEF Routed, Searching
<1>3. OverridesOk'
  BY <1>1 DEF Routed, Searching, OverridesOk
<1>4. ASSUME AllPriced PROVE AllPriced'
  <2>1. K' = K /\ Nodes' = Nodes
    BY <1>1, FrameLoads DEF Frame, K
  <2>2. \A k, n, m : Seconds(k, n, m)' = Seconds(k, n, m)
    BY <1>1, FrameSeconds
  <2>3. \A k, n, m : ArcSeconds(k, n, m, Restrictions(k))' = ArcSeconds(k, n, m, Restrictions(k))
    BY <1>1, FrameRoads
  <2>4. \A k \in 1 .. K', n, m \in Nodes' : n # m => Seconds(k, n, m)' >= ArcSeconds(k, n, m, Restrictions(k))'
    BY <1>4, <2>1, <2>2, <2>3 DEF AllPriced
  <2> QED BY ONLY <2>4 DEF AllPriced
<1> QED BY <1>1, <1>2, <1>3, <1>4 DEF Routed, Searching

LEMMA SameRoutes ==
    ASSUME Routed, UNCHANGED <<Frame, overrides, final, routes>>
    PROVE  Routed' /\ Dispatch' = Dispatch /\ Reported' = Reported /\ AllClosed' = AllClosed
           /\ Expandable' = Expandable /\ DOMAIN Activated' = DOMAIN Activated
<1>1. /\ UNCHANGED Frame /\ UNCHANGED <<Frame, overrides>> /\ UNCHANGED <<Frame, routes>>
      /\ UNCHANGED <<Frame, overrides, routes>> /\ UNCHANGED <<Frame, overrides, final>> /\ routes' = routes
  BY DEF Frame
<1>2. RoutesOk(routes')
  BY <1>1 DEF Routed, Searching
<1>3. RoutesOk(routes)'
  BY <1>1, <1>2, FrameRoutes
<1>4. Routed'
  BY <1>1, <1>3, RoutedKept
<1>5. Dispatch' = Dispatch /\ DOMAIN Activated' = DOMAIN Activated
  BY <1>1, FrameDispatch
<1>6. Reported' = Reported
  BY <1>1, FrameStops
<1>7. Expandable' = Expandable
  BY <1>1, FrameLoads
<1>8. AllClosed' = AllClosed
  BY <1>1 DEF AllClosed, Closed, K, Frame, Depot
<1> QED BY <1>4, <1>5, <1>6, <1>7, <1>8

\* A step of the search.
LEMMA ExtendKeeps ==
    ASSUME Routed, NEW rs, Extend(rs), UNCHANGED networkVars, RoutesOk(routes')
    PROVE  Routed'
<1>1. UNCHANGED <<Frame, overrides, final>> /\ UNCHANGED <<Frame, overrides>>
  BY DEF Extend, Frame
<1>2. RoutesOk(routes)'
  BY <1>1, FrameRoutes
<1> QED BY <1>1, <1>2, RoutedKept

SearchStep ==
    \/ ~Expandable /\ (SkipVehicle \/ OpenRoute \/ Visit \/ CloseRoute)
    \/ Expandable /\ (ExpandedOpen \/ ExpandedVisit \/ ExpandedClose)
LEMMA SearchKeeps ==
    ASSUME Routed, SearchStep, UNCHANGED networkVars
    PROVE  Routed'
<1>1. Searching
  BY DEF Routed
<1>2. RoutesOk(routes')
  BY <1>1, SkipOk, OpenOk, VisitOk, CloseOk, ExpandedOpenOk, ExpandedStepsOk DEF SearchStep
<1>3. \E rs : Extend(rs)
  BY DEF SearchStep, SkipVehicle, OpenRoute, Visit, CloseRoute, ExpandedOpen, ExpandedVisit, ExpandedClose
<1> QED BY <1>2, <1>3, ExtendKeeps

LEMMA SolveInit == Init => SolveInv
<1> SUFFICES ASSUME Init PROVE SolveInv
  OBVIOUS
<1>1. DivisionInv
  BY DivisionInit
<1>2. pc = "cluster" /\ routes = <<>> /\ packages = {} /\ overrides = <<>> /\ ~final /\ ~improved /\ round = 0
  BY DEF Init
<1>3. DOMAIN overrides = {}
  BY <1>2
<1> QED BY <1>1, <1>2, <1>3 DEF SolveInv, SolvePhases, Idle

LEMMA PrepareKeeps ==
    ASSUME DivisionInv, NetworkReady, cluster \in Clusters(inp), Idle, Prepare, UNCHANGED networkVars
    PROVE  IF pc' = "done" THEN Abandoned' ELSE pc' = "search" /\ Routed' /\ packages' = {} /\ ~improved'
<1>1. Prepared(inp, cluster, bundles', orders', preInf')
  BY PrepareFacts
<1>2. /\ UNCHANGED <<inp, alloc, crew, cluster, overrides, round, final, routes, improved, packages>>
      /\ pc = "prepare" /\ pc' = IF orders' = <<>> THEN "done" ELSE "search"
      /\ infeasible' = IF orders' = <<>> THEN preInf' ELSE <<>>
  BY DEF Prepare
<1>3. CASE orders' = <<>>
  <2>1. ToSet(orders') = {} /\ ToSet(preInf') = ToSet(Known(inp, cluster)) /\ infeasible' = preInf'
    <3>1. ToSet(orders') = {}
      BY <1>3 DEF ToSet
    <3> QED BY <1>1, <1>2, <1>3, <3>1 DEF Prepared
  <2>2. Known(inp, cluster)' = Known(inp, cluster)
    BY <1>2
  <2> QED BY <1>2, <1>3, <2>1, <2>2 DEF Abandoned, Idle
<1>4. CASE orders' # <<>>
  <2>1. pc' = "search" /\ packages' = {} /\ ~improved' /\ routes' = <<>> /\ DOMAIN overrides' = {} /\ ~final'
    BY <1>2, <1>4 DEF Idle
  <2>2. RoutesOk(routes)'
    BY <2>1, RoutesDropped
  <2>3. OverridesOk'
    BY <2>1 DEF OverridesOk
  <2>4. NetInv'
    BY NetInvSame DEF DivisionInv, RowsInv
  <2>5. NetworkReady'
    BY DEF NetworkReady, networkVars
  <2>6. Divisible(inp) /\ Crews(inp, crew)
    BY <1>2 DEF DivisionInv, RowsInv, ClustersOk, HeldOnce, Divisible
  <2>7. Divisible(inp)' /\ Crews(inp, crew)' /\ Prepared(inp, cluster, bundles, orders, preInf)'
    BY <1>1, <1>2, <2>6
  <2>8. Ready'
    BY <2>4, <2>5, <2>7 DEF Ready
  <2> QED BY <2>1, <2>2, <2>3, <2>8 DEF Routed, Searching
<1> QED BY <1>3, <1>4

LEMMA ReportedKnown ==
    ASSUME Divisible(inp), cluster \in Clusters(inp)
    PROVE  ToSet(Known(inp, cluster)) \subseteq ToSet(inp.clusters[cluster])
BY KnownFacts

LEMMA NoSolutionKeeps ==
    ASSUME Routed, packages = {}, NoSolution
    PROVE  Abandoned'
<1>1. /\ UNCHANGED <<inp, cluster, preInf, routes, packages>> /\ routes = <<>>
      /\ infeasible' = preInf \o inp.clusters[cluster]
  BY DEF NoSolution
<1>2. Divisible(inp) /\ cluster \in Clusters(inp) /\ preInf \in Seq(inp.known)
  BY DEF Routed, Searching, Ready, Prepared
<1>3. inp.clusters[cluster] \in Seq(Ids(inp))
  BY <1>2, KnownFacts
<1>4. ToSet(inp.clusters[cluster]) \subseteq ToSet(infeasible')
  <2> DEFINE p == preInf  q == inp.clusters[cluster]
  <2>1. p \in Seq(inp.known) /\ q \in Seq(Ids(inp)) /\ infeasible' = p \o q
    BY <1>1, <1>2, <1>3
  <2> HIDE DEF p, q
  <2>2. \A i \in 1 .. Len(q) : Len(p) + i \in 1 .. Len(infeasible') /\ infeasible'[Len(p) + i] = q[i]
    BY <2>1
  <2>3. DOMAIN q = 1 .. Len(q) /\ DOMAIN infeasible' = 1 .. Len(infeasible')
    BY <2>1
  <2>4. ToSet(q) \subseteq ToSet(infeasible')
    BY <2>2, <2>3 DEF ToSet
  <2> QED BY <2>4 DEF q
<1>5. ToSet(Known(inp, cluster)) \subseteq ToSet(infeasible')
  BY <1>2, <1>4, ReportedKnown
<1>6. Known(inp, cluster)' = Known(inp, cluster)
  BY <1>1
<1> QED BY <1>1, <1>5, <1>6 DEF Abandoned

LEMMA ExtractKeeps ==
    ASSUME Routed, UNCHANGED networkVars,
           \/ Extract /\ ~Expandable /\ (pc = "search" => ~improved) /\ (pc = "improve" => improved)
           \/ ExpandedExtract
    PROVE  Dispatched'
<1>1. UNCHANGED <<Frame, overrides, final, routes>> /\ K \in Nat \ {0} /\ improved' = improved
  BY TasksFacts DEF Extract, ExpandedExtract, Frame, Routed, Searching
<1>2. /\ Routed' /\ Dispatch' = Dispatch /\ Reported' = Reported /\ AllClosed' = AllClosed
      /\ Expandable' = Expandable /\ DOMAIN Activated' = DOMAIN Activated
  BY <1>1, SameRoutes
<1>3. CASE Extract /\ ~Expandable /\ (pc = "search" => ~improved) /\ (pc = "improve" => improved)
  <2>1. Complete /\ packages' = Packages /\ infeasible' = Reported
    BY <1>3 DEF Extract, Settled
  <2>2. ~improved => (final \/ DOMAIN Activated = {})
    BY <1>3 DEF Extract, Settled
  <2>3. AllClosed
    BY <2>1 DEF Complete, AllClosed
  <2>4. final' = final
    BY <1>1
  <2> QED BY <1>1, <1>2, <1>3, <2>1, <2>2, <2>3, <2>4 DEF Dispatched, Dispatch
<1>4. CASE ExpandedExtract
  <2>1. Expandable /\ routes # <<>> /\ Closed(routes[1]) /\ packages' = ExpandedPackages /\ infeasible' = Reported
    BY <1>4 DEF ExpandedExtract, Expands, ExpandedPackages
  <2>2. K = 1 /\ Len(routes) = 1
    BY <2>1, ExpandedOne DEF Routed
  <2>3. AllClosed
    BY <2>1, <2>2 DEF AllClosed
  <2> QED BY <1>2, <2>1, <2>3 DEF Dispatched, Dispatch
<1> QED BY <1>3, <1>4

\* What a step of the solve is, with the guards of its kind of search.
Taken ==
    \/ BuildClusters \/ AllocateGlobal \/ AllocateGreedy \/ RejectCluster \/ Prepare
    \/ SearchStep
    \/ NoSolution
    \/ ~Expands /\ (Refine \/ Improve \/ Extract)
    \/ ExpandedExtract
LEMMA TakenIs ==
    ASSUME Solve, pc = "improve" => ~Expandable
    PROVE  Taken
<1>1. CASE ~Expands /\ SolveStep
  <2>1. CASE SkipVehicle \/ OpenRoute \/ Visit \/ CloseRoute
    <3>1. pc \in {"search", "improve"}
      BY <2>1 DEF SkipVehicle, OpenRoute, Visit, CloseRoute, Extend
    <3>2. ~Expandable
      BY <1>1, <3>1 DEF Expands
    <3> QED BY <2>1, <3>2 DEF Taken, SearchStep
  <2> QED BY <1>1, <2>1 DEF SolveStep, Taken
<1>2. CASE ExpandedOpen \/ ExpandedVisit \/ ExpandedClose
  <2>1. Expandable
    BY <1>2 DEF ExpandedOpen, ExpandedVisit, ExpandedClose, Expands
  <2> QED BY <1>2, <2>1 DEF Taken, SearchStep
<1>3. CASE ExpandedFails \/ ExpandedExtract
  BY <1>3 DEF Taken, ExpandedFails
<1> QED BY <1>1, <1>2, <1>3 DEF Solve

LEMMA PhasesStep ==
    ASSUME DivisionInv, round \in Nat, SolvePhases, Solve
    PROVE  SolvePhases' /\ round' \in Nat
<1>1. NetworkReady /\ UNCHANGED networkVars
  BY DEF Solve
<1>2. Taken
  BY TakenIs DEF SolvePhases
<1>3. CASE BuildClusters
  BY <1>3 DEF BuildClusters, SolvePhases, Idle
<1>4. CASE AllocateGlobal \/ AllocateGreedy
  <2>1. /\ pc = "allocate" /\ pc' = "prepare" /\ inp' = inp /\ \E c \in 1 .. Len(inp.clusters) : cluster' = c
        /\ UNCHANGED <<routes, packages, overrides, final, improved, round>>
    BY <1>4 DEF AllocateGlobal, AllocateGreedy
  <2>2. (cluster \in Clusters(inp))'
    BY <2>1 DEF Clusters
  <2>3. Idle'
    BY <2>1 DEF SolvePhases, Idle
  <2> QED BY <2>1, <2>2, <2>3 DEF SolvePhases
<1>5. CASE RejectCluster
  <2>1. /\ pc = "prepare" /\ pc' = "done" /\ infeasible' = inp.clusters[cluster]
        /\ UNCHANGED <<inp, cluster, routes, packages, round>>
    BY <1>5 DEF RejectCluster
  <2>2. Idle /\ cluster \in Clusters(inp) /\ Divisible(inp)
    BY <2>1 DEF SolvePhases, DivisionInv, RowsInv, ClustersOk, Divisible
  <2>3. ToSet(Known(inp, cluster)) \subseteq ToSet(inp.clusters[cluster])
    BY <2>2, ReportedKnown
  <2>4. Known(inp, cluster)' = Known(inp, cluster)
    BY <2>1
  <2>5. Abandoned'
    BY <2>1, <2>2, <2>3, <2>4 DEF Abandoned, Idle
  <2> QED BY <2>1, <2>5 DEF SolvePhases
<1>6. CASE Prepare
  <2>1. pc = "prepare" /\ round' = round /\ pc' \in {"done", "search"}
    BY <1>6 DEF Prepare
  <2>2. cluster \in Clusters(inp) /\ Idle
    BY <2>1 DEF SolvePhases
  <2>3. IF pc' = "done" THEN Abandoned' ELSE pc' = "search" /\ Routed' /\ packages' = {} /\ ~improved'
    BY <1>1, <1>6, <2>2, PrepareKeeps
  <2> QED BY <2>1, <2>3 DEF SolvePhases
<1>7. CASE SearchStep
  <2>1. \E rs : Extend(rs)
    BY <1>7 DEF SearchStep, SkipVehicle, OpenRoute, Visit, CloseRoute, ExpandedOpen, ExpandedVisit, ExpandedClose
  <2>2. /\ pc \in {"search", "improve"} /\ UNCHANGED <<pc, packages, improved, round>>
        /\ UNCHANGED Frame
    BY <1>1, <2>1 DEF Extend, Frame
  <2>3. Routed
    BY <2>2 DEF SolvePhases
  <2>4. Routed'
    BY <1>1, <1>7, <2>3, SearchKeeps
  <2>5. Expandable' = Expandable
    BY <2>2, FrameLoads
  <2> QED BY <2>2, <2>4, <2>5 DEF SolvePhases
<1>8. CASE NoSolution
  <2>1. pc = "search" /\ pc' = "done" /\ round' = round
    BY <1>8 DEF NoSolution
  <2>2. Abandoned'
    BY <1>8, <2>1, NoSolutionKeeps DEF SolvePhases
  <2> QED BY <2>1, <2>2 DEF SolvePhases
<1>9. CASE ~Expands /\ Refine
  <2>1. pc = "search" /\ UNCHANGED <<pc, packages, improved>> /\ round' \in Nat
    BY <1>9 DEF Refine
  <2>2. Routed'
    BY <1>1, <1>9, <2>1, RefineOk DEF SolvePhases
  <2> QED BY <2>1, <2>2 DEF SolvePhases
<1>10. CASE ~Expands /\ Improve
  <2>1. /\ pc = "search" /\ pc' = "improve" /\ UNCHANGED <<packages, round>> /\ improved' /\ routes' = <<>>
        /\ UNCHANGED <<Frame, overrides, final>> /\ UNCHANGED Frame
    BY <1>1, <1>10 DEF Improve, Settled, Frame
  <2>2. RoutesOk(routes)'
    BY <2>1, RoutesDropped
  <2>3. Routed'
    BY <2>1, <2>2, RoutedKept DEF SolvePhases
  <2>4. ~Expandable /\ Expandable' = Expandable
    BY <1>10, <2>1, FrameLoads DEF Expands
  <2> QED BY <2>1, <2>3, <2>4 DEF SolvePhases
<1>11. CASE (~Expands /\ Extract) \/ ExpandedExtract
  <2>1. pc \in {"search", "improve"} /\ pc' = "done" /\ round' = round
    BY <1>11 DEF Extract, ExpandedExtract, Expands, Settled
  <2>2. \/ Extract /\ ~Expandable /\ (pc = "search" => ~improved) /\ (pc = "improve" => improved)
        \/ ExpandedExtract
    BY <1>11, <2>1 DEF Expands, SolvePhases
  <2>3. Dispatched'
    BY <1>1, <2>1, <2>2, ExtractKeeps DEF SolvePhases
  <2> QED BY <2>1, <2>3 DEF SolvePhases
<1> QED BY <1>2, <1>3, <1>4, <1>5, <1>6, <1>7, <1>8, <1>9, <1>10, <1>11 DEF Taken

LEMMA PhasesKept ==
    ASSUME SolvePhases, UNCHANGED routingVars, UNCHANGED networkVars \/ ~NetworkReady
    PROVE  SolvePhases'
<1>1. /\ UNCHANGED <<pc, inp, cluster, routes, packages, overrides, final, improved, infeasible>>
      /\ UNCHANGED networkVars => (UNCHANGED <<Frame, overrides, final, routes>> /\ UNCHANGED Frame)
  BY DEF routingVars, Frame
<1>2. Idle' = Idle
  BY <1>1 DEF Idle
<1>3. Abandoned' = Abandoned
  BY <1>1 DEF Abandoned
<1>4. ASSUME Routed PROVE Routed' /\ (Dispatched => Dispatched') /\ Expandable' = Expandable
  <2>1. UNCHANGED networkVars
    BY <1>4 DEF Routed, Searching, Ready
  <2>2. UNCHANGED <<Frame, overrides, final, routes>>
    BY <1>1, <2>1
  <2>3. /\ Routed' /\ Dispatch' = Dispatch /\ Reported' = Reported /\ AllClosed' = AllClosed
        /\ Expandable' = Expandable /\ DOMAIN Activated' = DOMAIN Activated
    BY <1>4, <2>2, SameRoutes
  <2> QED BY <1>1, <2>3 DEF Dispatched
<1>5. Dispatched => Routed
  BY DEF Dispatched
<1>6. CASE pc \in {"cluster", "allocate", "prepare"}
  BY <1>1, <1>2, <1>6 DEF SolvePhases, Clusters
<1>7. CASE pc \in {"search", "improve"}
  <2>1. Routed
    BY <1>7 DEF SolvePhases
  <2> QED BY <1>1, <1>4, <1>7, <2>1 DEF SolvePhases
<1>8. CASE pc = "done"
  BY <1>1, <1>3, <1>4, <1>5, <1>8 DEF SolvePhases
<1> QED BY <1>6, <1>7, <1>8 DEF SolvePhases

LEMMA SolveNext == SolveInv /\ [RoutingNext]_vars => SolveInv'
<1> SUFFICES ASSUME SolveInv, [RoutingNext]_vars PROVE SolveInv'
  OBVIOUS
<1>1. DivisionInv /\ round \in Nat /\ SolvePhases
  BY DEF SolveInv
<1>2. DivisionInv'
  BY <1>1, DivisionStep
<1>3. CASE BuildTravelTimes
  BY <1>1, <1>2, <1>3, PhasesKept DEF SolveInv, BuildTravelTimes, routingVars
<1>4. CASE Solve
  BY <1>1, <1>2, <1>4, PhasesStep DEF SolveInv
<1>5. CASE UNCHANGED vars
  BY <1>1, <1>2, <1>5, PhasesKept DEF SolveInv, vars, routingVars
<1> QED BY <1>3, <1>4, <1>5 DEF RoutingNext

-----------------------------------------------------------------------------
(* The packages of a dispatched cluster *)

Legstart(k, i) ==
    LET earlier == {j \in 1 .. i - 1 : routes[k][j].node[1] = "task"}
    IN IF earlier = {} THEN 1 ELSE Max(earlier)
Drive(k, i) ==
    Total([j \in Legstart(k, i) .. i - 1 |-> Pace(k, routes[k][j], routes[k][j + 1].node)])
PackageAt(k, i) ==
    [task |-> routes[k][i].node[2], bundle |-> bundles[k], operator |-> OperatorOf(routes[k][i].node[2]),
     start |-> routes[k][i].at, finish |-> EndOf(k, routes[k][i]), travel |-> Drive(k, i)]

\* Package p is made for stop i of route k.
MadeFor(p, k, i) == /\ At(routes, k, i) /\ routes[k][i].node[1] = "task" /\ p = PackageAt(k, i)

LEMMA StopPlaces ==
    ASSUME Searching, NEW k, NEW i, At(routes, k, i)
    PROVE  /\ k \in 1 .. K /\ i \in 1 .. Len(routes[k]) /\ Len(routes[k]) \in Nat /\ routes[k][i] \in StopSet
           /\ routes[k] \in Seq(StopSet) /\ routes[k][i].node \in Nodes
<1>1. routes \in Seq(Seq(StopSet)) /\ Len(routes) <= K /\ K \in Nat
  BY TasksFacts DEF Searching, RoutesOk, RoutesTypedOk
<1>2. k \in 1 .. K /\ routes[k] \in Seq(StopSet)
  BY <1>1 DEF At
<1>3. routes[k][i] \in StopSet
  BY <1>2 DEF At
<1> QED BY <1>2, <1>3 DEF At, StopSet

LEMMA DispatchIs ==
    ASSUME Searching, NEW p \in Dispatch
    PROVE  \E k, i : MadeFor(p, k, i)
<1>1. CASE ~Expandable
  <2>1. PICK s \in TaskStops : p = [task |-> s.node[2], bundle |-> bundles[s.veh], operator |-> OperatorOf(s.node[2]),
                                    start |-> s.at, finish |-> s.fin, travel |-> TravelIn(s)]
    BY <1>1 DEF Dispatch, Packages
  <2>2. s \in Stops /\ s.node[1] = "task"
    BY DEF TaskStops
  <2>3. PICK k, i : At(routes, k, i) /\ s = StopAt(k, i)
    BY <2>2, StopsAre
  <2>4. s.veh = k /\ s.pos = i /\ s.node = routes[k][i].node /\ s.at = routes[k][i].at /\ s.fin = EndOf(k, routes[k][i])
    BY <2>3, StopsAre
  <2>5. TravelIn(s) = Drive(k, i)
    BY <1>1, <2>4 DEF TravelIn, Drive, Legstart, Pace
  <2> QED BY <2>1, <2>2, <2>3, <2>4, <2>5 DEF MadeFor, PackageAt
<1>2. CASE Expandable
  <2>1. PICK s \in TaskStops : p = [task |-> s.node[2], bundle |-> bundles[1], operator |-> OperatorOf(s.node[2]),
                                    start |-> s.at, finish |-> s.fin, travel |-> ExpandedTravel(s)]
    BY <1>2 DEF Dispatch, ExpandedPackages
  <2>2. s \in Stops /\ s.node[1] = "task"
    BY DEF TaskStops
  <2>3. PICK k, i : At(routes, k, i) /\ s = StopAt(k, i)
    BY <2>2, StopsAre
  <2>4. s.veh = k /\ s.pos = i /\ s.node = routes[k][i].node /\ s.at = routes[k][i].at /\ s.fin = EndOf(k, routes[k][i])
    BY <2>3, StopsAre
  <2>5. k = 1
    <3>1. K = 1
      BY <1>2, ExpandedOne
    <3> QED BY <2>3, <3>1, StopPlaces
  <2>6. ExpandedTravel(s) = Drive(k, i)
    BY <1>2, <2>4, <2>5 DEF ExpandedTravel, Drive, Legstart, Pace
  <2> QED BY <2>1, <2>2, <2>3, <2>4, <2>5, <2>6 DEF MadeFor, PackageAt
<1> QED BY <1>1, <1>2

\* Its parts.
LEMMA MadeIs ==
    ASSUME Searching, NEW p, NEW k, NEW i, MadeFor(p, k, i)
    PROVE  /\ k \in 1 .. K /\ i \in 1 .. Len(routes[k]) /\ routes[k][i] \in StopSet
           /\ p.task = routes[k][i].node[2] /\ p.task \in ToSet(orders)
           /\ p.bundle = bundles[k] /\ p.operator = OperatorOf(p.task)
           /\ p.start = routes[k][i].at /\ p.finish = EndOf(k, routes[k][i]) /\ p.travel = Drive(k, i)
           /\ p.start \in Nat /\ p.finish \in Nat /\ p.start <= p.finish /\ p.start <= Horizon
           /\ Timely(k, p.task, routes[k][i])
<1>1. At(routes, k, i) /\ routes[k][i].node[1] = "task" /\ p = PackageAt(k, i)
  BY DEF MadeFor
<1>2. k \in 1 .. K /\ i \in 1 .. Len(routes[k]) /\ routes[k][i] \in StopSet /\ routes[k][i].node \in Nodes
  BY <1>1, StopPlaces
<1>3. routes[k][i].node[2] \in ToSet(orders)
  BY <1>1, <1>2, NodeKinds
<1>4. /\ p.task = routes[k][i].node[2] /\ p.bundle = bundles[k] /\ p.operator = OperatorOf(p.task)
      /\ p.start = routes[k][i].at /\ p.finish = EndOf(k, routes[k][i]) /\ p.travel = Drive(k, i)
  BY <1>1 DEF PackageAt
<1>5. EndOf(k, routes[k][i]) \in Nat /\ routes[k][i].at \in Nat /\ routes[k][i].at <= Horizon
      /\ routes[k][i].at <= EndOf(k, routes[k][i])
  BY <1>2, EndsTyped DEF Searching
<1>6. StopFits(k, routes[k][i])
  BY <1>1 DEF Searching, RoutesOk, StopsOk
<1>7. Timely(k, p.task, routes[k][i])
  BY <1>1, <1>4, <1>6 DEF StopFits
<1> QED BY <1>2, <1>3, <1>4, <1>5, <1>7

-----------------------------------------------------------------------------
(* Clamped intervals *)

Clamped(w, u, hi) == w = <<Largest(u[1], 0), Smallest(u[2], hi)>>
LEMMA ClampFrom ==
    ASSUME NEW S, NEW hi, NEW w \in Clamp(S, hi)
    PROVE  \E u \in S : Clamped(w, u, hi)
BY DEF Clamp, Clamped

LEMMA ClampTo ==
    ASSUME NEW S, NEW hi, NEW u \in S, Smallest(u[2], hi) >= Largest(u[1], 0)
    PROVE  <<Largest(u[1], 0), Smallest(u[2], hi)>> \in Clamp(S, hi)
BY DEF Clamp

LEMMA PartsOf ==
    ASSUME NEW S \in Spans, NEW u \in S
    PROVE  u[1] \in Int /\ u[2] \in Int /\ u = <<u[1], u[2]>>
BY DEF Spans

LEMMA DeadlineIs ==
    ASSUME Ready, NEW t \in ToSet(orders)
    PROVE  Deadline(t) \in Nat /\ Task(t).windows \in Spans /\ Task(t).blocked \in Spans
<1>1. TaskRow(inp, Task(t))
  BY TasksFacts
<1>2. Task(t).deadline \in Int \cup {None} /\ Task(t).windows \in Spans /\ Task(t).blocked \in Spans
  BY <1>1 DEF TaskRow
<1> QED BY <1>2, LimitsAssumption DEF Deadline, Largest

\* The clamping of the windows loses nothing: a start domain inside them and a
\* finish inside one of them is work inside a window of the task.
LEMMA WindowsKept ==
    ASSUME Ready, NEW t \in ToSet(orders), NEW s \in Nat, NEW d \in Nat,
           StartAllowed(t, s), FinishFits(t, s, d), Task(t).windows # {}
    PROVE  \E u \in Task(t).windows : u[1] <= s /\ s + d <= u[2]
<1> DEFINE W == Clamp(Task(t).windows, Deadline(t))
<1>1. Deadline(t) \in Nat /\ Task(t).windows \in Spans
  BY DeadlineIs
<1>2. W # {}
  BY DEF StartAllowed
<1>3. PICK w \in W : s >= w[1] /\ s + d <= w[2]
  BY <1>2 DEF FinishFits
<1>4. PICK u \in Task(t).windows : Clamped(w, u, Deadline(t))
  BY <1>3, ClampFrom
<1>5. u[1] \in Int /\ u[2] \in Int
  BY <1>1, PartsOf
<1>6. w[1] >= u[1] /\ w[2] <= u[2] /\ w[1] \in Int /\ w[2] \in Int
  BY <1>1, <1>4, <1>5 DEF Clamped, Largest, Smallest
<1> HIDE DEF W
<1>7. u[1] <= s /\ s + d <= u[2]
  BY <1>3, <1>5, <1>6
<1> QED BY <1>7

\* Neither does leaving a block that already runs to the start domain.
LEMMA BlocksKept ==
    ASSUME Ready, NEW t \in ToSet(orders), NEW s \in Nat, NEW d \in Nat,
           StartAllowed(t, s), KeepsClear(t, s, d),
           NEW b \in Task(t).blocked, b[1] <= b[2], b[1] <= Deadline(t), b[2] >= 0
    PROVE  s > b[2] \/ s + d <= b[1]
<1> DEFINE D == Deadline(t)  lo == Largest(b[1], 0)  hi == Smallest(b[2], D)
<1>1. D \in Nat /\ Task(t).blocked \in Spans
  BY DeadlineIs
<1>2. b[1] \in Int /\ b[2] \in Int
  BY <1>1, PartsOf
<1>3. Smallest(b[2], D) >= Largest(b[1], 0)
  BY <1>1, <1>2 DEF Largest, Smallest
<1>4. <<lo, hi>> \in Blocked(t)
  BY <1>3, ClampTo DEF Blocked
<1>5. s <= D /\ s \notin lo .. hi
  BY <1>4 DEF StartAllowed
<1>6. lo > 0 => s + d <= lo \/ s >= hi + 1
  BY <1>4 DEF KeepsClear
<1>7. lo = (IF b[1] >= 0 THEN b[1] ELSE 0) /\ hi = (IF b[2] <= D THEN b[2] ELSE D)
  BY DEF Largest, Smallest
<1> HIDE DEF lo, hi, D
<1> QED BY <1>1, <1>2, <1>5, <1>6, <1>7

LEMMA WindowsSound ==
    ASSUME Dispatched
    PROVE  WorkInsideWindows
<1> SUFFICES ASSUME NEW p \in packages
             PROVE  /\ p.start <= Deadline(p.task)
                    /\ Task(p.task).windows # {} =>
                          \E w \in Task(p.task).windows : w[1] <= p.start /\ p.finish <= w[2]
                    /\ ~Expandable => \A b \in Task(p.task).blocked :
                          b[1] <= b[2] /\ b[1] <= Deadline(p.task) /\ b[2] >= 0 => p.start > b[2] \/ p.finish <= b[1]
  BY DEF WorkInsideWindows
<1>1. Searching /\ Ready /\ p \in Dispatch
  BY DEF Dispatched, Routed, Searching
<1>2. PICK k, i : MadeFor(p, k, i)
  BY <1>1, DispatchIs
<1> DEFINE s == routes[k][i]  d == Service(k, s.node)
<1>3. /\ k \in 1 .. K /\ s \in StopSet /\ p.task \in ToSet(orders) /\ p.start = s.at /\ p.finish = EndOf(k, s)
      /\ p.start \in Nat /\ Timely(k, p.task, s)
  BY <1>1, <1>2, MadeIs
<1>4. d \in Nat /\ p.finish = p.start + d
  <2>1. s.node \in Nodes
    BY <1>3 DEF StopSet
  <2>2. d \in Nat
    BY <1>1, <1>3, <2>1, NodesTyped
  <2> QED BY <1>3, <2>2 DEF EndOf
<1>5. p.start <= Deadline(p.task)
  BY <1>3 DEF Timely
<1>6. ~Expandable => StartAllowed(p.task, p.start) /\ KeepsClear(p.task, p.start, d) /\ FinishFits(p.task, p.start, d)
  BY <1>3 DEF Timely
<1>7. Expandable => Task(p.task).windows = {}
  BY <1>3 DEF Expandable, Plain
<1> HIDE DEF d, s
<1>8. ASSUME Task(p.task).windows # {} PROVE \E w \in Task(p.task).windows : w[1] <= p.start /\ p.finish <= w[2]
  <2>1. StartAllowed(p.task, p.start) /\ FinishFits(p.task, p.start, d)
    BY <1>6, <1>7, <1>8
  <2> QED BY <1>1, <1>3, <1>4, <1>8, <2>1, WindowsKept
<1>9. ASSUME ~Expandable, NEW b \in Task(p.task).blocked, b[1] <= b[2], b[1] <= Deadline(p.task), b[2] >= 0
      PROVE  p.start > b[2] \/ p.finish <= b[1]
  <2>1. StartAllowed(p.task, p.start) /\ KeepsClear(p.task, p.start, d)
    BY <1>6, <1>9
  <2> QED BY <1>1, <1>3, <1>4, <1>9, <2>1, BlocksKept
<1> QED BY <1>5, <1>8, <1>9

-----------------------------------------------------------------------------
(* One place at a time *)

\* An interval before the horizon that keeps clear of the clamped holds keeps
\* clear of the holds.
LEMMA HoldsKept ==
    ASSUME NEW A, NEW a \in A, inp.held[a] \in Spans, NEW s \in Nat, NEW e \in Nat, e <= Horizon, s < e,
           Clear(s, e, Held(A)), NEW w \in inp.held[a], w[1] < w[2], w[2] > 0
    PROVE  e <= w[1] \/ s >= w[2]
<1> DEFINE lo == Largest(w[1], 0)  hi == Smallest(w[2], Horizon)
<1>1. w[1] \in Int /\ w[2] \in Int /\ Horizon \in Nat
  BY PartsOf, LimitsAssumption
<1>2. lo = (IF w[1] >= 0 THEN w[1] ELSE 0) /\ hi = (IF w[2] <= Horizon THEN w[2] ELSE Horizon)
  BY DEF Largest, Smallest
<1>3. ASSUME hi > lo PROVE e <= lo \/ s >= hi
  <2>1. w \in UNION {inp.held[x] : x \in A}
    OBVIOUS
  <2>2. Smallest(w[2], Horizon) >= Largest(w[1], 0)
    BY <1>1, <1>2, <1>3
  <2>3. <<lo, hi>> \in Clamp(UNION {inp.held[x] : x \in A}, Horizon)
    BY <2>1, <2>2, ClampTo
  <2>4. <<lo, hi>> \in Held(A)
    BY <1>3, <2>3 DEF Held
  <2> QED BY <2>4 DEF Clear
<1> HIDE DEF lo, hi
<1> QED BY <1>1, <1>2, <1>3

LEMMA AssetsHeld ==
    ASSUME Ready, NEW k \in 1 .. K, NEW t \in ToSet(orders), NEW a,
           a = bundles[k][1] \/ a = bundles[k][2] \/ (a = OperatorOf(t) /\ a # None)
    PROVE  a \in DOMAIN inp.held /\ inp.held[a] \in Spans
<1>1. RowsOk(inp) /\ bundles[k] \in inp.compat /\ t \in DOMAIN inp.task
  BY TasksFacts DEF Ready, Divisible
<1>2. a \in Assets(inp)
  <2>1. CASE a = bundles[k][1] \/ a = bundles[k][2]
    <3>1. a \in {bundles[k][1], bundles[k][2]} /\ {bundles[k][1], bundles[k][2]} \in {{p[1], p[2]} : p \in inp.compat}
      BY <1>1, <2>1
    <3> QED BY <1>1, <3>1 DEF Assets
  <2>2. CASE a = OperatorOf(t) /\ a # None /\ inp.taskOperator[t] # None
    <3>1. a = inp.taskOperator[t]
      BY <2>2 DEF OperatorOf
    <3>2. a \in {inp.taskOperator[u] : u \in DOMAIN inp.task} \ {None}
      BY <1>1, <2>2, <3>1
    <3> QED BY <3>2 DEF Assets
  <2>3. CASE a = OperatorOf(t) /\ a # None /\ inp.taskOperator[t] = None
    <3>1. a = crew[cluster]
      BY <2>3 DEF OperatorOf
    <3>2. crew[cluster] \in DOMAIN inp.certified \cup {None}
      BY DEF Ready, Crews, Prepared
    <3> QED BY <2>3, <3>1, <3>2 DEF Assets
  <2> QED BY <2>1, <2>2, <2>3
<1>3. Assets(inp) \subseteq DOMAIN inp.held /\ \A x \in Assets(inp) : inp.held[x] \in Spans
  BY <1>1 DEF RowsOk
<1> QED BY <1>2, <1>3

\* A closed route is over by the end of the horizon.
LEMMA WorkEnds ==
    ASSUME Searching, AllClosed, NEW p, NEW k, NEW i, MadeFor(p, k, i)
    PROVE  p.finish <= Horizon
<1>1. /\ k \in 1 .. K /\ i \in 1 .. Len(routes[k]) /\ p.finish = EndOf(k, routes[k][i]) /\ p.finish \in Nat
      /\ routes[k][i].node[1] = "task"
  BY MadeIs DEF MadeFor
<1> DEFINE n == Len(routes[k])
<1>2. Closed(routes[k]) /\ n \in Nat /\ routes[k] \in Seq(StopSet)
  BY <1>1, StopPlaces DEF AllClosed, MadeFor
<1>3. n > 1 /\ routes[k][n].node = Depot
  BY <1>1, <1>2 DEF Closed, Last
<1>4. i < n
  BY <1>1, <1>2, <1>3, DepotStop
<1>5. At(routes, k, i) /\ At(routes, k, n)
  BY <1>1, <1>2, <1>3 DEF MadeFor, At
<1>6. EndOf(k, routes[k][i]) <= routes[k][n].at
  BY <1>4, <1>5 DEF Searching, RoutesOk, LegsOk
<1>7. routes[k][n].at \in Nat /\ routes[k][n].at <= Horizon
  <2>1. routes[k][n] \in StopSet
    BY <1>2, <1>3
  <2> QED BY <2>1, LimitsAssumption DEF StopSet
<1> HIDE DEF n
<1> QED BY <1>1, <1>6, <1>7, LimitsAssumption

\* Two packages, of one bundle or of two.
Apart3(p, q) ==
    \/ p.finish <= q.start \/ q.finish <= p.start
    \/ /\ p.bundle[1] # q.bundle[1] /\ p.bundle[2] # q.bundle[2]
       /\ p.operator = None \/ p.operator # q.operator
LEMMA PackagesApart ==
    ASSUME Searching, NEW p, NEW q, p # q, NEW k, NEW i, NEW l, NEW j, MadeFor(p, k, i), MadeFor(q, l, j)
    PROVE  Apart3(p, q)
<1>1. /\ k \in 1 .. K /\ i \in 1 .. Len(routes[k]) /\ p.start = routes[k][i].at /\ p.finish = EndOf(k, routes[k][i])
      /\ p.bundle = bundles[k] /\ p.operator = OperatorOf(p.task) /\ p.task = routes[k][i].node[2]
      /\ At(routes, k, i) /\ routes[k][i].node[1] = "task"
  BY MadeIs DEF MadeFor
<1>2. /\ l \in 1 .. K /\ j \in 1 .. Len(routes[l]) /\ q.start = routes[l][j].at /\ q.finish = EndOf(l, routes[l][j])
      /\ q.bundle = bundles[l] /\ q.operator = OperatorOf(q.task) /\ q.task = routes[l][j].node[2]
      /\ At(routes, l, j) /\ routes[l][j].node[1] = "task"
  BY MadeIs DEF MadeFor
<1>3. CASE k = l
  <2>1. i # j
    BY <1>3 DEF MadeFor
  <2>2. i \in Nat /\ j \in Nat
    BY <1>1, <1>2
  <2>3. CASE i < j
    <3>1. EndOf(k, routes[k][i]) <= routes[k][j].at
      BY <1>1, <1>2, <1>3, <2>3 DEF Searching, RoutesOk, LegsOk
    <3> QED BY <1>1, <1>2, <1>3, <3>1 DEF Apart3
  <2>4. CASE j < i
    <3>1. EndOf(k, routes[k][j]) <= routes[k][i].at
      BY <1>1, <1>2, <1>3, <2>4 DEF Searching, RoutesOk, LegsOk
    <3> QED BY <1>1, <1>2, <1>3, <3>1 DEF Apart3
  <2> QED BY <2>1, <2>2, <2>3, <2>4
<1>4. CASE k # l
  <2>1. bundles[k][1] # bundles[l][1] /\ bundles[k][2] # bundles[l][2]
    BY <1>1, <1>2, <1>4, TasksFacts DEF Searching
  <2>2. CrewFree(k, routes[k][i], l, routes[l][j])
    BY <1>1, <1>2, <1>4 DEF Searching, RoutesOk, CrewsFree
  <2>3. \/ p.operator = None \/ p.operator # q.operator
        \/ EndOf(k, routes[k][i]) <= routes[l][j].at \/ EndOf(l, routes[l][j]) <= routes[k][i].at
    BY <1>1, <1>2, <2>2 DEF CrewFree
  <2> QED BY <1>1, <1>2, <2>1, <2>3 DEF Apart3
<1> QED BY <1>3, <1>4

LEMMA PackageUnheld ==
    ASSUME Searching, AllClosed, NEW p, NEW k, NEW i, MadeFor(p, k, i),
           NEW a \in {p.bundle[1], p.bundle[2], p.operator} \ {None},
           NEW w \in inp.held[a], w[1] < w[2], w[2] > 0, p.start < p.finish
    PROVE  p.finish <= w[1] \/ p.start >= w[2]
<1>1. /\ k \in 1 .. K /\ p.task \in ToSet(orders) /\ p.bundle = bundles[k] /\ p.operator = OperatorOf(p.task)
      /\ p.start = routes[k][i].at /\ p.finish = EndOf(k, routes[k][i]) /\ p.start \in Nat /\ p.finish \in Nat
      /\ Timely(k, p.task, routes[k][i])
  BY MadeIs
<1>2. a \in DOMAIN inp.held /\ inp.held[a] \in Spans
  BY <1>1, AssetsHeld DEF Searching
<1>3. ~Expandable
  BY <1>2 DEF Expandable
<1>4. p.finish <= Horizon
  BY WorkEnds
<1>5. CASE a \in {bundles[k][1], bundles[k][2]}
  <2>1. Clear(p.start, p.finish, Held({bundles[k][1], bundles[k][2]}))
    BY <1>1, <1>3 DEF Timely
  <2> QED BY <1>1, <1>2, <1>4, <1>5, <2>1, HoldsKept
<1>6. CASE a = OperatorOf(p.task)
  <2>1. Clear(p.start, p.finish, Held({OperatorOf(p.task)}))
    BY <1>1, <1>3, <1>6 DEF Timely
  <2>2. a \in {OperatorOf(p.task)}
    BY <1>6
  <2> QED BY <1>1, <1>2, <1>4, <2>1, <2>2, HoldsKept
<1> QED BY <1>1, <1>5, <1>6

LEMMA PlacesSound ==
    ASSUME Dispatched
    PROVE  OnePlaceAtATime
<1>1. Searching /\ AllClosed /\ packages = Dispatch
  BY DEF Dispatched, Routed
<1>2. \A p \in packages : \E k, i : MadeFor(p, k, i)
  BY <1>1, DispatchIs
<1>3. ASSUME NEW p \in packages, NEW q \in packages \ {p} PROVE Apart3(p, q)
  BY <1>1, <1>2, PackagesApart
<1>4. ASSUME NEW p \in packages, NEW a \in {p.bundle[1], p.bundle[2], p.operator} \ {None},
             NEW w \in inp.held[a], w[1] < w[2] /\ w[2] > 0 /\ p.start < p.finish
      PROVE  p.finish <= w[1] \/ p.start >= w[2]
  BY <1>1, <1>2, <1>4, PackageUnheld
<1> QED BY <1>3, <1>4 DEF OnePlaceAtATime, Apart3

-----------------------------------------------------------------------------
(* Time to drive *)

Climbs(f, g, a, b) ==
    /\ \A j \in a .. b - 1 : f[j] \in Int /\ g[j + 1] >= g[j] + f[j]
    /\ \A j \in a .. b : g[j] \in Int
LEMMA SumBelow ==
    ASSUME NEW a \in Nat, NEW b \in Nat, a <= b, NEW f, NEW g, Climbs(f, g, a, b)
    PROVE  g[b] - g[a] >= SumOf(f, a .. b - 1)
<1> DEFINE S == a .. b - 1  n == b - a
           Good == {m \in 0 .. n : g[a + m] - g[a] >= SumOf(f, a .. a + m - 1)}
<1>1. IsFiniteSet(S) /\ \A x \in S : f[x] \in Int
  BY FS_Interval DEF Climbs
<1>2. Summed(f, S)
  BY <1>1, SumAdd
<1>3. n \in Nat
  OBVIOUS
<1>4. 0 \in Good
  <2>1. a .. a + 0 - 1 = {} /\ a + 0 = a
    OBVIOUS
  <2>2. SumOf(f, a .. a + 0 - 1) = 0
    BY <1>2, <2>1 DEF Summed
  <2>3. g[a] \in Int
    BY DEF Climbs
  <2>4. g[a + 0] - g[a] >= SumOf(f, a .. a + 0 - 1)
    BY <2>1, <2>2, <2>3
  <2> QED BY <1>3, <2>4
<1>5. ASSUME NEW m \in 0 .. n - 1, m \in Good PROVE m + 1 \in Good
  <2> DEFINE s == a .. a + m - 1  x == a + m
  <2>1. s \in SUBSET S /\ x \in S \ s /\ a .. a + (m + 1) - 1 = s \cup {x} /\ a + (m + 1) = x + 1
    OBVIOUS
  <2>2. SumOf(f, s) \in Int /\ SumOf(f, s \cup {x}) = SumOf(f, s) + f[x]
    BY <1>2, <2>1 DEF Summed
  <2>3. g[x + 1] >= g[x] + f[x] /\ f[x] \in Int
    BY <2>1 DEF Climbs
  <2>4. g[x] \in Int /\ g[x + 1] \in Int /\ g[a] \in Int
    BY DEF Climbs
  <2>5. g[x] - g[a] >= SumOf(f, s)
    BY <1>5
  <2> HIDE DEF s, x
  <2>6. g[x + 1] - g[a] >= SumOf(f, s \cup {x})
    BY <2>2, <2>3, <2>4, <2>5
  <2>7. g[a + (m + 1)] - g[a] >= SumOf(f, a .. a + (m + 1) - 1)
    BY <2>1, <2>6
  <2>8. m + 1 \in 0 .. n
    BY <1>3
  <2> QED BY <2>7, <2>8
<1> HIDE DEF Good, S
<1>6. \A m \in 0 .. n : m \in Good
  BY <1>3, <1>4, <1>5, UpTo
<1>7. n \in Good /\ a + n = b
  BY <1>3, <1>6
<1> QED BY <1>7 DEF Good

LEMMA LegstartIs ==
    ASSUME Searching, NEW k, NEW i, At(routes, k, i), NEW h \in 1 .. i - 1, routes[k][h].node[1] = "task"
    PROVE  Legstart(k, i) \in h .. i - 1
<1> DEFINE E == {j \in 1 .. i - 1 : routes[k][j].node[1] = "task"}
<1>1. i \in Nat
  BY StopPlaces
<1>2. E \in SUBSET Int /\ h \in E
  OBVIOUS
<1>3. IsFiniteSet(E)
  <2>1. IsFiniteSet(1 .. i - 1) /\ E \in SUBSET (1 .. i - 1)
    BY <1>1, FS_Interval
  <2> HIDE DEF E
  <2> QED BY <2>1, FS_Subset
<1>4. Legstart(k, i) = Max(E)
  BY <1>2 DEF Legstart
<1>5. Max(E) \in E /\ Max(E) >= h
  <2> HIDE DEF E
  <2> QED BY <1>2, <1>3, MaxIs
<1> QED BY <1>1, <1>4, <1>5

\* From the end of the work at a stop to a later stop there is time for all the
\* driving between them.
LEMMA DriveTime ==
    ASSUME Searching, NEW k, NEW i, At(routes, k, i), NEW h \in 1 .. i - 1
    PROVE  LET travel == Total([j \in h .. i - 1 |-> Pace(k, routes[k][j], routes[k][j + 1].node)])
           IN travel \in Int /\ travel <= routes[k][i].at - EndOf(k, routes[k][h])
<1> DEFINE f == [j \in h .. i - 1 |-> Pace(k, routes[k][j], routes[k][j + 1].node)]
           g == [j \in h .. i |-> IF j < i THEN EndOf(k, routes[k][j]) ELSE routes[k][i].at]
<1>1. k \in 1 .. K /\ i \in 1 .. Len(routes[k]) /\ Len(routes[k]) \in Nat /\ i \in Nat /\ h \in Nat /\ h < i
  BY StopPlaces
<1>2. \A j \in h .. i : At(routes, k, j)
  BY <1>1 DEF At
<1>3. \A j \in h .. i : /\ routes[k][j] \in StopSet /\ routes[k][j].node \in Nodes
                        /\ EndOf(k, routes[k][j]) \in Nat /\ routes[k][j].at \in Nat
                        /\ routes[k][j].at <= EndOf(k, routes[k][j])
  BY <1>1, <1>2, StopPlaces, EndsTyped DEF Searching
<1>4. \A j \in h .. i - 1 : /\ Pace(k, routes[k][j], routes[k][j + 1].node) \in Nat
                            /\ routes[k][j + 1].at - EndOf(k, routes[k][j]) >= Pace(k, routes[k][j], routes[k][j + 1].node)
  <2> SUFFICES ASSUME NEW j \in h .. i - 1
               PROVE  /\ Pace(k, routes[k][j], routes[k][j + 1].node) \in Nat
                      /\ routes[k][j + 1].at - EndOf(k, routes[k][j]) >= Pace(k, routes[k][j], routes[k][j + 1].node)
    OBVIOUS
  <2>1. j \in h .. i /\ j + 1 \in h .. i
    BY <1>1
  <2>2. LegFits(k, routes[k][j], routes[k][j + 1])
    BY <1>2, <2>1 DEF Searching, RoutesOk, LegsOk
  <2>3. Pace(k, routes[k][j], routes[k][j + 1].node) \in Nat
    BY <1>1, <1>3, <2>1, PaceTyped DEF Searching
  <2> QED BY <2>2, <2>3 DEF LegFits
<1>5. Climbs(f, g, h, i)
  <2>1. \A j \in h .. i : g[j] \in Int
    BY <1>1, <1>3
  <2>2. ASSUME NEW j \in h .. i - 1 PROVE f[j] \in Int /\ g[j + 1] >= g[j] + f[j]
    <3>1. j \in h .. i /\ j + 1 \in h .. i /\ j < i
      BY <1>1
    <3>2. g[j] = EndOf(k, routes[k][j]) /\ g[j + 1] >= routes[k][j + 1].at /\ g[j + 1] \in Nat
      BY <1>1, <1>3, <3>1
    <3>3. f[j] = Pace(k, routes[k][j], routes[k][j + 1].node)
      BY <3>1
    <3>4. routes[k][j + 1].at \in Nat /\ EndOf(k, routes[k][j]) \in Nat
      BY <1>3, <3>1
    <3> HIDE DEF f, g
    <3> QED BY <1>4, <3>2, <3>3, <3>4
  <2> HIDE DEF f, g
  <2> QED BY <2>1, <2>2 DEF Climbs
<1>6. g[i] = routes[k][i].at /\ g[h] = EndOf(k, routes[k][h])
  BY <1>1
<1>7. SumOf(f, h .. i - 1) = Total(f)
  <2>1. [j \in h .. i - 1 |-> f[j]] = f
    OBVIOUS
  <2> QED BY <2>1 DEF SumOf
<1>8. SumOf(f, h .. i - 1) \in Int
  <2>1. IsFiniteSet(h .. i - 1)
    BY <1>1, FS_Interval
  <2> HIDE DEF f, g
  <2>3. \A x \in h .. i - 1 : f[x] \in Int
    BY <1>5 DEF Climbs
  <2>2. Summed(f, h .. i - 1)
    BY <2>1, <2>3, SumAdd
  <2> QED BY <2>2 DEF Summed
<1> HIDE DEF f, g
<1>9. g[i] - g[h] >= SumOf(f, h .. i - 1)
  BY <1>1, <1>5, SumBelow
<1>10. Total(f) \in Int /\ Total(f) <= routes[k][i].at - EndOf(k, routes[k][h])
  <2>1. routes[k][i].at \in Nat /\ EndOf(k, routes[k][h]) \in Nat
    BY <1>1, <1>3
  <2> QED BY <1>6, <1>7, <1>8, <1>9, <2>1
<1> QED BY <1>10 DEF f

LEMMA DrivingSound ==
    ASSUME Dispatched
    PROVE  PackagesDriveable
<1> SUFFICES ASSUME NEW p \in packages, NEW q \in packages, q.bundle = p.bundle, q.start < p.start
             PROVE  p.start - q.finish >= p.travel
  BY DEF PackagesDriveable
<1>1. Searching /\ packages = Dispatch
  BY DEF Dispatched, Routed
<1>2. PICK k, i : MadeFor(p, k, i)
  BY <1>1, DispatchIs
<1>3. PICK l, j : MadeFor(q, l, j)
  BY <1>1, DispatchIs
<1>4. /\ k \in 1 .. K /\ i \in 1 .. Len(routes[k]) /\ p.start = routes[k][i].at /\ p.bundle = bundles[k]
      /\ p.travel = Drive(k, i) /\ p.start \in Nat /\ p.finish \in Nat /\ p.start <= p.finish
      /\ p.finish = EndOf(k, routes[k][i]) /\ At(routes, k, i)
  BY <1>1, <1>2, MadeIs DEF MadeFor
<1>5. /\ l \in 1 .. K /\ j \in 1 .. Len(routes[l]) /\ q.start = routes[l][j].at /\ q.bundle = bundles[l]
      /\ q.finish = EndOf(l, routes[l][j]) /\ At(routes, l, j) /\ routes[l][j].node[1] = "task"
      /\ q.start \in Nat /\ q.finish \in Nat
  BY <1>1, <1>3, MadeIs DEF MadeFor
<1>6. l = k
  BY <1>1, <1>4, <1>5, TasksFacts DEF Searching
<1>7. i \in Nat /\ j \in Nat
  BY <1>4, <1>5
<1>8. j < i
  <2>1. CASE i < j
    <3>1. EndOf(k, routes[k][i]) <= routes[k][j].at
      BY <1>1, <1>4, <1>5, <1>6, <2>1 DEF Searching, RoutesOk, LegsOk
    <3> QED BY <1>4, <1>5, <1>6, <3>1
  <2>2. i # j
    BY <1>4, <1>5, <1>6
  <2> QED BY <1>7, <2>1, <2>2
<1> DEFINE h == Legstart(k, i)
<1>9. h \in j .. i - 1
  <2>1. j \in 1 .. i - 1
    BY <1>5, <1>7, <1>8
  <2> QED BY <1>1, <1>4, <1>5, <1>6, <2>1, LegstartIs
<1>10. h \in 1 .. i - 1
  BY <1>5, <1>7, <1>9
<1>11. Drive(k, i) \in Int /\ Drive(k, i) <= routes[k][i].at - EndOf(k, routes[k][h])
  BY <1>1, <1>4, <1>10, DriveTime DEF Drive
<1> HIDE DEF h
<1>12. At(routes, k, h)
  BY <1>4, <1>10 DEF At
<1>13. EndOf(k, routes[k][j]) <= EndOf(k, routes[k][h]) /\ EndOf(k, routes[k][h]) \in Nat
  <2>1. routes[k][h] \in StopSet
    BY <1>1, <1>12, StopPlaces
  <2>2. EndOf(k, routes[k][h]) \in Nat /\ routes[k][h].at \in Nat /\ routes[k][h].at <= EndOf(k, routes[k][h])
    BY <1>1, <1>4, <2>1, EndsTyped DEF Searching
  <2>3. CASE j = h
    BY <2>2, <2>3
  <2>4. CASE j < h
    <3>1. EndOf(k, routes[k][j]) <= routes[k][h].at
      BY <1>1, <1>5, <1>6, <1>12, <2>4 DEF Searching, RoutesOk, LegsOk
    <3> QED BY <1>5, <1>6, <2>2, <3>1
  <2> QED BY <1>7, <1>9, <2>3, <2>4
<1> QED BY <1>4, <1>5, <1>6, <1>11, <1>13

-----------------------------------------------------------------------------
(* Loads *)

\* Node n is left between stops r and h of route k.
Passed(k, n, r, h) == \E i \in r .. h - 1 : routes[k][i].node = n
Loads == [t \in ToSet(orders) |-> Task(t).load]
\* What stop h has to have aboard or delivered since stop r: the tasks served from
\* the depot, and the cargo picked up and not delivered yet.
Laden(k, m, r, h) ==
    {t \in ToSet(orders) :
        /\ Task(t).material = m
        /\ IF Task(t).pickup = None THEN Passed(k, <<"task", t>>, r, h)
           ELSE Passed(k, <<"pickup", t>>, r, h) /\ ~Passed(k, <<"task", t>>, r, h)}
Enough(k, m, r, h) == SumOf(Loads, Laden(k, m, r, h)) <= routes[k][h].load[m]
\* From the start or a fill to stop h, without a fill between them.
Stretch(k, r, h) ==
    /\ At(routes, k, h) /\ r \in 1 .. h
    /\ r = 1 \/ routes[k][r].node[1] = "reload"
    /\ \A i \in r + 1 .. h - 1 : routes[k][i].node[1] # "reload"

LEMMA LoadsAre ==
    ASSUME Ready
    PROVE  /\ IsFiniteSet(ToSet(orders)) /\ Summed(Loads, ToSet(orders))
           /\ \A t \in ToSet(orders) : Loads[t] \in Nat /\ Loads[t] = Task(t).load
           /\ \A u \in SUBSET ToSet(orders) : \A s \in SUBSET u :
                 SumOf(Loads, s) <= SumOf(Loads, u) /\ SumOf(Loads, s) \in Nat
<1>1. IsFiniteSet(ToSet(orders)) /\ \A t \in ToSet(orders) : TaskRow(inp, Task(t))
  BY TasksFacts
<1>2. \A t \in ToSet(orders) : Loads[t] \in Nat /\ Loads[t] = Task(t).load
  BY <1>1 DEF Loads, TaskRow
<1>3. Summed(Loads, ToSet(orders))
  BY <1>1, <1>2, SumAdd
<1>4. \A u \in SUBSET ToSet(orders) : \A s \in SUBSET u : SumOf(Loads, s) <= SumOf(Loads, u) /\ SumOf(Loads, s) \in Nat
  BY <1>1, <1>2, SumGrows
<1> QED BY <1>1, <1>2, <1>3, <1>4

LEMMA LadenTyped ==
    ASSUME NEW k, NEW m, NEW r, NEW h
    PROVE  Laden(k, m, r, h) \in SUBSET ToSet(orders)
BY DEF Laden

LEMMA PassedNext ==
    ASSUME NEW k, NEW n, NEW r \in Nat, NEW h \in Nat, r <= h
    PROVE  Passed(k, n, r, h + 1) <=> (Passed(k, n, r, h) \/ routes[k][h].node = n)
<1>1. \A i : i \in r .. h + 1 - 1 <=> (i \in r .. h - 1 \/ i = h)
  OBVIOUS
<1> QED BY <1>1 DEF Passed

\* Leaving stop h can only add the task of its node.
LEMMA LadenNext ==
    ASSUME NEW k, NEW m, NEW r \in Nat, NEW h \in Nat, r <= h, NEW u \in Laden(k, m, r, h + 1), u \notin Laden(k, m, r, h)
    PROVE  /\ u \in ToSet(orders) /\ Task(u).material = m
           /\ \/ Task(u).pickup = None /\ routes[k][h].node = <<"task", u>>
              \/ Task(u).pickup # None /\ routes[k][h].node = <<"pickup", u>>
<1>1. u \in ToSet(orders) /\ Task(u).material = m
  BY DEF Laden
<1>2. CASE Task(u).pickup = None
  <2>1. Passed(k, <<"task", u>>, r, h + 1) /\ ~Passed(k, <<"task", u>>, r, h)
    BY <1>1, <1>2 DEF Laden
  <2>2. routes[k][h].node = <<"task", u>>
    BY <2>1, PassedNext
  <2> QED BY <1>1, <1>2, <2>2
<1>3. CASE Task(u).pickup # None
  <2>1. Passed(k, <<"pickup", u>>, r, h + 1) /\ ~Passed(k, <<"task", u>>, r, h + 1)
    BY <1>1, <1>3 DEF Laden
  <2>2. ~Passed(k, <<"pickup", u>>, r, h) \/ Passed(k, <<"task", u>>, r, h)
    BY <1>1, <1>3 DEF Laden
  <2>3. ~Passed(k, <<"task", u>>, r, h)
    BY <2>1, PassedNext
  <2>4. routes[k][h].node = <<"pickup", u>>
    BY <2>1, <2>2, <2>3, PassedNext
  <2> QED BY <1>1, <1>3, <2>4
<1> QED BY <1>2, <1>3

\* A node is passed once.
LEMMA NotYet ==
    ASSUME Searching, NEW k, NEW h, At(routes, k, h), NEW r \in 1 .. h, routes[k][h].node # Depot
    PROVE  ~Passed(k, routes[k][h].node, r, h)
<1>1. h \in Nat /\ h \in 1 .. Len(routes[k]) /\ Len(routes[k]) \in Nat
  BY StopPlaces
<1>2. ASSUME NEW i \in r .. h - 1, routes[k][i].node = routes[k][h].node PROVE FALSE
  <2>1. At(routes, k, i) /\ i # h
    BY <1>1, <1>2 DEF At
  <2> QED BY <1>2, <2>1 DEF Searching, RoutesOk, NodesOnce
<1> QED BY <1>2 DEF Passed

\* A task that had to be picked up is aboard when it is reached.
LEMMA Aboard ==
    ASSUME Searching, ~Expandable, NEW k, NEW m, ~Straddled(k, m), NEW r, NEW h, Stretch(k, r, h),
           NEW t \in ToSet(orders), routes[k][h].node = <<"task", t>>, Task(t).material = m, Task(t).pickup # None
    PROVE  Passed(k, <<"pickup", t>>, r, h) /\ ~Passed(k, <<"task", t>>, r, h)
<1>1. At(routes, k, h) /\ r \in 1 .. h /\ (r = 1 \/ routes[k][r].node[1] = "reload")
  BY DEF Stretch
<1>2. h \in 1 .. Len(routes[k]) /\ Len(routes[k]) \in Nat /\ r \in Nat
  BY <1>1, StopPlaces
<1>3. routes[k][h].node[1] = "task" /\ routes[k][h].node[2] = t /\ routes[k][h].node # Depot
  BY DEF Depot
<1>4. PICK j : At(routes, k, j) /\ j < h /\ routes[k][j].node = <<"pickup", t>>
  BY <1>1, <1>3 DEF Searching, RoutesOk, PickedUp
<1>5. j \in 1 .. Len(routes[k])
  BY <1>4 DEF At
<1>6. j >= r
  <2> SUFFICES ASSUME j < r PROVE FALSE
    BY <1>2, <1>5
  <2>1. routes[k][r].node[1] = "reload" /\ r \in 1 .. Len(routes[k])
    BY <1>1, <1>2, <1>5
  <2>2. r # h
    BY <1>3, <2>1
  <2>3. r < h
    BY <1>1, <1>2, <2>2
  <2>4. <<"pickup", t>> \in PickupNodes
    BY DEF PickupNodes
  <2>5. <<"pickup", t>>[2] = t
    OBVIOUS
  <2> QED BY <1>2, <1>4, <1>5, <2>1, <2>3, <2>4, <2>5 DEF Straddled
<1>7. Passed(k, <<"pickup", t>>, r, h)
  BY <1>2, <1>4, <1>5, <1>6 DEF Passed
<1>8. ~Passed(k, <<"task", t>>, r, h)
  BY <1>1, <1>3, NotYet
<1> QED BY <1>7, <1>8

LEMMA DemandIs ==
    ASSUME NEW n, NEW m, n[1] # "reload"
    PROVE  /\ Slack(n, m) = {0}
           /\ n[1] \in {"task", "pickup"} /\ Task(n[2]).material = m =>
                 Demand(n, m) = (IF n[1] = "task" /\ Task(n[2]).pickup # None THEN 0 - Task(n[2]).load ELSE Task(n[2]).load)
           /\ ~(n[1] \in {"task", "pickup"} /\ Task(n[2]).material = m) => Demand(n, m) = 0
BY DEF Demand, Slack

LEMMA EnoughNext ==
    ASSUME Searching, ~Expandable, NEW k, NEW m \in Materials, ~Straddled(k, m), NEW r, NEW h, Stretch(k, r, h),
           routes[k][h].node[1] # "reload", At(routes, k, h + 1), Enough(k, m, r, h)
    PROVE  Enough(k, m, r, h + 1)
<1>0. \A u \in Laden(k, m, r, h + 1) : u \notin Laden(k, m, r, h) =>
         /\ u \in ToSet(orders) /\ Task(u).material = m
         /\ \/ Task(u).pickup = None /\ routes[k][h].node = <<"task", u>>
            \/ Task(u).pickup # None /\ routes[k][h].node = <<"pickup", u>>
  <2>1. At(routes, k, h) /\ r \in 1 .. h
    BY DEF Stretch
  <2>2. h \in Nat /\ r \in Nat /\ r <= h
    BY <2>1, StopPlaces
  <2> QED BY <2>2, LadenNext
<1> DEFINE n == routes[k][h].node  now == routes[k][h].load[m]  next == routes[k][h + 1].load[m]
           L == Laden(k, m, r, h)  M == Laden(k, m, r, h + 1)  t == n[2]
<1>1. At(routes, k, h) /\ r \in 1 .. h
  BY DEF Stretch
<1>2. h \in Nat /\ r \in Nat /\ r <= h /\ n \in Nodes /\ routes[k][h] \in StopSet /\ routes[k][h + 1] \in StopSet
  BY <1>1, StopPlaces
<1>3. now \in Nat /\ next \in Nat
  BY <1>2 DEF StopSet
<1>4. next = now + Demand(n, m)
  <2>1. LegFits(k, routes[k][h], routes[k][h + 1])
    BY <1>1, <1>2 DEF Searching, RoutesOk, LegsOk
  <2>2. \E x \in Slack(n, m) : next = now + Demand(n, m) + x
    BY <2>1 DEF LegFits
  <2>3. Slack(n, m) = {0}
    BY DemandIs
  <2>4. next = now + Demand(n, m) + 0
    BY <2>2, <2>3
  <2>5. Demand(n, m) \in Int
    <3>1. CASE n[1] \in {"task", "pickup"} /\ Task(n[2]).material = m
      <4>1. t \in ToSet(orders)
        BY <1>2, <3>1, NodeKinds
      <4>2. Task(t).load \in Nat
        BY <4>1, LoadsAre DEF Searching
      <4> QED BY <3>1, <4>2, DemandIs
    <3>2. CASE ~(n[1] \in {"task", "pickup"} /\ Task(n[2]).material = m)
      BY <3>2, DemandIs
    <3> QED BY <3>1, <3>2
  <2> QED BY <1>3, <2>4, <2>5
<1>5. /\ L \in SUBSET ToSet(orders) /\ M \in SUBSET ToSet(orders) /\ SumOf(Loads, L) <= now
      /\ SumOf(Loads, L) \in Int /\ SumOf(Loads, M) \in Int
  BY LadenTyped, LoadsAre DEF Enough, Searching, Summed
<1>6. CASE ~(n[1] \in {"task", "pickup"} /\ Task(t).material = m)
  <2>1. M \in SUBSET L
    <3> SUFFICES ASSUME NEW u \in M, u \notin L PROVE FALSE
      OBVIOUS
    <3>0. u \in Laden(k, m, r, h + 1) /\ u \notin Laden(k, m, r, h) /\ r \in Nat /\ h \in Nat /\ r <= h
      BY <1>2
    <3>1. /\ Task(u).material = m
          /\ routes[k][h].node = <<"task", u>> \/ routes[k][h].node = <<"pickup", u>>
      BY <1>0, <3>0
    <3> QED BY <1>6, <3>1
  <2>2. SumOf(Loads, M) <= SumOf(Loads, L)
    BY <1>5, <2>1, LoadsAre DEF Searching
  <2>3. next = now + 0
    BY <1>4, <1>6, DemandIs
  <2> HIDE DEF n, now, next, L, M, t
  <2>4. SumOf(Loads, M) <= next
    BY <1>3, <1>5, <2>2, <2>3
  <2> QED BY <2>4 DEF Enough, M, next
<1>7. CASE n[1] \in {"task", "pickup"} /\ Task(t).material = m
  <2>1. t \in ToSet(orders) /\ (n = <<"task", t>> \/ n = <<"pickup", t>>) /\ (n[1] = "pickup" => Task(t).pickup # None)
    BY <1>2, <1>7, NodeKinds
  <2>2. n # Depot
    BY <1>7 DEF Depot
  <2>3. ~Passed(k, n, r, h)
    BY <1>1, <2>2, NotYet
  <2>4. Loads[t] = Task(t).load /\ Loads[t] \in Nat
    BY <2>1, LoadsAre DEF Searching
  <2>5. CASE n[1] = "task" /\ Task(t).pickup # None
    <3>1. n = <<"task", t>>
      BY <2>1, <2>5
    <3>2. Passed(k, <<"pickup", t>>, r, h) /\ ~Passed(k, <<"task", t>>, r, h)
      BY <1>7, <2>1, <2>5, <3>1, Aboard
    <3>3. t \in L
      BY <1>7, <2>1, <2>5, <3>2 DEF Laden
    <3>4. M \in SUBSET (L \ {t})
      <4>1. ASSUME NEW u \in M, u \notin L PROVE FALSE
        <5>0. u \in Laden(k, m, r, h + 1) /\ u \notin Laden(k, m, r, h) /\ r \in Nat /\ h \in Nat /\ r <= h
          BY <1>2, <4>1
        <5>1. \/ Task(u).pickup = None /\ routes[k][h].node = <<"task", u>>
              \/ Task(u).pickup # None /\ routes[k][h].node = <<"pickup", u>>
          BY <1>0, <5>0
        <5> QED BY <2>5, <3>1, <5>1
      <4>2. t \notin M
        <5>1. Passed(k, <<"task", t>>, r, h + 1)
          BY <1>2, <3>1, PassedNext
        <5> QED BY <2>5, <5>1 DEF Laden
      <4> QED BY <4>1, <4>2
    <3>5. L \ {t} \in SUBSET ToSet(orders) /\ t \in ToSet(orders) \ (L \ {t}) /\ (L \ {t}) \cup {t} = L
      BY <1>5, <3>3
    <3>6. SumOf(Loads, L) = SumOf(Loads, L \ {t}) + Loads[t] /\ SumOf(Loads, L \ {t}) \in Int
      BY <3>5, LoadsAre DEF Searching, Summed
    <3>7. SumOf(Loads, M) <= SumOf(Loads, L \ {t})
      BY <3>4, <3>5, LoadsAre DEF Searching
    <3>8. next = now + (0 - Loads[t])
      BY <1>4, <1>7, <2>4, <2>5, DemandIs
    <3> HIDE DEF n, now, next, L, M, t
    <3>9. SumOf(Loads, M) <= next
      BY <1>3, <1>5, <2>4, <3>6, <3>7, <3>8
    <3> QED BY <3>9 DEF Enough, M, next
  <2>6. CASE ~(n[1] = "task" /\ Task(t).pickup # None)
    <3>1. t \notin L
      <4>1. CASE n[1] = "task"
        <5>1. ~Passed(k, <<"task", t>>, r, h) /\ Task(t).pickup = None
          BY <2>1, <2>3, <2>6, <4>1
        <5> QED BY <5>1 DEF Laden
      <4>2. CASE n[1] = "pickup"
        <5>1. ~Passed(k, <<"pickup", t>>, r, h) /\ Task(t).pickup # None
          BY <2>1, <2>3, <4>2
        <5> QED BY <5>1 DEF Laden
      <4> QED BY <1>7, <4>1, <4>2
    <3>2. M \in SUBSET (L \cup {t})
      <4> SUFFICES ASSUME NEW u \in M, u \notin L PROVE u = t
        OBVIOUS
      <4>1. n = <<"task", u>> \/ n = <<"pickup", u>>
        BY <1>2, LadenNext
      <4> QED BY <4>1
    <3>3. SumOf(Loads, L \cup {t}) = SumOf(Loads, L) + Loads[t] /\ L \cup {t} \in SUBSET ToSet(orders)
      BY <1>5, <2>1, <3>1, LoadsAre DEF Searching, Summed
    <3>4. SumOf(Loads, M) <= SumOf(Loads, L \cup {t})
      BY <3>2, <3>3, LoadsAre DEF Searching
    <3>5. next = now + Loads[t]
      BY <1>4, <1>7, <2>4, <2>6, DemandIs
    <3> HIDE DEF n, now, next, L, M, t
    <3>6. SumOf(Loads, M) <= next
      BY <1>3, <1>5, <2>4, <3>3, <3>4, <3>5
    <3> QED BY <3>6 DEF Enough, M, next
  <2> QED BY <2>5, <2>6
<1> QED BY <1>6, <1>7

LEMMA EnoughEmpty ==
    ASSUME Searching, NEW k, NEW m \in Materials, NEW r, NEW h, At(routes, k, h), Laden(k, m, r, h) = {}
    PROVE  Enough(k, m, r, h)
<1>1. routes[k][h] \in StopSet
  BY StopPlaces
<1>2. routes[k][h].load[m] \in Nat
  BY <1>1 DEF StopSet
<1>3. SumOf(Loads, {}) = 0
  BY LoadsAre DEF Searching, Summed
<1> QED BY <1>2, <1>3 DEF Enough

LEMMA EnoughAlong ==
    ASSUME Searching, ~Expandable, NEW k, NEW m \in Materials, ~Straddled(k, m), NEW r, NEW h, Stretch(k, r, h)
    PROVE  Enough(k, m, r, h)
<1> DEFINE n == h - r
           Good == {i \in 0 .. n : Enough(k, m, r, r + i)}
<1>1. At(routes, k, h) /\ r \in 1 .. h
  BY DEF Stretch
<1>2. h \in 1 .. Len(routes[k]) /\ Len(routes[k]) \in Nat /\ h \in Nat /\ r \in Nat /\ r <= h /\ n \in Nat
  BY <1>1, StopPlaces
<1>3. ASSUME NEW i \in 0 .. n PROVE At(routes, k, r + i) /\ Stretch(k, r, r + i) /\ r + i \in Nat
  <2>1. r + i \in 1 .. Len(routes[k]) /\ r + i <= h /\ r + i \in Nat /\ r \in 1 .. r + i
    BY <1>1, <1>2
  <2>2. At(routes, k, r + i)
    BY <1>1, <2>1 DEF At
  <2>3. \A x \in r + 1 .. r + i - 1 : x \in r + 1 .. h - 1
    BY <1>2, <2>1
  <2> QED BY <2>1, <2>2, <2>3 DEF Stretch
<1>4. 0 \in Good
  <2>1. r + 0 = r /\ 0 \in 0 .. n
    BY <1>2
  <2>2. \A x : ~Passed(k, x, r, r)
    BY <1>2 DEF Passed
  <2>3. Laden(k, m, r, r) = {}
    BY <2>2 DEF Laden
  <2>4. At(routes, k, r)
    BY <1>3, <2>1
  <2>5. Enough(k, m, r, r)
    BY <2>3, <2>4, EnoughEmpty
  <2> QED BY <2>1, <2>5
<1>5. ASSUME NEW i \in 0 .. n - 1, i \in Good PROVE i + 1 \in Good
  <2>1. i \in 0 .. n /\ i + 1 \in 0 .. n /\ r + (i + 1) = (r + i) + 1
    BY <1>2
  <2>2. At(routes, k, r + i) /\ Stretch(k, r, r + i) /\ r + i \in Nat /\ At(routes, k, (r + i) + 1)
    BY <1>3, <2>1
  <2>3. Enough(k, m, r, r + i)
    BY <1>5
  <2>4. CASE routes[k][r + i].node[1] # "reload"
    <3>1. Enough(k, m, r, (r + i) + 1)
      BY <2>2, <2>3, <2>4, EnoughNext
    <3> QED BY <2>1, <3>1
  <2>5. CASE routes[k][r + i].node[1] = "reload"
    <3>1. i = 0
      <4> SUFFICES ASSUME i # 0 PROVE FALSE
        OBVIOUS
      <4>1. r + i \in r + 1 .. h - 1
        BY <1>2
      <4> QED BY <2>5, <4>1 DEF Stretch
    <3>2. r + i = r
      BY <1>2, <3>1
    <3>3. \A x : Passed(k, x, r, r + 1) => x[1] = "reload"
      <4>1. \A x : ~Passed(k, x, r, r)
        BY <1>2 DEF Passed
      <4>2. r \in Nat /\ r <= r
        BY <1>2
      <4>3. \A x : Passed(k, x, r, r + 1) <=> (Passed(k, x, r, r) \/ routes[k][r].node = x)
        BY <4>2, PassedNext
      <4>4. routes[k][r].node[1] = "reload"
        BY <2>5, <3>2
      <4> QED BY <4>1, <4>3, <4>4
    <3>4. Laden(k, m, r, r + 1) = {}
      <4> SUFFICES ASSUME NEW t \in Laden(k, m, r, r + 1) PROVE FALSE
        OBVIOUS
      <4>1. Passed(k, <<"task", t>>, r, r + 1) \/ Passed(k, <<"pickup", t>>, r, r + 1)
        BY DEF Laden
      <4>2. <<"task", t>>[1] = "reload" \/ <<"pickup", t>>[1] = "reload"
        BY <3>3, <4>1
      <4> QED BY <4>2
    <3>5. Enough(k, m, r, r + 1)
      BY <2>2, <3>2, <3>4, EnoughEmpty
    <3> QED BY <2>1, <3>2, <3>5
  <2> QED BY <2>4, <2>5
<1> HIDE DEF Good
<1>6. \A i \in 0 .. n : i \in Good
  BY <1>2, <1>4, <1>5, UpTo
<1>7. n \in Good /\ r + n = h
  BY <1>2, <1>6
<1> QED BY <1>7 DEF Good

\* The last fill of a route before one of its stops, or its start.
LEMMA LastFill ==
    ASSUME NEW k, NEW i \in Nat \ {0}
    PROVE  \E r \in 1 .. i : /\ r = 1 \/ routes[k][r].node[1] = "reload"
                             /\ \A x \in r + 1 .. i : routes[k][x].node[1] # "reload"
<1> DEFINE R == {x \in 1 .. i : x = 1 \/ routes[k][x].node[1] = "reload"}
<1>1. R \in SUBSET Int /\ 1 \in R
  OBVIOUS
<1>2. IsFiniteSet(R)
  <2>1. IsFiniteSet(1 .. i) /\ R \in SUBSET (1 .. i)
    BY FS_Interval
  <2> HIDE DEF R
  <2> QED BY <2>1, FS_Subset
<1>3. Max(R) \in R /\ \A y \in R : Max(R) >= y
  <2> HIDE DEF R
  <2> QED BY <1>1, <1>2, MaxIs
<1> DEFINE r == Max(R)
<1>4. r \in 1 .. i /\ (r = 1 \/ routes[k][r].node[1] = "reload")
  BY <1>3
<1>5. ASSUME NEW x \in r + 1 .. i PROVE routes[k][x].node[1] # "reload"
  <2>1. r \in Nat /\ x \in 1 .. i /\ x > r
    BY <1>4
  <2>2. x \notin R
    <3> HIDE DEF R
    <3> QED BY <1>3, <2>1
  <2> QED BY <2>1, <2>2
<1> HIDE DEF r
<1> QED BY <1>4, <1>5

\* What a bundle serves from the depot between two fills.
Served(k, m, a, b) ==
    {t \in ToSet(orders) : /\ Task(t).pickup = None /\ Task(t).material = m
                           /\ \E i \in a .. b : routes[k][i].node = <<"task", t>>}

LEMMA FillFits ==
    ASSUME Searching, ~Expandable, NEW k, k \in 1 .. Len(routes), Closed(routes[k]),
           NEW g \in Fills(routes[k]), NEW m \in Materials, ~Straddled(k, m)
    PROVE  SumOf(Loads, Served(k, m, g[1], g[2])) <= Capacity(bundles[k][1], m)
<1> DEFINE a == g[1]  b == g[2]  n == Len(routes[k])
<1>1. /\ a \in 1 .. n /\ b \in 1 .. n /\ a < b /\ \A i \in a + 1 .. b - 1 : routes[k][i].node[1] # "reload"
  BY DEF Fills
<1>2. k \in 1 .. K /\ n \in Nat
  <2>1. At(routes, k, 1)
    BY <1>1 DEF At
  <2> QED BY <2>1, StopPlaces
<1>3. n > 1 /\ routes[k][n].node = Depot
  <2>1. routes[k] # <<>>
    BY <1>1
  <2> QED BY <2>1 DEF Closed, Last
<1>4. PICK r \in 1 .. a : /\ r = 1 \/ routes[k][r].node[1] = "reload"
                          /\ \A x \in r + 1 .. a : routes[k][x].node[1] # "reload"
  <2>1. a \in Nat \ {0}
    BY <1>1
  <2> HIDE DEF a
  <2> QED BY <2>1, LastFill
<1> HIDE DEF a, b, n
<1>5. a \in Nat /\ b \in Nat /\ r \in Nat
  BY <1>1, <1>2, <1>4
<1>6. ASSUME NEW h \in 1 .. n, h = b \/ (h = b + 1 /\ routes[k][b].node[1] # "reload"),
             Served(k, m, a, b) \in SUBSET Laden(k, m, r, h)
      PROVE  SumOf(Loads, Served(k, m, a, b)) <= Capacity(bundles[k][1], m)
  <2>1. At(routes, k, h)
    BY DEF At, n
  <2>2. r \in 1 .. h /\ h \in Nat
    BY <1>1, <1>2, <1>4, <1>5, <1>6
  <2>3. \A i \in r + 1 .. h - 1 : routes[k][i].node[1] # "reload"
    <3> SUFFICES ASSUME NEW i \in r + 1 .. h - 1 PROVE routes[k][i].node[1] # "reload"
      OBVIOUS
    <3>1. i \in r + 1 .. a \/ i \in a + 1 .. b - 1 \/ (i = b /\ h = b + 1)
      BY <1>5, <1>6, <2>2
    <3> QED BY <1>1, <1>4, <1>5, <1>6, <3>1
  <2>4. Stretch(k, r, h)
    BY <1>4, <2>1, <2>2, <2>3 DEF Stretch
  <2>5. SumOf(Loads, Laden(k, m, r, h)) <= routes[k][h].load[m]
    BY <2>4, EnoughAlong DEF Enough
  <2>6. /\ SumOf(Loads, Served(k, m, a, b)) <= SumOf(Loads, Laden(k, m, r, h)) /\ SumOf(Loads, Served(k, m, a, b)) \in Nat
        /\ SumOf(Loads, Laden(k, m, r, h)) \in Nat
    <3>1. Laden(k, m, r, h) \in SUBSET ToSet(orders)
      BY LadenTyped
    <3>2. Laden(k, m, r, h) \in SUBSET Laden(k, m, r, h)
      OBVIOUS
    <3> QED BY <1>6, <3>1, <3>2, LoadsAre DEF Searching
  <2>7. StopFits(k, routes[k][h])
    BY <2>1 DEF Searching, RoutesOk, StopsOk
  <2>8. routes[k][h].load[m] <= Capacity(bundles[k][1], m)
    BY <2>7 DEF StopFits
  <2>9. Capacity(bundles[k][1], m) \in Nat
    BY <1>2, CapacityIs DEF Searching
  <2>10. routes[k][h].load[m] \in Nat
    <3>1. routes[k][h] \in StopSet
      BY <2>1, StopPlaces
    <3> QED BY <3>1 DEF StopSet
  <2> QED BY <2>5, <2>6, <2>8, <2>9, <2>10
<1>7. ASSUME NEW h, h \in {b, b + 1}, h = b => routes[k][b].node[1] # "task"
      PROVE  Served(k, m, a, b) \in SUBSET Laden(k, m, r, h)
  <2> SUFFICES ASSUME NEW t \in Served(k, m, a, b) PROVE t \in Laden(k, m, r, h)
    OBVIOUS
  <2>1. t \in ToSet(orders) /\ Task(t).pickup = None /\ Task(t).material = m
    BY DEF Served
  <2>2. PICK i \in a .. b : routes[k][i].node = <<"task", t>>
    BY DEF Served
  <2>3. routes[k][i].node[1] = "task"
    BY <2>2
  <2>4. h = b => i # b
    BY <1>7, <2>3
  <2>5. i \in r .. h - 1
    BY <1>4, <1>5, <1>7, <2>4
  <2>6. Passed(k, <<"task", t>>, r, h)
    BY <2>2, <2>5 DEF Passed
  <2> QED BY <2>1, <2>6 DEF Laden
<1>8. CASE routes[k][b].node[1] = "task"
  <2>1. b # n
    BY <1>3, <1>8, DepotStop
  <2>2. b + 1 \in 1 .. n
    BY <1>1, <1>2, <2>1
  <2>3. b + 1 # b
    BY <1>5
  <2>4. Served(k, m, a, b) \in SUBSET Laden(k, m, r, b + 1)
    BY <1>7, <2>3
  <2>5. SumOf(Loads, Served(k, m, a, b)) <= Capacity(bundles[k][1], m)
    BY <1>6, <1>8, <2>2, <2>4
  <2> QED BY <2>5 DEF a, b
<1>9. CASE routes[k][b].node[1] # "task"
  <2>1. Served(k, m, a, b) \in SUBSET Laden(k, m, r, b)
    BY <1>7, <1>9
  <2>2. SumOf(Loads, Served(k, m, a, b)) <= Capacity(bundles[k][1], m)
    BY <1>1, <1>6, <2>1
  <2> QED BY <2>2 DEF a, b
<1> QED BY <1>8, <1>9

LEMMA LoadsSound ==
    ASSUME Dispatched
    PROVE  LoadsFit
<1> SUFFICES ASSUME NEW k \in 1 .. Len(routes), NEW g \in Fills(routes[k]),
                    NEW m \in {m \in Materials : ~Straddled(k, m)}
             PROVE  Total([t \in {t \in ToSet(orders) :
                                     /\ Task(t).pickup = None /\ Task(t).material = m
                                     /\ \E i \in g[1] .. g[2] : routes[k][i].node = <<"task", t>>} |-> Task(t).load])
                    <= Capacity(bundles[k][1], m)
  BY DEF LoadsFit
<1>1. Searching /\ AllClosed
  BY DEF Dispatched, Routed
<1>2. Closed(routes[k])
  BY <1>1 DEF AllClosed
<1>3. ~Expandable
  <2> SUFFICES ASSUME Expandable PROVE FALSE
    OBVIOUS
  <2>1. \A t \in ToSet(orders) : Task(t).load = 0
    BY DEF Expandable, Plain
  <2>2. Materials = {}
    BY <2>1 DEF Materials
  <2> QED BY <2>2
<1>4. SumOf(Loads, Served(k, m, g[1], g[2])) <= Capacity(bundles[k][1], m)
  BY <1>1, <1>2, <1>3, FillFits
<1> DEFINE S == {t \in ToSet(orders) : /\ Task(t).pickup = None /\ Task(t).material = m
                                       /\ \E i \in g[1] .. g[2] : routes[k][i].node = <<"task", t>>}
<1>5. Served(k, m, g[1], g[2]) = S
  BY DEF Served
<1>6. [t \in S |-> Loads[t]] = [t \in S |-> Task(t).load]
  BY DEF Loads
<1>7. SumOf(Loads, S) = Total([t \in S |-> Task(t).load])
  BY <1>6 DEF SumOf
<1>8. Total([t \in S |-> Task(t).load]) <= Capacity(bundles[k][1], m)
  <2> HIDE DEF S
  <2> QED BY <1>4, <1>5, <1>7
<1> QED BY <1>8

-----------------------------------------------------------------------------
(* What is dispatched can be carried out *)

LEMMA ScheduleIs == SolveInv => ScheduleSound
<1> SUFFICES ASSUME SolveInv PROVE ScheduleSound
  OBVIOUS
<1>1. SolvePhases
  BY DEF SolveInv
<1>2. CASE pc = "done" /\ Dispatched
  BY <1>2, WindowsSound, PlacesSound, DrivingSound, LoadsSound DEF ScheduleSound
<1>3. CASE packages = {} /\ (pc = "done" => routes = <<>>)
  <2>1. WorkInsideWindows /\ OnePlaceAtATime /\ PackagesDriveable
    BY <1>3 DEF WorkInsideWindows, OnePlaceAtATime, PackagesDriveable
  <2>2. LoadsFit
    <3>1. Done => 1 .. Len(routes) = {}
      BY <1>3 DEF Done
    <3> QED BY <3>1 DEF LoadsFit
  <2> QED BY <2>1, <2>2 DEF ScheduleSound
<1>4. (packages = {} /\ (pc = "done" => routes = <<>>)) \/ (pc = "done" /\ Dispatched)
  BY <1>1 DEF SolvePhases, Idle, Abandoned
<1> QED BY <1>2, <1>3, <1>4

\* In every state what is dispatched can be carried out: the work of every package lies
\* inside its task's windows, a crew is at one place at a time and has the time to
\* drive between its packages, and what is aboard between two reloads fits the bundle
\* -- the schedule _extract_work_packages reads off whatever routes the search built.
THEOREM RoutingSchedules == RoutingSpec => []ScheduleSound
BY ScheduleIs, SolveInit, SolveNext, PTL DEF RoutingSpec

-----------------------------------------------------------------------------
(* No task is lost *)

LEMMA AppendedSet ==
    ASSUME NEW S, NEW T, NEW p \in Seq(S), NEW q \in Seq(T)
    PROVE  ToSet(p \o q) = ToSet(p) \cup ToSet(q)
<1> DEFINE r == p \o q  U == S \cup T
<1>1. p \in Seq(U) /\ q \in Seq(U) /\ Len(p) \in Nat /\ Len(q) \in Nat
  OBVIOUS
<1>2. /\ Len(r) = Len(p) + Len(q) /\ DOMAIN r = 1 .. Len(r) /\ DOMAIN p = 1 .. Len(p) /\ DOMAIN q = 1 .. Len(q)
      /\ \A i \in 1 .. Len(p) : r[i] = p[i]
      /\ \A i \in 1 .. Len(q) : r[Len(p) + i] = q[i]
  BY <1>1
<1> HIDE DEF r
<1>3. ASSUME NEW x \in ToSet(r) PROVE x \in ToSet(p) \cup ToSet(q)
  <2>1. PICK i \in 1 .. Len(r) : r[i] = x
    BY <1>2 DEF ToSet
  <2>2. CASE i \in 1 .. Len(p)
    BY <1>2, <2>1, <2>2 DEF ToSet
  <2>3. CASE i \notin 1 .. Len(p)
    <3>1. i - Len(p) \in 1 .. Len(q) /\ Len(p) + (i - Len(p)) = i
      BY <1>1, <1>2, <2>3
    <3>2. q[i - Len(p)] = x
      BY <1>2, <2>1, <3>1
    <3> QED BY <1>2, <3>1, <3>2 DEF ToSet
  <2> QED BY <2>2, <2>3
<1>4. ASSUME NEW x \in ToSet(p) \cup ToSet(q) PROVE x \in ToSet(r)
  <2>1. CASE x \in ToSet(p)
    <3>1. PICK i \in 1 .. Len(p) : p[i] = x
      BY <1>2, <2>1 DEF ToSet
    <3>2. i \in DOMAIN r /\ r[i] = x
      BY <1>1, <1>2, <3>1
    <3> QED BY <3>2 DEF ToSet
  <2>2. CASE x \in ToSet(q)
    <3>1. PICK i \in 1 .. Len(q) : q[i] = x
      BY <1>2, <2>2 DEF ToSet
    <3>2. Len(p) + i \in DOMAIN r /\ r[Len(p) + i] = x
      BY <1>1, <1>2, <3>1
    <3> QED BY <3>2 DEF ToSet
  <2> QED BY <2>1, <2>2
<1>5. ToSet(r) = ToSet(p) \cup ToSet(q)
  BY <1>3, <1>4
<1> QED BY <1>5 DEF r

Seen(t) == Visited(<<"task", t>>)
Lone == {t \in ToSet(orders) : Task(t).group = None /\ ~Seen(t)}
Lost == {g \in {Task(t).group : t \in ToSet(orders)} \ {None} :
            \A t \in ToSet(orders) : Task(t).group = g => ~Seen(t)}
LEMMA ReportedIs ==
    ASSUME Ready
    PROVE  ToSet(Reported) = ToSet(preInf) \cup Lone \cup Lost
<1> DEFINE T == ToSet(orders)
           single == Filtered(orders, Lone)
           G == {Task(t).group : t \in T}
<1>1. Unserved = single \o SetToSeq(Lost)
  BY Zenon DEF Unserved, Lone, Lost, Seen
<1>2. orders \in Seq(inp.known) /\ preInf \in Seq(inp.known) /\ IsFiniteSet(T)
  BY TasksFacts DEF Ready, Prepared
<1>3. single \in Seq(inp.known) /\ ToSet(single) = Lone
  <2>1. single \in Seq(inp.known) /\ ToSet(single) = T \cap Lone
    BY <1>2, FilteredFacts
  <2> QED BY <2>1 DEF Lone
<1>4. IsFiniteSet(Lost)
  <2> DEFINE f == [t \in T |-> Task(t).group]
  <2>1. G = {f[t] : t \in T} /\ Lost \in SUBSET G
    BY DEF Lost
  <2> HIDE DEF f, G, T
  <2>2. IsFiniteSet(G)
    BY <1>2, <2>1, ImageFinite
  <2> QED BY <2>1, <2>2, FS_Subset
<1>5. SetToSeq(Lost) \in Seq(Lost) /\ ToSet(SetToSeq(Lost)) = Lost
  BY <1>4, SetToSeqFacts
<1> HIDE DEF single
<1>6. Unserved \in Seq(inp.known \cup Lost) /\ ToSet(Unserved) = Lone \cup Lost
  <2>1. ToSet(Unserved) = Lone \cup Lost
    BY <1>1, <1>3, <1>5, AppendedSet
  <2>2. single \in Seq(inp.known \cup Lost) /\ SetToSeq(Lost) \in Seq(inp.known \cup Lost)
    BY <1>3, <1>5
  <2> QED BY <1>1, <2>1, <2>2
<1>7. ToSet(preInf \o Unserved) = ToSet(preInf) \cup ToSet(Unserved)
  BY <1>2, <1>6, AppendedSet
<1> QED BY <1>6, <1>7 DEF Reported

\* A visited task has exactly one package, one that was not visited has none.
LEMMA VisitedIs ==
    ASSUME Searching, NEW t
    PROVE  Seen(t) <=> \E k, i : At(routes, k, i) /\ routes[k][i].node = <<"task", t>>
<1>1. ASSUME Seen(t) PROVE \E k, i : At(routes, k, i) /\ routes[k][i].node = <<"task", t>>
  <2>1. PICK s \in Stops : s.node = <<"task", t>>
    BY <1>1 DEF Seen, Visited
  <2>2. PICK k, i : At(routes, k, i) /\ s = StopAt(k, i)
    BY StopsAre
  <2>3. StopAt(k, i).node = routes[k][i].node
    BY StopsAre
  <2> QED BY <2>1, <2>2, <2>3
<1>2. ASSUME NEW k, NEW i, At(routes, k, i), routes[k][i].node = <<"task", t>> PROVE Seen(t)
  BY <1>2, StopsAre DEF Seen, Visited
<1> QED BY <1>1, <1>2

LEMMA PackageMade ==
    ASSUME Searching, NEW k, NEW i, At(routes, k, i), routes[k][i].node[1] = "task"
    PROVE  PackageAt(k, i) \in Dispatch
<1> DEFINE s == StopAt(k, i)
<1>1. s \in Stops /\ s.veh = k /\ s.pos = i /\ s.node = routes[k][i].node /\ s.at = routes[k][i].at
      /\ s.fin = EndOf(k, routes[k][i])
  BY StopsAre
<1> HIDE DEF s
<1>2. s \in TaskStops
  BY <1>1 DEF TaskStops
<1>3. CASE ~Expandable
  <2>1. TravelIn(s) = Drive(k, i)
    BY <1>1, <1>3 DEF TravelIn, Drive, Legstart, Pace
  <2>2. PackageAt(k, i) = [task |-> s.node[2], bundle |-> bundles[s.veh], operator |-> OperatorOf(s.node[2]),
                           start |-> s.at, finish |-> s.fin, travel |-> TravelIn(s)]
    BY <1>1, <2>1 DEF PackageAt
  <2> QED BY <1>2, <1>3, <2>2 DEF Dispatch, Packages
<1>4. CASE Expandable
  <2>1. k = 1
    <3>1. K = 1
      BY <1>4, ExpandedOne
    <3> QED BY <3>1, StopPlaces
  <2>2. ExpandedTravel(s) = Drive(k, i)
    BY <1>1, <1>4, <2>1 DEF ExpandedTravel, Drive, Legstart, Pace
  <2>3. PackageAt(k, i) = [task |-> s.node[2], bundle |-> bundles[1], operator |-> OperatorOf(s.node[2]),
                           start |-> s.at, finish |-> s.fin, travel |-> ExpandedTravel(s)]
    BY <1>1, <2>1, <2>2 DEF PackageAt
  <2> QED BY <1>2, <1>4, <2>3 DEF Dispatch, ExpandedPackages
<1> QED BY <1>3, <1>4

LEMMA DispatchedOnce ==
    ASSUME Searching, NEW t, Seen(t)
    PROVE  \E p \in Dispatch : p.task = t /\ {q \in Dispatch : q.task = t} = {p}
<1>1. PICK k, i : At(routes, k, i) /\ routes[k][i].node = <<"task", t>>
  BY VisitedIs
<1> DEFINE p == PackageAt(k, i)
<1>2. routes[k][i].node[1] = "task" /\ routes[k][i].node[2] = t
  BY <1>1
<1>3. p \in Dispatch /\ p.task = t
  BY <1>1, <1>2, PackageMade DEF PackageAt
<1>4. ASSUME NEW q \in Dispatch, q.task = t PROVE q = p
  <2>1. PICK l, j : MadeFor(q, l, j)
    BY DispatchIs
  <2>2. At(routes, l, j) /\ routes[l][j].node[1] = "task" /\ q = PackageAt(l, j) /\ routes[l][j].node[2] = t
    BY <1>4, <2>1, MadeIs DEF MadeFor
  <2>3. routes[l][j].node \in Nodes
    BY <2>2, StopPlaces
  <2>4. routes[l][j].node = <<"task", t>>
    BY <2>2, <2>3, NodeKinds
  <2>5. <<"task", t>> # Depot
    BY DEF Depot
  <2>6. l = k /\ j = i
    BY <1>1, <2>2, <2>4, <2>5 DEF Searching, RoutesOk, NodesOnce
  <2> QED BY <2>2, <2>6
<1> HIDE DEF p
<1> QED BY <1>3, <1>4

LEMMA AccountedIs == SolveInv => Accounted
<1> SUFFICES ASSUME SolveInv, pc = "done", NEW t \in ToSet(Known(inp, cluster))
             PROVE  \/ /\ Cardinality({p \in packages : p.task = t}) = 1
                       /\ t \in ToSet(infeasible) => \E u \in ToSet(orders) : Task(u).group = t
                    \/ {t, Task(t).group} \cap ToSet(infeasible) # {}
                    \/ Task(t).group # None /\ \E p \in packages : Task(p.task).group = Task(t).group
  BY DEF Accounted, Done
<1>1. Abandoned \/ Dispatched
  BY DEF SolveInv, SolvePhases
<1>2. CASE Abandoned
  BY <1>2 DEF Abandoned
<1>3. CASE Dispatched
  <2>1. Searching /\ Ready /\ packages = Dispatch /\ infeasible = Reported
    BY <1>3 DEF Dispatched, Routed, Searching
  <2>2. /\ ToSet(orders) \cap ToSet(preInf) = {} /\ t \in ToSet(orders) \cup ToSet(preInf)
    BY <2>1 DEF Ready, Prepared
  <2>3. ToSet(infeasible) = ToSet(preInf) \cup Lone \cup Lost
    BY <2>1, ReportedIs
  <2>4. CASE t \in ToSet(preInf)
    BY <2>3, <2>4
  <2>5. CASE t \in ToSet(orders) /\ Seen(t)
    <3>1. Cardinality({p \in packages : p.task = t}) = 1
      <4>1. PICK p \in Dispatch : p.task = t /\ {q \in Dispatch : q.task = t} = {p}
        BY <2>1, <2>5, DispatchedOnce
      <4>2. Cardinality({p}) = 1
        BY FS_Singleton
      <4>3. {q \in packages : q.task = t} = {p}
        BY <2>1, <4>1
      <4> QED BY <4>2, <4>3
    <3>2. ASSUME t \in ToSet(infeasible) PROVE \E u \in ToSet(orders) : Task(u).group = t
      <4>1. t \notin ToSet(preInf) /\ t \notin Lone
        BY <2>2, <2>5 DEF Lone
      <4>2. t \in Lost
        BY <2>3, <3>2, <4>1
      <4> QED BY <4>2 DEF Lost
    <3> QED BY <3>1, <3>2
  <2>6. CASE t \in ToSet(orders) /\ ~Seen(t) /\ Task(t).group = None
    <3>1. t \in Lone
      BY <2>6 DEF Lone
    <3> QED BY <2>3, <3>1
  <2>7. CASE t \in ToSet(orders) /\ Task(t).group # None /\ \E u \in ToSet(orders) : Task(u).group = Task(t).group /\ Seen(u)
    <3>1. PICK u \in ToSet(orders) : Task(u).group = Task(t).group /\ Seen(u)
      BY <2>7
    <3>2. PICK p \in Dispatch : p.task = u
      BY <2>1, <3>1, DispatchedOnce
    <3>3. p \in packages /\ Task(p.task).group = Task(t).group
      BY <2>1, <3>1, <3>2
    <3> QED BY <2>7, <3>3
  <2>8. CASE t \in ToSet(orders) /\ Task(t).group # None
             /\ \A u \in ToSet(orders) : Task(u).group = Task(t).group => ~Seen(u)
    <3>1. Task(t).group \in Lost
      BY <2>8 DEF Lost
    <3> QED BY <2>3, <3>1
  <2> QED BY <2>2, <2>4, <2>5, <2>6, <2>7, <2>8
<1> QED BY <1>1, <1>2, <1>3

\* Once a cluster is done each of its tasks is in exactly one work package, or is
\* reported by its own name or its group's, or its group is served by another member:
\* the extraction over routes, dropped nodes and infeasible tasks leaves out none.
THEOREM RoutingAccounts == RoutingSpec => []Accounted
BY AccountedIs, SolveInit, SolveNext, PTL DEF RoutingSpec

-----------------------------------------------------------------------------
(* Detours of timed restrictions *)

LEMMA RestrictionWindows ==
    ASSUME Ready, NEW k, NEW r \in Restrictions(k), NEW w \in r.windows
    PROVE  w[1] \in Int /\ w[2] \in Int
<1>1. PICK p \in inp.polygons : r.windows = Clamp(p.windows, Horizon)
  BY DEF Restrictions
<1>2. p.windows \in Spans
  BY DEF Ready, Divisible, RowsOk, Polygon
<1>3. PICK u \in p.windows : Clamped(w, u, Horizon)
  BY <1>1, ClampFrom
<1>4. u[1] \in Int /\ u[2] \in Int
  BY <1>2, PartsOf
<1> QED BY <1>3, <1>4, LimitsAssumption DEF Clamped, Largest, Smallest

LEMMA CutsAre ==
    ASSUME Ready
    PROVE  /\ Cuts(Restrictions(1)) \in SUBSET Nat /\ IsFiniteSet(Cuts(Restrictions(1))) /\ 0 \in Cuts(Restrictions(1))
           /\ \A r \in Restrictions(1) : \A w \in r.windows :
                 0 < w[1] /\ w[1] < Horizon => w[1] \in Cuts(Restrictions(1))
<1> DEFINE R == Restrictions(1)
           E == UNION {{w[1], w[2] + 1} : w \in UNION {r.windows : r \in R}}
<1>1. Cuts(R) = {0} \cup {e \in E : 0 < e /\ e < Horizon}
  BY DEF Cuts
<1>2. E \in SUBSET Int
  <2> SUFFICES ASSUME NEW r \in R, NEW w \in r.windows PROVE w[1] \in Int /\ w[2] + 1 \in Int
    OBVIOUS
  <2> QED BY RestrictionWindows
<1>3. \A r \in R : \A w \in r.windows : w[1] \in E
  OBVIOUS
<1> HIDE DEF E, R
<1>4. Horizon \in Nat
  BY LimitsAssumption
<1>5. Cuts(R) \in SUBSET (0 .. Horizon) /\ 0 \in Cuts(R)
  <2>1. 0 \in Cuts(R)
    BY <1>1
  <2>2. ASSUME NEW c \in Cuts(R) PROVE c \in 0 .. Horizon
    <3>1. c = 0 \/ (c \in Int /\ 0 < c /\ c < Horizon)
      BY <1>1, <1>2
    <3> QED BY <1>4, <3>1
  <2> QED BY <2>1, <2>2
<1>6. IsFiniteSet(Cuts(R))
  <2>1. IsFiniteSet(0 .. Horizon)
    BY <1>4, FS_Interval
  <2> QED BY <1>5, <2>1, FS_Subset
<1>7. \A r \in R : \A w \in r.windows : 0 < w[1] /\ w[1] < Horizon => w[1] \in Cuts(R)
  BY <1>1, <1>3
<1> QED BY <1>4, <1>5, <1>6, <1>7 DEF R

LEMMA SegmentIs ==
    ASSUME Ready, NEW s \in Nat
    PROVE  /\ Segment(s) \in Nat /\ Segment(s) <= s
           /\ \A c \in Cuts(Restrictions(1)) : c <= s => c <= Segment(s)
<1> DEFINE C == {c \in Cuts(Restrictions(1)) : c <= s}
<1>1. C \in SUBSET Nat /\ C \in SUBSET Int /\ 0 \in C /\ IsFiniteSet(C)
  <2>1. Cuts(Restrictions(1)) \in SUBSET Nat /\ IsFiniteSet(Cuts(Restrictions(1))) /\ 0 \in Cuts(Restrictions(1))
    BY CutsAre
  <2>2. IsFiniteSet(C)
    <3>1. C \in SUBSET Cuts(Restrictions(1))
      OBVIOUS
    <3> HIDE DEF C
    <3> QED BY <2>1, <3>1, FS_Subset
  <2> QED BY <2>1, <2>2
<1>2. Segment(s) = Max(C)
  BY DEF Segment
<1>3. Max(C) \in C /\ \A y \in C : Max(C) >= y
  <2> HIDE DEF C
  <2> QED BY <1>1, MaxIs
<1> QED BY <1>1, <1>2, <1>3

\* Whatever is in force between two seconds of a segment is in force at its start.
LEMMA SegmentCovers ==
    ASSUME Ready, NEW a \in Nat, NEW d \in Nat, NEW b \in Nat, a <= d, d <= b, b < Horizon, Segment(b) = Segment(a)
    PROVE  ActivePolygons(Restrictions(1), d, b)
              \subseteq ActivePolygons(Restrictions(1), Segment(a), Segment(a))
<1> DEFINE c == Segment(a)
<1>1. c \in Nat /\ c <= a /\ \A x \in Cuts(Restrictions(1)) : x <= b => x <= c
  BY SegmentIs
<1> HIDE DEF c
<1>2. ASSUME NEW r \in Restrictions(1), NEW w \in r.windows, d <= w[2], b >= w[1]
      PROVE  c <= w[2] /\ c >= w[1]
  <2>1. w[1] \in Int /\ w[2] \in Int
    BY RestrictionWindows
  <2>2. c <= w[2]
    BY <1>1, <1>2, <2>1
  <2>3. c >= w[1]
    <3> SUFFICES ASSUME w[1] > c PROVE FALSE
      BY <1>1, <2>1
    <3>1. 0 < w[1] /\ w[1] < Horizon
      BY <1>1, <1>2, <2>1, LimitsAssumption
    <3>2. w[1] \in Cuts(Restrictions(1))
      BY <3>1, CutsAre
    <3>3. w[1] <= c
      BY <1>1, <1>2, <3>2
    <3> QED BY <1>1, <2>1, <3>3
  <2> QED BY <2>2, <2>3
<1>3. ASSUME NEW r \in ActivePolygons(Restrictions(1), d, b) PROVE r \in ActivePolygons(Restrictions(1), c, c)
  <2>1. r \in Restrictions(1) /\ (r.windows = {} \/ \E w \in r.windows : d <= w[2] /\ b >= w[1])
    BY DEF ActivePolygons
  <2>2. r.windows = {} \/ \E w \in r.windows : c <= w[2] /\ c >= w[1]
    BY <1>2, <2>1
  <2> QED BY <2>1, <2>2 DEF ActivePolygons
<1>4. ActivePolygons(Restrictions(1), d, b) \subseteq ActivePolygons(Restrictions(1), c, c)
  BY <1>3
<1> QED BY <1>4 DEF c

LEMMA LegPricedLoop ==
    ASSUME Routed, ~Expandable, final \/ DOMAIN Activated = {}, NEW leg \in Legs
    PROVE  Seconds(leg[1], leg[2].node, leg[3].node) >= LegSeconds(leg)
<1> DEFINE k == leg[1]  n == leg[2].node  m == leg[3].node
<1>1. Searching /\ Ready /\ OverridesOk
  BY DEF Routed, Searching
<1>2. /\ k \in 1 .. K /\ n \in Nodes /\ m \in Nodes /\ LegFits(k, leg[2], leg[3]) /\ LegSeconds(leg) \in Nat
      /\ LegSeconds(leg) <= ArcSeconds(k, n, m, Restrictions(k))
  BY <1>1, LegTyped
<1>3. Seconds(k, n, m) \in Nat /\ ArcSeconds(k, n, m, Restrictions(k)) \in Nat
  BY <1>1, <1>2, PricesTyped
<1>4. CASE final
  <2>1. n # m
    BY <1>2 DEF LegFits
  <2>2. Seconds(k, n, m) >= ArcSeconds(k, n, m, Restrictions(k))
    BY <1>2, <1>4, <2>1 DEF Routed, AllPriced
  <2> HIDE DEF k, n, m
  <2>3. Seconds(k, n, m) >= LegSeconds(leg)
    BY <1>2, <1>3, <2>2
  <2> QED BY <2>3 DEF k, n, m
<1>5. CASE DOMAIN Activated = {}
  <2> DEFINE H == {g \in Legs : LegSeconds(g) > Seconds(g[1], g[2].node, g[3].node)}
  <2>1. DOMAIN Activated = {<<g[1], g[2].node, g[3].node>> : g \in H}
    BY DEF Activated
  <2>2. leg \notin H
    BY <1>5, <2>1
  <2>3. ~(LegSeconds(leg) > Seconds(k, n, m))
    BY <2>2
  <2> HIDE DEF k, n, m
  <2>4. Seconds(k, n, m) >= LegSeconds(leg)
    BY <1>2, <1>3, <2>3
  <2> QED BY <2>4 DEF k, n, m
<1> QED BY <1>4, <1>5

LEMMA LegPricedSegment ==
    ASSUME Routed, Expandable, NEW leg \in Legs, leg[3].at < Horizon, Segment(leg[3].at) = Segment(leg[2].at)
    PROVE  ExpandedSeconds(leg[2], leg[3].node) >= LegSeconds(leg)
<1> DEFINE r == leg[2]  s == leg[3]  d == EndOf(1, r)
           R == ActivePolygons(Restrictions(1), d, s.at)
           Q == ActivePolygons(Restrictions(1), Segment(r.at), Segment(r.at))
<1>1. Searching /\ Ready /\ OverridesOk
  BY DEF Routed, Searching
<1>2. leg[1] \in 1 .. K /\ r \in StopSet /\ s \in StopSet /\ r.node \in Nodes /\ s.node \in Nodes /\ LegFits(leg[1], r, s)
  BY <1>1, LegTyped
<1>3. K = 1 /\ leg[1] = 1
  BY <1>1, <1>2, ExpandedOne
<1>4. r.at \in Nat /\ d \in Nat /\ s.at \in Nat /\ r.at <= d
  BY <1>1, <1>2, <1>3, EndsTyped
<1>5. d <= s.at
  <2>1. s.at - EndOf(1, r) >= Pace(1, r, s.node)
    BY <1>2, <1>3 DEF LegFits
  <2>2. Pace(1, r, s.node) \in Nat
    BY <1>1, <1>2, <1>3, PaceTyped
  <2> QED BY <1>4, <2>1, <2>2
<1>6. R \subseteq Q
  <2> DEFINE a == r.at  b == s.at
  <2>1. a \in Nat /\ d \in Nat /\ b \in Nat /\ a <= d /\ d <= b /\ b < Horizon /\ Segment(b) = Segment(a)
    BY <1>4, <1>5
  <2> HIDE DEF a, b, d
  <2>2. ActivePolygons(Restrictions(1), d, b) \subseteq ActivePolygons(Restrictions(1), Segment(a), Segment(a))
    BY <1>1, <2>1, SegmentCovers
  <2> QED BY <2>2 DEF a, b
<1>7. PolygonsOk(Q)
  <2>1. PolygonsOk(Restrictions(1))
    BY <1>1, RestrictionsOk DEF Ready, Divisible
  <2>2. Q \in SUBSET Restrictions(1)
    BY DEF ActivePolygons
  <2> HIDE DEF Q
  <2>3. IsFiniteSet(Q)
    BY <2>1, <2>2, FS_Subset DEF PolygonsOk
  <2> QED BY <2>1, <2>2, <2>3 DEF PolygonsOk
<1>8. LegSeconds(leg) = ArcSeconds(1, r.node, s.node, R)
  BY <1>3 DEF LegSeconds, EndOf
<1>9. ExpandedSeconds(r, s.node) = ArcSeconds(1, r.node, s.node, Q)
  BY DEF ExpandedSeconds
<1> HIDE DEF Q, R
<1>10. ArcSeconds(1, r.node, s.node, R) \in Nat /\ ArcSeconds(1, r.node, s.node, R) <= ArcSeconds(1, r.node, s.node, Q)
  BY <1>1, <1>2, <1>6, <1>7, ArcFacts
<1>11. ArcSeconds(1, r.node, s.node, Q) \in Nat
  BY <1>1, <1>2, <1>7, ArcFacts
<1>12. ExpandedSeconds(r, s.node) >= LegSeconds(leg)
  BY <1>8, <1>9, <1>10, <1>11
<1> QED BY <1>12

LEMMA DetoursIs == SolveInv => TimedDetoursPriced
<1> SUFFICES ASSUME SolveInv, pc = "done", ~improved, NEW leg \in Legs
             PROVE  IF Expandable
                    THEN leg[3].at < Horizon /\ Segment(leg[3].at) = Segment(leg[2].at)
                            => ExpandedSeconds(leg[2], leg[3].node) >= LegSeconds(leg)
                    ELSE Seconds(leg[1], leg[2].node, leg[3].node) >= LegSeconds(leg)
  BY DEF TimedDetoursPriced, Done
<1>1. Abandoned \/ Dispatched
  BY DEF SolveInv, SolvePhases
<1>2. CASE Abandoned
  <2>1. 1 .. Len(routes) = {}
    BY <1>2 DEF Abandoned
  <2> QED BY <2>1 DEF Legs
<1>3. CASE Dispatched
  <2>1. Routed /\ (~Expandable => (final \/ DOMAIN Activated = {}))
    BY <1>3 DEF Dispatched
  <2> QED BY <2>1, LegPricedLoop, LegPricedSegment
<1> QED BY <1>1, <1>2, <1>3

\* Once a cluster is done, unless the improvement pass replaced its routes, a leg was
\* priced with every timed restriction in force while it is driven: by the passes of
\* the refinement, which ends when nothing is left to price or with all of them priced,
\* or by the segments of the time-expanded model.
THEOREM RoutingDetours == RoutingSpec => []TimedDetoursPriced
BY DetoursIs, SolveInit, SolveNext, PTL DEF RoutingSpec

-----------------------------------------------------------------------------
(* The warm start: routes under construction *)

WarmNodes == ({"task", "pickup"} \X ToSet(orders)) \cup ({"reload"} \X Nat)
Bundles == 1 .. K
On(rs, k, i) == k \in Bundles /\ i \in 1 .. Len(rs[k])

\* Node x is put at the end of route k.
Pushed(rs, qs, k, x) ==
    /\ k \in Bundles /\ x \in WarmNodes
    /\ rs \in [Bundles -> Seq(WarmNodes)] /\ qs \in [Bundles -> Seq(WarmNodes)]
    /\ \A l \in Bundles : l # k => qs[l] = rs[l]
    /\ Len(qs[k]) = Len(rs[k]) + 1 /\ qs[k][Len(rs[k]) + 1] = x
    /\ \A i \in 1 .. Len(rs[k]) : qs[k][i] = rs[k][i]

PutOn(rs, qs, k, x) == qs = [rs EXCEPT ![k] = @ \o <<x>>]
LEMMA PushedOn ==
    ASSUME NEW rs \in [Bundles -> Seq(WarmNodes)], NEW k \in Bundles, NEW x \in WarmNodes, NEW qs,
           PutOn(rs, qs, k, x)
    PROVE  Pushed(rs, qs, k, x)
<1>1. rs[k] \in Seq(WarmNodes) /\ Len(rs[k]) \in Nat
  OBVIOUS
<1>2. /\ rs[k] \o <<x>> \in Seq(WarmNodes) /\ Len(rs[k] \o <<x>>) = Len(rs[k]) + 1
      /\ (rs[k] \o <<x>>)[Len(rs[k]) + 1] = x
      /\ \A i \in 1 .. Len(rs[k]) : (rs[k] \o <<x>>)[i] = rs[k][i]
  BY <1>1
<1>3. qs[k] = rs[k] \o <<x>> /\ \A l \in Bundles : l # k => qs[l] = rs[l]
  BY DEF PutOn
<1>4. qs \in [Bundles -> Seq(WarmNodes)]
  BY <1>2 DEF PutOn
<1> QED BY <1>2, <1>3, <1>4 DEF Pushed

LEMMA PushedAt ==
    ASSUME NEW rs, NEW qs, NEW k, NEW x, Pushed(rs, qs, k, x)
    PROVE  /\ \A l, i : On(qs, l, i) <=> On(rs, l, i) \/ (l = k /\ i = Len(rs[k]) + 1)
           /\ \A l, i : On(rs, l, i) => qs[l][i] = rs[l][i] /\ i \in Nat /\ ~(l = k /\ i = Len(rs[k]) + 1)
           /\ k \in Bundles /\ Len(rs[k]) \in Nat /\ qs[k][Len(rs[k]) + 1] = x
<1>1. /\ k \in Bundles /\ rs[k] \in Seq(WarmNodes) /\ Len(rs[k]) \in Nat
      /\ Len(qs[k]) = Len(rs[k]) + 1 /\ qs[k][Len(rs[k]) + 1] = x
      /\ \A i \in 1 .. Len(rs[k]) : qs[k][i] = rs[k][i]
      /\ \A l \in Bundles : l # k => qs[l] = rs[l]
  BY DEF Pushed
<1>2. ASSUME NEW l, NEW i PROVE On(qs, l, i) <=> On(rs, l, i) \/ (l = k /\ i = Len(rs[k]) + 1)
  <2>1. CASE l = k
    BY <1>1, <2>1 DEF On
  <2>2. CASE l # k
    BY <1>1, <2>2 DEF On
  <2> QED BY <2>1, <2>2
<1>3. ASSUME NEW l, NEW i, On(rs, l, i)
      PROVE  qs[l][i] = rs[l][i] /\ i \in Nat /\ ~(l = k /\ i = Len(rs[k]) + 1)
  <2>1. CASE l = k
    BY <1>1, <1>3, <2>1 DEF On
  <2>2. CASE l # k
    BY <1>1, <1>3, <2>2 DEF On
  <2> QED BY <2>1, <2>2
<1> QED BY <1>1, <1>2, <1>3

\* The nodes come from these tasks and as many reloads.
From(S, P, r, rs) ==
    \A k, i : On(rs, k, i) => /\ rs[k][i][1] = "task" => rs[k][i][2] \in S
                              /\ rs[k][i][1] = "pickup" => rs[k][i][2] \in P
                              /\ rs[k][i][1] = "reload" => rs[k][i][2] <= r
Once(rs) == \A k, i, l, j : On(rs, k, i) /\ On(rs, l, j) /\ rs[k][i] = rs[l][j] => k = l /\ i = j
Recorded(g, rs) ==
    \A k, i : On(rs, k, i) /\ rs[k][i][1] = "task" => Task(rs[k][i][2]).group \in g \cup {None}
Rivals(rs, k, i, l, j) ==
    /\ On(rs, k, i) /\ On(rs, l, j) /\ rs[k][i][1] = "task" /\ rs[l][j][1] = "task"
    /\ Task(rs[k][i][2]).group # None /\ Task(rs[k][i][2]).group = Task(rs[l][j][2]).group
Alternate(rs) == \A k, i, l, j : Rivals(rs, k, i, l, j) => rs[k][i] = rs[l][j]
Fetched(rs) ==
    \A k, i : On(rs, k, i) /\ rs[k][i][1] = "task" /\ Task(rs[k][i][2]).pickup # None =>
        i > 1 /\ rs[k][i - 1] = <<"pickup", rs[k][i][2]>>

LEMMA PushedFrom ==
    ASSUME NEW rs, NEW qs, NEW k, NEW x, Pushed(rs, qs, k, x), NEW S, NEW P, NEW r, From(S, P, r, rs),
           x[1] = "task" => x[2] \in S, x[1] = "pickup" => x[2] \in P, x[1] = "reload" => x[2] <= r
    PROVE  From(S, P, r, qs)
<1>1. /\ \A l, i : On(qs, l, i) <=> On(rs, l, i) \/ (l = k /\ i = Len(rs[k]) + 1)
      /\ \A l, i : On(rs, l, i) => qs[l][i] = rs[l][i] /\ i \in Nat /\ ~(l = k /\ i = Len(rs[k]) + 1)
      /\ k \in Bundles /\ Len(rs[k]) \in Nat /\ qs[k][Len(rs[k]) + 1] = x
  BY PushedAt
<1>2. ASSUME NEW l, NEW i, On(qs, l, i)
      PROVE  /\ qs[l][i][1] = "task" => qs[l][i][2] \in S
             /\ qs[l][i][1] = "pickup" => qs[l][i][2] \in P
             /\ qs[l][i][1] = "reload" => qs[l][i][2] <= r
  <2>1. CASE On(rs, l, i)
    <3>1. rs[l][i] = qs[l][i]
      BY <1>1, <2>1
    <3> QED BY <2>1, <3>1 DEF From
  <2>2. CASE ~On(rs, l, i)
    BY <1>1, <1>2, <2>2
  <2> QED BY <2>1, <2>2
<1> QED BY <1>2 DEF From

\* A node that is on no route is put there.
LEMMA PushedOnce ==
    ASSUME NEW rs, NEW qs, NEW k, NEW x, Pushed(rs, qs, k, x), Once(rs), \A l, i : On(rs, l, i) => rs[l][i] # x
    PROVE  Once(qs)
<1>1. /\ \A l, i : On(qs, l, i) <=> On(rs, l, i) \/ (l = k /\ i = Len(rs[k]) + 1)
      /\ \A l, i : On(rs, l, i) => qs[l][i] = rs[l][i] /\ i \in Nat /\ ~(l = k /\ i = Len(rs[k]) + 1)
      /\ k \in Bundles /\ Len(rs[k]) \in Nat /\ qs[k][Len(rs[k]) + 1] = x
  BY PushedAt
<1>2. ASSUME NEW a, NEW i, NEW l, NEW j, On(qs, a, i), On(qs, l, j), qs[a][i] = qs[l][j]
      PROVE  a = l /\ i = j
  <2>1. CASE On(rs, a, i) /\ On(rs, l, j)
    <3>1. rs[a][i] = rs[l][j]
      BY <1>1, <1>2, <2>1
    <3> QED BY <2>1, <3>1 DEF Once
  <2>2. CASE On(rs, a, i) /\ ~On(rs, l, j)
    BY <1>1, <1>2, <2>2
  <2>3. CASE ~On(rs, a, i) /\ On(rs, l, j)
    BY <1>1, <1>2, <2>3
  <2>4. CASE ~On(rs, a, i) /\ ~On(rs, l, j)
    BY <1>1, <1>2, <2>4
  <2> QED BY <2>1, <2>2, <2>3, <2>4
<1> QED BY <1>2 DEF Once

LEMMA PushedRecorded ==
    ASSUME NEW rs, NEW qs, NEW k, NEW x, Pushed(rs, qs, k, x), NEW g, NEW h, Recorded(g, rs),
           g \subseteq h, x[1] = "task" => Task(x[2]).group \in h \cup {None}
    PROVE  Recorded(h, qs)
<1>1. /\ \A l, i : On(qs, l, i) <=> On(rs, l, i) \/ (l = k /\ i = Len(rs[k]) + 1)
      /\ \A l, i : On(rs, l, i) => qs[l][i] = rs[l][i] /\ i \in Nat /\ ~(l = k /\ i = Len(rs[k]) + 1)
      /\ k \in Bundles /\ Len(rs[k]) \in Nat /\ qs[k][Len(rs[k]) + 1] = x
  BY PushedAt
<1>2. ASSUME NEW l, NEW i, On(qs, l, i), qs[l][i][1] = "task" PROVE Task(qs[l][i][2]).group \in h \cup {None}
  <2>1. CASE On(rs, l, i)
    <3>1. rs[l][i] = qs[l][i]
      BY <1>1, <2>1
    <3>2. Task(rs[l][i][2]).group \in g \cup {None}
      BY <1>2, <2>1, <3>1 DEF Recorded
    <3> QED BY <3>1, <3>2
  <2>2. CASE ~On(rs, l, i)
    BY <1>1, <1>2, <2>2
  <2> QED BY <2>1, <2>2
<1> QED BY <1>2 DEF Recorded

\* A task of a group that is not recorded is put there.
LEMMA PushedAlternate ==
    ASSUME NEW rs, NEW qs, NEW k, NEW x, Pushed(rs, qs, k, x), NEW g, Recorded(g, rs), Alternate(rs),
           x[1] = "task" => Task(x[2]).group = None \/ Task(x[2]).group \notin g
    PROVE  Alternate(qs)
<1>1. /\ \A l, i : On(qs, l, i) <=> On(rs, l, i) \/ (l = k /\ i = Len(rs[k]) + 1)
      /\ \A l, i : On(rs, l, i) => qs[l][i] = rs[l][i] /\ i \in Nat /\ ~(l = k /\ i = Len(rs[k]) + 1)
      /\ k \in Bundles /\ Len(rs[k]) \in Nat /\ qs[k][Len(rs[k]) + 1] = x
  BY PushedAt
<1>2. ASSUME NEW a, NEW i, NEW l, NEW j, Rivals(qs, a, i, l, j)
      PROVE  qs[a][i] = qs[l][j]
  <2>0. /\ On(qs, a, i) /\ On(qs, l, j) /\ qs[a][i][1] = "task" /\ qs[l][j][1] = "task"
        /\ Task(qs[a][i][2]).group # None /\ Task(qs[a][i][2]).group = Task(qs[l][j][2]).group
    BY <1>2 DEF Rivals
  <2>1. CASE On(rs, a, i) /\ On(rs, l, j)
    <3>1. rs[a][i] = qs[a][i] /\ rs[l][j] = qs[l][j]
      BY <1>1, <2>1
    <3> QED BY <2>0, <2>1, <3>1 DEF Alternate, Rivals
  <2>2. CASE On(rs, a, i) /\ ~On(rs, l, j)
    <3>1. rs[a][i] = qs[a][i] /\ qs[l][j] = x
      BY <1>1, <2>0, <2>2
    <3>2. Task(rs[a][i][2]).group \in g \cup {None}
      BY <2>0, <2>2, <3>1 DEF Recorded
    <3> QED BY <2>0, <3>1, <3>2
  <2>3. CASE ~On(rs, a, i) /\ On(rs, l, j)
    <3>1. rs[l][j] = qs[l][j] /\ qs[a][i] = x
      BY <1>1, <2>0, <2>3
    <3>2. Task(rs[l][j][2]).group \in g \cup {None}
      BY <2>0, <2>3, <3>1 DEF Recorded
    <3> QED BY <2>0, <3>1, <3>2
  <2>4. CASE ~On(rs, a, i) /\ ~On(rs, l, j)
    BY <1>1, <2>0, <2>4
  <2> QED BY <2>1, <2>2, <2>3, <2>4
<1> QED BY <1>2, Zenon DEF Alternate

\* A task that has to be fetched is put right after its pickup.
LEMMA PushedFetched ==
    ASSUME NEW rs, NEW qs, NEW k, NEW x, Pushed(rs, qs, k, x), Fetched(rs),
           x[1] = "task" /\ Task(x[2]).pickup # None =>
               Len(rs[k]) > 0 /\ rs[k][Len(rs[k])] = <<"pickup", x[2]>>
    PROVE  Fetched(qs)
<1>1. /\ \A l, i : On(qs, l, i) <=> On(rs, l, i) \/ (l = k /\ i = Len(rs[k]) + 1)
      /\ \A l, i : On(rs, l, i) => qs[l][i] = rs[l][i] /\ i \in Nat /\ ~(l = k /\ i = Len(rs[k]) + 1)
      /\ k \in Bundles /\ Len(rs[k]) \in Nat /\ qs[k][Len(rs[k]) + 1] = x
  BY PushedAt
<1>2. ASSUME NEW l, NEW i, On(qs, l, i), qs[l][i][1] = "task", Task(qs[l][i][2]).pickup # None
      PROVE  i > 1 /\ qs[l][i - 1] = <<"pickup", qs[l][i][2]>>
  <2>1. CASE On(rs, l, i)
    <3>1. rs[l][i] = qs[l][i]
      BY <1>1, <2>1
    <3>2. i > 1 /\ rs[l][i - 1] = <<"pickup", rs[l][i][2]>>
      BY <1>2, <2>1, <3>1 DEF Fetched
    <3>3. On(rs, l, i - 1)
      <4>1. rs[l] \in Seq(WarmNodes) /\ Len(rs[l]) \in Nat
        BY <2>1 DEF On, Pushed
      <4> QED BY <2>1, <3>2, <4>1 DEF On
    <3> QED BY <1>1, <3>1, <3>2, <3>3
  <2>2. CASE ~On(rs, l, i)
    <3>1. l = k /\ i = Len(rs[k]) + 1 /\ qs[l][i] = x
      BY <1>1, <1>2, <2>2
    <3>2. Len(rs[k]) > 0 /\ rs[k][Len(rs[k])] = <<"pickup", x[2]>>
      BY <1>2, <3>1
    <3>3. On(rs, k, Len(rs[k]))
      BY <1>1, <3>2 DEF On
    <3>4. qs[k][Len(rs[k])] = rs[k][Len(rs[k])]
      BY <1>1, <3>3
    <3>5. i > 1 /\ i - 1 = Len(rs[k])
      BY <1>1, <3>1, <3>2
    <3> QED BY <3>1, <3>2, <3>4, <3>5
  <2> QED BY <2>1, <2>2
<1> QED BY <1>2 DEF Fetched

-----------------------------------------------------------------------------
(* The warm start: what is aboard *)

\* What is delivered from the depot at nodes a to b of route k.
Carried(rs, k, m, a, b) ==
    {t \in ToSet(orders) : /\ Task(t).pickup = None /\ Task(t).material = m
                           /\ \E j \in a .. b : rs[k][j] = <<"task", t>>}
Unfilled(rs, k, a, b) == \A j \in a .. b : rs[k][j][1] # "reload"

\* Without a reload between nodes a and b there was room, and at the end of the
\* route it is in the books.
Weighed(rs, ld, k, m, a, b) ==
    Unfilled(rs, k, a, b) =>
        /\ SumOf(Loads, Carried(rs, k, m, a, b)) <= Capacity(bundles[k][1], m)
        /\ b = Len(rs[k]) => SumOf(Loads, Carried(rs, k, m, a, b)) <= ld[k][m]
Booked(rs, ld) ==
    \A k \in Bundles, m \in Materials :
        /\ ld[k][m] \in Nat /\ ld[k][m] <= Capacity(bundles[k][1], m)
        /\ \A a \in Nat \ {0} : \A b \in 0 .. Len(rs[k]) : Weighed(rs, ld, k, m, a, b)

\* The loads kd are those of ld but for route k, at whose end there is room.
Room(rs, qs, k, ld, kd) ==
    /\ \A l \in Bundles : l # k => kd[l] = ld[l]
    /\ \A m \in Materials :
          /\ kd[k][m] \in Nat /\ kd[k][m] <= Capacity(bundles[k][1], m)
          /\ \A a \in 1 .. Len(qs[k]) :
                Unfilled(qs, k, a, Len(qs[k])) => SumOf(Loads, Carried(qs, k, m, a, Len(qs[k]))) <= kd[k][m]

LEMMA CarriedTyped ==
    ASSUME Ready, NEW rs, NEW k, NEW m, NEW a, NEW b
    PROVE  /\ Carried(rs, k, m, a, b) \in SUBSET ToSet(orders)
           /\ SumOf(Loads, Carried(rs, k, m, a, b)) \in Nat
<1>1. Carried(rs, k, m, a, b) \in SUBSET ToSet(orders)
  BY DEF Carried
<1>2. \A u \in SUBSET ToSet(orders) : \A s \in SUBSET u : SumOf(Loads, s) \in Nat
  BY LoadsAre
<1> QED BY <1>1, <1>2

LEMMA CarriedNone ==
    ASSUME Ready, NEW rs, NEW k, NEW m, NEW a \in Int, NEW b \in Int, a > b
    PROVE  SumOf(Loads, Carried(rs, k, m, a, b)) = 0
<1>1. Carried(rs, k, m, a, b) = {}
  <2>1. a .. b = {}
    OBVIOUS
  <2> QED BY <2>1 DEF Carried
<1>2. SumOf(Loads, {}) = 0
  <2>1. Summed(Loads, ToSet(orders))
    BY LoadsAre
  <2> QED BY <2>1 DEF Summed
<1> QED BY <1>1, <1>2

\* What is carried by nodes of the old part is what it was.
LEMMA CarriedSame ==
    ASSUME NEW rs, NEW qs, NEW l, NEW m, NEW a, NEW b, \A j \in a .. b : qs[l][j] = rs[l][j]
    PROVE  /\ Carried(qs, l, m, a, b) = Carried(rs, l, m, a, b)
           /\ Unfilled(qs, l, a, b) <=> Unfilled(rs, l, a, b)
BY DEF Carried, Unfilled

LEMMA PushedBooked ==
    ASSUME Ready, NEW rs, NEW qs, NEW k, NEW x, Pushed(rs, qs, k, x), NEW ld, NEW kd,
           Booked(rs, ld), Room(rs, qs, k, ld, kd)
    PROVE  Booked(qs, kd)
<1>1. /\ k \in Bundles /\ rs[k] \in Seq(WarmNodes) /\ Len(rs[k]) \in Nat
      /\ Len(qs[k]) = Len(rs[k]) + 1
      /\ \A i \in 1 .. Len(rs[k]) : qs[k][i] = rs[k][i]
      /\ \A l \in Bundles : l # k => qs[l] = rs[l] /\ rs[l] \in Seq(WarmNodes)
  BY DEF Pushed
<1>2. ASSUME NEW l \in Bundles, NEW m \in Materials, NEW a \in Nat \ {0}, NEW b \in 0 .. Len(qs[l])
      PROVE  Weighed(qs, kd, l, m, a, b)
  <2>1. CASE l # k
    <3>1. qs[l] = rs[l] /\ kd[l] = ld[l]
      BY <1>1, <2>1 DEF Room
    <3>2. Carried(qs, l, m, a, b) = Carried(rs, l, m, a, b) /\ (Unfilled(qs, l, a, b) <=> Unfilled(rs, l, a, b))
      <4>1. \A j \in a .. b : qs[l][j] = rs[l][j]
        BY <3>1
      <4> QED BY <4>1, CarriedSame
    <3>3. Weighed(rs, ld, l, m, a, b)
      BY <3>1 DEF Booked
    <3> QED BY <3>1, <3>2, <3>3 DEF Weighed
  <2>2. CASE l = k /\ b <= Len(rs[k])
    <3>1. \A j \in a .. b : qs[k][j] = rs[k][j]
      BY <1>1, <2>2
    <3>2. Carried(qs, k, m, a, b) = Carried(rs, k, m, a, b) /\ (Unfilled(qs, k, a, b) <=> Unfilled(rs, k, a, b))
      BY <3>1, CarriedSame
    <3>3. b \in 0 .. Len(rs[k])
      BY <1>1, <2>2
    <3>4. Weighed(rs, ld, k, m, a, b)
      BY <1>1, <3>3 DEF Booked
    <3>5. b # Len(qs[k])
      BY <1>1, <2>2
    <3> QED BY <2>2, <3>2, <3>4, <3>5 DEF Weighed
  <2>3. CASE l = k /\ b > Len(rs[k]) /\ a > b
    <3>1. SumOf(Loads, Carried(qs, l, m, a, b)) = 0
      BY <1>1, <2>3, CarriedNone
    <3>2. kd[l][m] \in Nat /\ kd[l][m] <= Capacity(bundles[l][1], m)
      BY <2>3 DEF Room
    <3>3. Capacity(bundles[l][1], m) \in Nat
      BY CapacityIs DEF Bundles
    <3> QED BY <3>1, <3>2, <3>3 DEF Weighed
  <2>4. CASE l = k /\ b > Len(rs[k]) /\ a <= b
    <3>1. b = Len(qs[k]) /\ a \in 1 .. Len(qs[k])
      BY <1>1, <2>4
    <3>2. kd[k][m] \in Nat /\ kd[k][m] <= Capacity(bundles[k][1], m)
      BY DEF Room
    <3>3. Unfilled(qs, k, a, b) => SumOf(Loads, Carried(qs, k, m, a, b)) <= kd[k][m]
      BY <3>1 DEF Room
    <3>4. SumOf(Loads, Carried(qs, k, m, a, b)) \in Nat
      BY CarriedTyped
    <3>5. Capacity(bundles[k][1], m) \in Nat
      BY <1>1, CapacityIs DEF Bundles
    <3>6. Unfilled(qs, k, a, b) => SumOf(Loads, Carried(qs, k, m, a, b)) <= Capacity(bundles[k][1], m)
      BY <3>2, <3>3, <3>4, <3>5
    <3> QED BY <2>4, <3>3, <3>6 DEF Weighed
  <2>5. b \in Int /\ a \in Int /\ Len(rs[k]) \in Int
    <3>1. Len(qs[l]) \in Nat
      BY <1>1
    <3> QED BY <1>1, <3>1
  <2> QED BY <2>1, <2>2, <2>3, <2>4, <2>5
<1>3. ASSUME NEW l \in Bundles, NEW m \in Materials
      PROVE  kd[l][m] \in Nat /\ kd[l][m] <= Capacity(bundles[l][1], m)
  <2>1. CASE l # k
    BY <2>1 DEF Room, Booked
  <2>2. CASE l = k
    BY <2>2 DEF Room
  <2> QED BY <2>1, <2>2
<1> QED BY <1>2, <1>3 DEF Booked

\* A reload: the books start anew.
LEMMA ReloadRoom ==
    ASSUME Ready, NEW rs, NEW qs, NEW k, NEW x, Pushed(rs, qs, k, x), x[1] = "reload", NEW ld, NEW kd,
           \A l \in Bundles : l # k => kd[l] = ld[l], \A m \in Materials : kd[k][m] = 0
    PROVE  Room(rs, qs, k, ld, kd)
<1>1. k \in Bundles /\ Len(qs[k]) \in Nat /\ qs[k][Len(qs[k])] = x
  <2>1. rs[k] \in Seq(WarmNodes) /\ Len(rs[k]) \in Nat /\ k \in Bundles
    BY DEF Pushed
  <2> QED BY <2>1 DEF Pushed
<1>2. \A m \in Materials : Capacity(bundles[k][1], m) \in Nat
  BY <1>1, CapacityIs DEF Bundles
<1>3. \A a \in 1 .. Len(qs[k]) : ~Unfilled(qs, k, a, Len(qs[k]))
  <2>1. \A a \in 1 .. Len(qs[k]) : Len(qs[k]) \in a .. Len(qs[k])
    BY <1>1
  <2> QED BY <1>1, <2>1 DEF Unfilled
<1> QED BY <1>2, <1>3 DEF Room

LaidOut(ld, kd, k, x, t) ==
    \A m \in Materials :
        /\ kd[k][m] \in Nat /\ kd[k][m] <= Capacity(bundles[k][1], m) /\ ld[k][m] <= kd[k][m]
        /\ (x = <<"task", t>> /\ Task(t).pickup = None /\ Task(t).material = m)
              => ld[k][m] + Task(t).load <= kd[k][m]
\* Anything else: what it delivers from the depot is put into the books.
LEMMA DeliveryRoom ==
    ASSUME Ready, NEW rs, NEW qs, NEW k, NEW x, Pushed(rs, qs, k, x), NEW ld, NEW kd, Booked(rs, ld),
           \A l \in Bundles : l # k => kd[l] = ld[l],
           NEW t \in ToSet(orders), \A u \in ToSet(orders) : x = <<"task", u>> => u = t,
           LaidOut(ld, kd, k, x, t)
    PROVE  Room(rs, qs, k, ld, kd)
<1> DEFINE n == Len(rs[k])
<1>1. /\ k \in Bundles /\ n \in Nat /\ Len(qs[k]) = n + 1 /\ qs[k][n + 1] = x
      /\ \A i \in 1 .. n : qs[k][i] = rs[k][i]
  <2>1. rs[k] \in Seq(WarmNodes) /\ k \in Bundles
    BY DEF Pushed
  <2> QED BY <2>1 DEF Pushed
<1> HIDE DEF n
<1>2. ASSUME NEW m \in Materials, NEW a \in 1 .. n + 1, Unfilled(qs, k, a, n + 1)
      PROVE  SumOf(Loads, Carried(qs, k, m, a, n + 1)) <= kd[k][m]
  <2> DEFINE C == Carried(rs, k, m, a, n)
             D == Carried(qs, k, m, a, n + 1)
  <2>1. \A j \in a .. n : qs[k][j] = rs[k][j] /\ j \in a .. n + 1
    BY <1>1
  <2>2. SumOf(Loads, C) <= ld[k][m]
    <3>1. Unfilled(rs, k, a, n)
      BY <1>2, <2>1 DEF Unfilled
    <3>2. a \in Nat \ {0} /\ n \in 0 .. Len(rs[k]) /\ n = Len(rs[k])
      BY <1>1 DEF n
    <3>3. Weighed(rs, ld, k, m, a, n)
      BY <1>1, <3>2 DEF Booked
    <3> QED BY <3>1, <3>2, <3>3 DEF Weighed
  <2>3. C \in SUBSET ToSet(orders) /\ D \in SUBSET ToSet(orders) /\ SumOf(Loads, C) \in Nat /\ SumOf(Loads, D) \in Nat
    BY CarriedTyped
  <2>4. \A j \in a .. n + 1 : j = n + 1 \/ j \in a .. n
    BY <1>1
  <2>5. ld[k][m] \in Nat /\ kd[k][m] \in Nat /\ ld[k][m] <= kd[k][m] /\ Task(t).load \in Nat
    <3>1. TaskRow(inp, Task(t))
      BY TasksFacts
    <3>2. ld[k][m] \in Nat
      BY <1>1 DEF Booked
    <3> QED BY <3>1, <3>2 DEF TaskRow, LaidOut
  <2>6. CASE x = <<"task", t>> /\ Task(t).pickup = None /\ Task(t).material = m
    <3>1. D \in SUBSET (C \cup {t})
      <4>1. ASSUME NEW u \in D PROVE u \in C \cup {t}
        <5>1. PICK j \in a .. n + 1 : qs[k][j] = <<"task", u>>
          BY DEF Carried
        <5>2. u \in ToSet(orders) /\ Task(u).pickup = None /\ Task(u).material = m
          BY DEF Carried
        <5>3. CASE j = n + 1
          BY <1>1, <5>1, <5>2, <5>3
        <5>4. CASE j \in a .. n
          <6>1. rs[k][j] = <<"task", u>>
            BY <2>1, <5>1, <5>4
          <6> QED BY <5>2, <5>4, <6>1 DEF Carried
        <5> QED BY <2>4, <5>3, <5>4
      <4> QED BY <4>1
    <3>2. C \cup {t} \in SUBSET ToSet(orders)
      BY <2>3
    <3>3. SumOf(Loads, D) <= SumOf(Loads, C \cup {t}) /\ SumOf(Loads, C \cup {t}) \in Nat
      <4> HIDE DEF C, D
      <4>1. \A u \in SUBSET ToSet(orders) : \A s \in SUBSET u : SumOf(Loads, s) <= SumOf(Loads, u) /\ SumOf(Loads, s) \in Nat
        BY LoadsAre
      <4> QED BY <3>1, <3>2, <4>1
    <3>4. SumOf(Loads, C \cup {t}) <= SumOf(Loads, C) + Task(t).load
      <4> HIDE DEF C
      <4>1. Summed(Loads, ToSet(orders)) /\ Loads[t] = Task(t).load
        BY LoadsAre
      <4>2. CASE t \in C
        <5>1. SumOf(Loads, C \cup {t}) = SumOf(Loads, C)
          <6>1. C \cup {t} = C
            BY <4>2
          <6> QED BY <6>1
        <5>2. SumOf(Loads, C) \in Nat /\ Task(t).load \in Nat
          BY <2>3, <2>5 DEF C
        <5> QED BY <5>1, <5>2
      <4>3. CASE t \notin C
        <5>1. SumOf(Loads, C \cup {t}) = SumOf(Loads, C) + Loads[t]
          BY <2>3, <4>1, <4>3 DEF Summed
        <5> QED BY <2>3, <2>5, <3>3, <4>1, <5>1
      <4> QED BY <4>2, <4>3
    <3>5. ld[k][m] + Task(t).load <= kd[k][m]
      BY <2>6 DEF LaidOut
    <3> HIDE DEF C, D
    <3>6. SumOf(Loads, D) <= kd[k][m]
      BY <2>2, <2>3, <2>5, <3>3, <3>4, <3>5
    <3> QED BY <3>6 DEF D
  <2>7. CASE ~(x = <<"task", t>> /\ Task(t).pickup = None /\ Task(t).material = m)
    <3>1. D \in SUBSET C
      <4>1. ASSUME NEW u \in D PROVE u \in C
        <5>1. PICK j \in a .. n + 1 : qs[k][j] = <<"task", u>>
          BY DEF Carried
        <5>2. u \in ToSet(orders) /\ Task(u).pickup = None /\ Task(u).material = m
          BY DEF Carried
        <5>3. CASE j = n + 1
          <6>1. x = <<"task", u>>
            BY <1>1, <5>1, <5>3
          <6>2. u = t
            BY <5>2, <6>1
          <6> QED BY <2>7, <5>2, <6>1, <6>2
        <5>4. CASE j \in a .. n
          <6>1. rs[k][j] = <<"task", u>>
            BY <2>1, <5>1, <5>4
          <6> QED BY <5>2, <5>4, <6>1 DEF Carried
        <5> QED BY <2>4, <5>3, <5>4
      <4> QED BY <4>1
    <3>2. SumOf(Loads, D) <= SumOf(Loads, C)
      <4> HIDE DEF C, D
      <4>1. \A u \in SUBSET ToSet(orders) : \A s \in SUBSET u : SumOf(Loads, s) <= SumOf(Loads, u) /\ SumOf(Loads, s) \in Nat
        BY LoadsAre
      <4> QED BY <2>3, <3>1, <4>1
    <3> HIDE DEF C, D
    <3>3. SumOf(Loads, D) <= kd[k][m]
      BY <2>2, <2>3, <2>5, <3>2
    <3> QED BY <3>3 DEF D
  <2> QED BY <2>6, <2>7
<1> QED BY <1>1, <1>2 DEF Room, LaidOut

-----------------------------------------------------------------------------
(* The warm start: one task after the other *)

LEMMA SmallestOf ==
    ASSUME NEW S, S # {}, NEW f, \A k \in S : f[k] \in Nat
    PROVE  \E k \in S : \A j \in S : f[k] <= f[j]
<1> DEFINE T == {f[k] : k \in S}
<1>1. PICK x \in T : \A y \in T : x <= y
  <2>1. T \in SUBSET Nat /\ T # {}
    OBVIOUS
  <2> HIDE DEF T
  <2> QED BY <2>1, LeastNumber
<1> QED BY <1>1

LEMMA FirstInRank ==
    ASSUME NEW S \in SUBSET Nat, S # {}, NEW p, NEW o, NEW c,
           \A k \in S : p[k] \in Nat /\ o[k] \in Nat /\ c[k] \in Nat
    PROVE  \E k \in S : \A j \in S \ {k} :
              \/ p[k] < p[j]
              \/ p[k] = p[j] /\ o[k] < o[j]
              \/ p[k] = p[j] /\ o[k] = o[j] /\ c[k] < c[j]
              \/ p[k] = p[j] /\ o[k] = o[j] /\ c[k] = c[j] /\ k < j
<1>1. PICK x \in S : \A j \in S : p[x] <= p[j]
  BY SmallestOf
<1> DEFINE S1 == {j \in S : p[j] = p[x]}
<1>2. PICK y \in S1 : \A j \in S1 : o[y] <= o[j]
  <2>1. S1 # {} /\ \A k \in S1 : o[k] \in Nat
    OBVIOUS
  <2> HIDE DEF S1
  <2> QED BY <2>1, SmallestOf
<1> DEFINE S2 == {j \in S1 : o[j] = o[y]}
<1>3. PICK z \in S2 : \A j \in S2 : c[z] <= c[j]
  <2>1. S2 # {} /\ \A k \in S2 : c[k] \in Nat
    OBVIOUS
  <2> HIDE DEF S2
  <2> QED BY <2>1, SmallestOf
<1> DEFINE S3 == {j \in S2 : c[j] = c[z]}
<1>4. PICK k \in S3 : \A j \in S3 : k <= j
  <2>1. S3 # {} /\ S3 \in SUBSET Nat
    OBVIOUS
  <2> HIDE DEF S3
  <2> QED BY <2>1, LeastNumber
<1>5. k \in S /\ p[k] = p[x] /\ o[k] = o[y] /\ c[k] = c[z] /\ p[y] = p[x] /\ p[z] = p[x] /\ o[z] = o[y]
  OBVIOUS
<1>6. ASSUME NEW j \in S \ {k}
      PROVE  \/ p[k] < p[j]
             \/ p[k] = p[j] /\ o[k] < o[j]
             \/ p[k] = p[j] /\ o[k] = o[j] /\ c[k] < c[j]
             \/ p[k] = p[j] /\ o[k] = o[j] /\ c[k] = c[j] /\ k < j
  <2>1. /\ p[k] <= p[j]
        /\ p[j] = p[k] => o[k] <= o[j]
        /\ p[j] = p[k] /\ o[j] = o[k] => c[k] <= c[j]
        /\ p[j] = p[k] /\ o[j] = o[k] /\ c[j] = c[k] => k <= j
    BY <1>1, <1>2, <1>3, <1>4, <1>5
  <2>2. /\ p[k] \in Nat /\ o[k] \in Nat /\ c[k] \in Nat /\ k \in Nat
        /\ p[j] \in Nat /\ o[j] \in Nat /\ c[j] \in Nat /\ j \in Nat /\ j # k
    BY <1>5
  <2> HIDE DEF S1, S2, S3
  <2> QED BY <2>1, <2>2
<1> QED BY <1>5, <1>6

\* A route is selected among those that bear the task, or none is.
LEMMA Selected ==
    ASSUME Ready, NEW w, w.count \in [Bundles -> Nat], NEW t
    PROVE  \/ SelectRoute(w, t) = None
           \/ SelectRoute(w, t) \in Bundles /\ Bears(SelectRoute(w, t), t)
<1> DEFINE fits == {k \in 1 .. K : /\ SupportsOp(bundles[k], Task(t).op)
                                   /\ Task(t).load <= Capacity(bundles[k][1], Task(t).material)}
           rank(k) == <<IF k = PreferredRoute(t) THEN 0 ELSE 1, IF Overflows(w, k, t) THEN 1 ELSE 0,
                        w.count[k], k>>
           before(a, b) == \E i \in 1 .. 4 : a[i] < b[i] /\ \A j \in 1 .. i - 1 : a[j] = b[j]
           best(k) == \A j \in fits \ {k} : before(rank(k), rank(j))
<1>1. SelectRoute(w, t) = IF fits = {} THEN None ELSE CHOOSE k \in fits : best(k)
  BY Zenon DEF SelectRoute
<1>2. K \in Nat /\ fits \in SUBSET Nat
  <2>1. K \in Nat
    BY TasksFacts
  <2> QED BY <2>1
<1>3. ASSUME fits # {} PROVE \E k \in fits : best(k)
  <2> DEFINE p == [k \in fits |-> IF k = PreferredRoute(t) THEN 0 ELSE 1]
             o == [k \in fits |-> IF Overflows(w, k, t) THEN 1 ELSE 0]
             c == [k \in fits |-> w.count[k]]
  <2>1. \A k \in fits : rank(k) = <<p[k], o[k], c[k], k>>
    OBVIOUS
  <2>2. \A k \in fits : p[k] \in Nat /\ o[k] \in Nat /\ c[k] \in Nat
    BY DEF Bundles
  <2> HIDE DEF p, o, c, rank, fits
  <2>3. PICK k \in fits : \A j \in fits \ {k} :
              \/ p[k] < p[j]
              \/ p[k] = p[j] /\ o[k] < o[j]
              \/ p[k] = p[j] /\ o[k] = o[j] /\ c[k] < c[j]
              \/ p[k] = p[j] /\ o[k] = o[j] /\ c[k] = c[j] /\ k < j
    BY ZenonT(60), <1>2, <1>3, <2>2, FirstInRank
  <2>4. ASSUME NEW j \in fits \ {k} PROVE before(rank(k), rank(j))
    <3> DEFINE a == rank(k)  b == rank(j)
    <3>1. /\ a[1] = p[k] /\ a[2] = o[k] /\ a[3] = c[k] /\ a[4] = k
          /\ b[1] = p[j] /\ b[2] = o[j] /\ b[3] = c[j] /\ b[4] = j
      BY <2>1
    <3>2. \/ a[1] < b[1]
          \/ a[1] = b[1] /\ a[2] < b[2]
          \/ a[1] = b[1] /\ a[2] = b[2] /\ a[3] < b[3]
          \/ a[1] = b[1] /\ a[2] = b[2] /\ a[3] = b[3] /\ a[4] < b[4]
      BY <2>3, <3>1
    <3> HIDE DEF a, b
    <3>3. ASSUME a[1] < b[1] PROVE before(a, b)
      BY <3>3
    <3>4. ASSUME a[1] = b[1] /\ a[2] < b[2] PROVE before(a, b)
      <4>1. \A i \in 1 .. 2 - 1 : i = 1
        OBVIOUS
      <4> QED BY <3>4, <4>1
    <3>5. ASSUME a[1] = b[1] /\ a[2] = b[2] /\ a[3] < b[3] PROVE before(a, b)
      <4>1. \A i \in 1 .. 3 - 1 : i = 1 \/ i = 2
        OBVIOUS
      <4> QED BY <3>5, <4>1
    <3>6. ASSUME a[1] = b[1] /\ a[2] = b[2] /\ a[3] = b[3] /\ a[4] < b[4] PROVE before(a, b)
      <4>1. \A i \in 1 .. 4 - 1 : i = 1 \/ i = 2 \/ i = 3
        OBVIOUS
      <4> QED BY <3>6, <4>1
    <3>7. before(a, b)
      BY <3>2, <3>3, <3>4, <3>5, <3>6
    <3> QED BY <3>7 DEF a, b
  <2> QED BY <2>4
<1> HIDE DEF best
<1>4. fits # {} => SelectRoute(w, t) \in fits
  BY <1>1, <1>3
<1> QED BY <1>1, <1>4 DEF Bundles, Bears

\* What holds of the routes and books while nodes are put on them.
Warm(S, P, r, g, rs, ld) ==
    /\ rs \in [Bundles -> Seq(WarmNodes)] /\ ld \in [Bundles -> [Materials -> Nat]]
    /\ From(S, P, r, rs) /\ Once(rs) /\ Recorded(g, rs) /\ Alternate(rs) /\ Fetched(rs)
    /\ Booked(rs, ld)

LEMMA NodesOfRoutes ==
    ASSUME NEW rs \in [Bundles -> Seq(WarmNodes)]
    PROVE  \A l, i : On(rs, l, i) => rs[l][i] \in WarmNodes
<1>1. \A s \in Seq(WarmNodes) : \A i \in 1 .. Len(s) : s[i] \in WarmNodes
  OBVIOUS
<1> QED BY <1>1 DEF On

LEMMA ReloadKeeps ==
    ASSUME Ready, NEW S, NEW P, NEW r \in Nat, NEW g, NEW rs, NEW ld, Warm(S, P, r, g, rs, ld),
           NEW k \in Bundles, NEW qs, PutOn(rs, qs, k, <<"reload", r + 1>>),
           NEW kd, kd = [ld EXCEPT ![k] = [m \in Materials |-> 0]]
    PROVE  Warm(S, P, r + 1, g, qs, kd)
<1> DEFINE x == <<"reload", r + 1>>
<1>1. /\ rs \in [Bundles -> Seq(WarmNodes)] /\ ld \in [Bundles -> [Materials -> Nat]]
      /\ From(S, P, r, rs) /\ Once(rs) /\ Recorded(g, rs) /\ Alternate(rs) /\ Fetched(rs) /\ Booked(rs, ld)
  BY DEF Warm
<1>2. x \in WarmNodes /\ x[1] = "reload" /\ x[2] = r + 1 /\ x[1] # "task" /\ x[1] # "pickup"
  BY DEF WarmNodes
<1>3. PutOn(rs, qs, k, x)
  OBVIOUS
<1> HIDE DEF x
<1>4. Pushed(rs, qs, k, x)
  BY <1>1, <1>2, <1>3, PushedOn
<1>5. \A l, i : On(rs, l, i) => rs[l][i] # x
  <2>1. ASSUME NEW l, NEW i, On(rs, l, i), rs[l][i] = x PROVE FALSE
    <3>1. rs[l][i][2] <= r
      BY <1>1, <1>2, <2>1 DEF From
    <3> QED BY <1>2, <2>1, <3>1
  <2> QED BY <2>1
<1>6. From(S, P, r + 1, rs)
  <2>1. ASSUME NEW l, NEW i, On(rs, l, i), rs[l][i][1] = "reload" PROVE rs[l][i][2] <= r + 1
    <3>1. rs[l][i] \in WarmNodes
      BY <1>1, <2>1, NodesOfRoutes
    <3>2. rs[l][i][2] \in Nat
      BY <2>1, <3>1 DEF WarmNodes
    <3>3. rs[l][i][2] <= r
      BY <1>1, <2>1 DEF From
    <3> QED BY <3>2, <3>3
  <2> QED BY <1>1, <2>1 DEF From
<1>7. From(S, P, r + 1, qs)
  <2>1. x[2] <= r + 1
    BY <1>2
  <2> QED BY <1>2, <1>4, <1>6, <2>1, PushedFrom
<1>8. Once(qs)
  BY <1>1, <1>4, <1>5, PushedOnce
<1>9. Recorded(g, qs)
  BY <1>1, <1>2, <1>4, PushedRecorded
<1>10. Alternate(qs)
  BY <1>1, <1>2, <1>4, PushedAlternate
<1>11. Fetched(qs)
  BY <1>1, <1>2, <1>4, PushedFetched
<1>12. kd \in [Bundles -> [Materials -> Nat]] /\ (\A l \in Bundles : l # k => kd[l] = ld[l]) /\ \A m \in Materials : kd[k][m] = 0
  BY <1>1
<1>13. Room(rs, qs, k, ld, kd)
  BY <1>2, <1>4, <1>12, ReloadRoom
<1>14. Booked(qs, kd)
  BY <1>1, <1>4, <1>13, PushedBooked
<1>15. qs \in [Bundles -> Seq(WarmNodes)]
  BY <1>4 DEF Pushed
<1> QED BY <1>7, <1>8, <1>9, <1>10, <1>11, <1>12, <1>14, <1>15 DEF Warm

\* The books of route k with task t in them, and whether there is room for it.
Entered(ld, k, t) ==
    [m \in Materials |-> ld[k][m] + IF Task(t).pickup = None /\ m = Task(t).material THEN Task(t).load ELSE 0]
WrittenIn(ld, kd, k, t) == kd = [ld EXCEPT ![k] = Entered(ld, k, t)]
RoomFor(ld, k, t) ==
    Task(t).pickup = None /\ Task(t).material \in Materials =>
        ld[k][Task(t).material] + Task(t).load <= Capacity(bundles[k][1], Task(t).material)
PickedLast(rs, k, t) ==
    Task(t).pickup # None => Len(rs[k]) > 0 /\ rs[k][Len(rs[k])] = <<"pickup", t>>

LEMMA PickupKeeps ==
    ASSUME Ready, NEW S, NEW P, NEW r, NEW g, NEW rs, NEW ld, Warm(S, P, r, g, rs, ld),
           NEW k \in Bundles, NEW t \in ToSet(orders), t \notin P,
           NEW qs, PutOn(rs, qs, k, <<"pickup", t>>)
    PROVE  /\ Warm(S, P \cup {t}, r, g, qs, ld)
           /\ PickedLast(qs, k, t)
<1> DEFINE x == <<"pickup", t>>
<1>1. /\ rs \in [Bundles -> Seq(WarmNodes)] /\ ld \in [Bundles -> [Materials -> Nat]]
      /\ From(S, P, r, rs) /\ Once(rs) /\ Recorded(g, rs) /\ Alternate(rs) /\ Fetched(rs) /\ Booked(rs, ld)
  BY DEF Warm
<1>2. x \in WarmNodes /\ x[1] = "pickup" /\ x[2] = t /\ x[1] # "task" /\ x[1] # "reload" /\ \A u : x # <<"task", u>>
  BY DEF WarmNodes
<1>3. PutOn(rs, qs, k, x)
  OBVIOUS
<1>4. x = <<"pickup", t>>
  OBVIOUS
<1> HIDE DEF x
<1>5. Pushed(rs, qs, k, x)
  BY <1>1, <1>2, <1>3, PushedOn
<1>6. \A l, i : On(rs, l, i) => rs[l][i] # x
  <2>1. ASSUME NEW l, NEW i, On(rs, l, i), rs[l][i] = x PROVE FALSE
    <3>1. rs[l][i][2] \in P
      BY <1>1, <1>2, <2>1 DEF From
    <3> QED BY <1>2, <2>1, <3>1
  <2> QED BY <2>1
<1>7. From(S, P \cup {t}, r, rs)
  BY <1>1 DEF From
<1>8. From(S, P \cup {t}, r, qs)
  <2>1. x[2] \in P \cup {t}
    BY <1>2
  <2> QED BY <1>2, <1>5, <1>7, <2>1, PushedFrom
<1>9. Once(qs)
  BY <1>1, <1>5, <1>6, PushedOnce
<1>10. Recorded(g, qs)
  BY <1>1, <1>2, <1>5, PushedRecorded
<1>11. Alternate(qs)
  BY <1>1, <1>2, <1>5, PushedAlternate
<1>12. Fetched(qs)
  BY <1>1, <1>2, <1>5, PushedFetched
<1>13. Room(rs, qs, k, ld, ld)
  <2>1. LaidOut(ld, ld, k, x, t)
    BY <1>1, <1>2 DEF Booked, LaidOut
  <2> QED BY <1>1, <1>2, <1>5, <2>1, DeliveryRoom
<1>14. Booked(qs, ld)
  BY <1>1, <1>5, <1>13, PushedBooked
<1>15. qs \in [Bundles -> Seq(WarmNodes)] /\ Len(qs[k]) > 0 /\ qs[k][Len(qs[k])] = x
  <2>1. rs[k] \in Seq(WarmNodes) /\ Len(rs[k]) \in Nat
    BY <1>1
  <2> QED BY <1>5, <2>1 DEF Pushed
<1> QED BY <1>1, <1>4, <1>8, <1>9, <1>10, <1>11, <1>12, <1>14, <1>15 DEF Warm, PickedLast

LEMMA TaskKeeps ==
    ASSUME Ready, NEW S, NEW P, NEW r, NEW g, NEW rs, NEW ld, Warm(S, P, r, g, rs, ld),
           NEW k \in Bundles, NEW t \in ToSet(orders), t \notin S,
           Task(t).group = None \/ Task(t).group \notin g,
           PickedLast(rs, k, t), RoomFor(ld, k, t),
           NEW qs, PutOn(rs, qs, k, <<"task", t>>),
           NEW kd, WrittenIn(ld, kd, k, t),
           NEW h, g \subseteq h, Task(t).group \in h \cup {None}
    PROVE  Warm(S \cup {t}, P, r, h, qs, kd)
<1> DEFINE x == <<"task", t>>
<1>1. /\ rs \in [Bundles -> Seq(WarmNodes)] /\ ld \in [Bundles -> [Materials -> Nat]]
      /\ From(S, P, r, rs) /\ Once(rs) /\ Recorded(g, rs) /\ Alternate(rs) /\ Fetched(rs) /\ Booked(rs, ld)
  BY DEF Warm
<1>2. x \in WarmNodes /\ x[1] = "task" /\ x[2] = t /\ x[1] # "pickup" /\ x[1] # "reload" /\ \A u : x = <<"task", u>> => u = t
  BY DEF WarmNodes
<1>3. PutOn(rs, qs, k, x)
  OBVIOUS
<1>4. x = <<"task", t>>
  OBVIOUS
<1> HIDE DEF x
<1>5. Pushed(rs, qs, k, x)
  BY <1>1, <1>2, <1>3, PushedOn
<1>6. \A l, i : On(rs, l, i) => rs[l][i] # x
  <2>1. ASSUME NEW l, NEW i, On(rs, l, i), rs[l][i] = x PROVE FALSE
    <3>1. rs[l][i][2] \in S
      BY <1>1, <1>2, <2>1 DEF From
    <3> QED BY <1>2, <2>1, <3>1
  <2> QED BY <2>1
<1>7. From(S \cup {t}, P, r, rs)
  BY <1>1 DEF From
<1>8. From(S \cup {t}, P, r, qs)
  <2>1. x[2] \in S \cup {t}
    BY <1>2
  <2> QED BY <1>2, <1>5, <1>7, <2>1, PushedFrom
<1>9. Once(qs)
  BY <1>1, <1>5, <1>6, PushedOnce
<1>10. Recorded(h, qs)
  <2>1. Task(x[2]).group \in h \cup {None}
    BY <1>2
  <2> QED BY <1>1, <1>5, <2>1, PushedRecorded
<1>11. Alternate(qs)
  <2>1. Task(x[2]).group = None \/ Task(x[2]).group \notin g
    BY <1>2
  <2> QED BY <1>1, <1>5, <2>1, PushedAlternate
<1>12. Fetched(qs)
  <2>1. Task(x[2]).pickup # None => Len(rs[k]) > 0 /\ rs[k][Len(rs[k])] = <<"pickup", x[2]>>
    BY <1>2 DEF PickedLast
  <2> QED BY <1>1, <1>5, <2>1, PushedFetched
<1>13. Task(t).load \in Nat
  <2>1. TaskRow(inp, Task(t))
    BY TasksFacts
  <2> QED BY <2>1 DEF TaskRow
<1>14. /\ \A l \in Bundles : l # k => kd[l] = ld[l]
       /\ \A m \in Materials : kd[k][m] = ld[k][m] + IF Task(t).pickup = None /\ m = Task(t).material THEN Task(t).load ELSE 0
  BY <1>1 DEF WrittenIn, Entered
<1>15. kd \in [Bundles -> [Materials -> Nat]]
  <2>1. [m \in Materials |-> ld[k][m] + IF Task(t).pickup = None /\ m = Task(t).material THEN Task(t).load ELSE 0]
        \in [Materials -> Nat]
    BY <1>1, <1>13
  <2> QED BY <1>1, <2>1 DEF WrittenIn, Entered
<1>16. ASSUME NEW m \in Materials
       PROVE  /\ kd[k][m] \in Nat /\ kd[k][m] <= Capacity(bundles[k][1], m)
              /\ ld[k][m] <= kd[k][m]
              /\ x = <<"task", t>> /\ Task(t).pickup = None /\ Task(t).material = m => ld[k][m] + Task(t).load <= kd[k][m]
  <2>1. ld[k][m] \in Nat /\ ld[k][m] <= Capacity(bundles[k][1], m) /\ kd[k][m] \in Nat
    BY <1>1, <1>15 DEF Booked
  <2>2. CASE Task(t).pickup = None /\ m = Task(t).material
    <3>1. kd[k][m] = ld[k][m] + Task(t).load /\ ld[k][m] + Task(t).load <= Capacity(bundles[k][1], m)
      BY <1>14, <2>2 DEF RoomFor
    <3> QED BY <1>13, <2>1, <3>1
  <2>3. CASE ~(Task(t).pickup = None /\ m = Task(t).material)
    <3>1. kd[k][m] = ld[k][m] + 0
      BY <1>14, <2>3
    <3>2. kd[k][m] = ld[k][m]
      BY <2>1, <3>1
    <3> QED BY <2>1, <2>3, <3>2
  <2> QED BY <2>2, <2>3
<1>17. Room(rs, qs, k, ld, kd)
  <2>1. /\ \A l \in Bundles : l # k => kd[l] = ld[l]
        /\ \A u \in ToSet(orders) : x = <<"task", u>> => u = t
    BY <1>2, <1>14
  <2>2. LaidOut(ld, kd, k, x, t)
    BY <1>16 DEF LaidOut
  <2> QED BY <1>1, <1>5, <2>1, <2>2, DeliveryRoom
<1>18. Booked(qs, kd)
  BY <1>1, <1>5, <1>17, PushedBooked
<1>19. qs \in [Bundles -> Seq(WarmNodes)]
  BY <1>5 DEF Pushed
<1> QED BY <1>8, <1>9, <1>10, <1>11, <1>12, <1>15, <1>18, <1>19 DEF Warm

WarmSet == [routes : [Bundles -> Seq(WarmNodes)], load : [Bundles -> [Materials -> Nat]],
            count : [Bundles -> Nat], groups : SUBSET {Task(t).group : t \in ToSet(orders)}, reloads : Nat]
Refilled(w, k, t) == IF Overflows(w, k, t) THEN <<<<"reload", w.reloads + 1>>>> ELSE <<>>
FetchedFor(t) == IF Task(t).pickup # None THEN <<<<"pickup", t>>>> ELSE <<>>
\* The books of route k once a reload is made, and once the task is in them.
Emptied(w, k, t) == [m \in Materials |-> IF Overflows(w, k, t) THEN 0 ELSE w.load[k][m]]
SeededLoad(w, k, t) ==
    [m \in Materials |-> (IF Overflows(w, k, t) THEN 0 ELSE w.load[k][m])
                         + IF Task(t).pickup = None /\ m = Task(t).material THEN Task(t).load ELSE 0]
Seeded(w, v, k, t) ==
    /\ Task(t).group = None \/ Task(t).group \notin w.groups
    /\ v.routes = [w.routes EXCEPT ![k] = @ \o Refilled(w, k, t) \o FetchedFor(t) \o <<<<"task", t>>>>]
    /\ v.load = [w.load EXCEPT ![k] = SeededLoad(w, k, t)]
    /\ v.reloads = w.reloads + Len(Refilled(w, k, t))
    /\ v.count = [w.count EXCEPT ![k] = @ + 1]
    /\ v.groups = IF Task(t).group = None THEN w.groups ELSE w.groups \cup {Task(t).group}
    /\ v = [routes |-> v.routes, load |-> v.load, count |-> v.count, groups |-> v.groups, reloads |-> v.reloads]

LEMMA SeedIs ==
    ASSUME NEW w \in WarmSet, NEW k \in Bundles, NEW t, k # None
    PROVE  SeedOn(w, t, k) = w \/ Seeded(w, SeedOn(w, t, k), k, t)
<1> DEFINE full == k # None /\ Overflows(w, k, t)
           head == IF full THEN <<<<"reload", w.reloads + 1>>>> ELSE <<>>
           pick == IF Task(t).pickup # None THEN <<<<"pickup", t>>>> ELSE <<>>
           kept(m) == IF full THEN 0 ELSE w.load[k][m]
           more(m) == IF pick = <<>> /\ m = Task(t).material THEN Task(t).load ELSE 0
           v == [w EXCEPT !.routes[k] = @ \o head \o pick \o <<<<"task", t>>>>,
                          !.load[k] = [m \in Materials |-> kept(m) + more(m)],
                          !.reloads = @ + Len(head),
                          !.count[k] = @ + 1,
                          !.groups = IF Task(t).group = None THEN @ ELSE @ \cup {Task(t).group}]
<1>1. SeedOn(w, t, k) = IF k = None \/ (Task(t).group # None /\ Task(t).group \in w.groups) \/ (full /\ w.reloads >= Reloads)
                        THEN w ELSE v
  BY Zenon DEF SeedOn
<1>2. /\ (full <=> Overflows(w, k, t)) /\ head = Refilled(w, k, t) /\ pick = FetchedFor(t)
      /\ (pick = <<>> <=> Task(t).pickup = None)
  BY DEF Refilled, FetchedFor
<1>3. [m \in Materials |-> kept(m) + more(m)] = SeededLoad(w, k, t)
  BY <1>2 DEF SeededLoad
<1>4. /\ DOMAIN w = {"routes", "load", "count", "groups", "reloads"}
      /\ DOMAIN w.routes = Bundles /\ DOMAIN w.load = Bundles /\ DOMAIN w.count = Bundles
  BY DEF WarmSet
<1> DEFINE hd == head \o pick
<1> HIDE DEF full, head, pick, kept, more
<1>5. /\ v.routes = [w.routes EXCEPT ![k] = @ \o head \o pick \o <<<<"task", t>>>>]
      /\ v.load = [w.load EXCEPT ![k] = [m \in Materials |-> kept(m) + more(m)]]
      /\ v.reloads = w.reloads + Len(head)
      /\ v.count = [w.count EXCEPT ![k] = @ + 1]
      /\ v.groups = IF Task(t).group = None THEN w.groups ELSE w.groups \cup {Task(t).group}
  BY <1>4
<1>8. v = [routes |-> v.routes, load |-> v.load, count |-> v.count, groups |-> v.groups, reloads |-> v.reloads]
  <2>1. v = [x \in DOMAIN w |-> v[x]]
    BY DEF WarmSet
  <2> HIDE DEF v
  <2>2. v = [x \in {"routes", "load", "count", "groups", "reloads"} |-> v[x]]
    BY <1>4, <2>1
  <2> QED BY <2>2
<1> HIDE DEF v
<1>6. CASE k = None \/ (Task(t).group # None /\ Task(t).group \in w.groups) \/ (full /\ w.reloads >= Reloads)
  BY <1>1, <1>6
<1>7. CASE ~(k = None \/ (Task(t).group # None /\ Task(t).group \in w.groups) \/ (full /\ w.reloads >= Reloads))
  <2>1. SeedOn(w, t, k) = v
    BY <1>1, <1>7
  <2>2. Task(t).group = None \/ Task(t).group \notin w.groups
    BY <1>7
  <2>3. Seeded(w, v, k, t)
    BY <1>2, <1>3, <1>5, <1>8, <2>2 DEF Seeded
  <2> QED BY <2>1, <2>3
<1> QED BY <1>6, <1>7

LEMMA SeededTyped ==
    ASSUME Ready, NEW w \in WarmSet, NEW k \in Bundles, NEW t \in ToSet(orders), NEW v, Seeded(w, v, k, t)
    PROVE  v \in WarmSet
<1>1. /\ w.routes \in [Bundles -> Seq(WarmNodes)] /\ w.load \in [Bundles -> [Materials -> Nat]]
      /\ w.count \in [Bundles -> Nat] /\ w.groups \in SUBSET {Task(u).group : u \in ToSet(orders)} /\ w.reloads \in Nat
  BY DEF WarmSet
<1>2. /\ Refilled(w, k, t) \in Seq(WarmNodes) /\ FetchedFor(t) \in Seq(WarmNodes)
      /\ <<<<"task", t>>>> \in Seq(WarmNodes) /\ Len(Refilled(w, k, t)) \in Nat
  <2>1. <<"task", t>> \in WarmNodes /\ <<"pickup", t>> \in WarmNodes /\ <<"reload", w.reloads + 1>> \in WarmNodes
    BY <1>1 DEF WarmNodes
  <2> QED BY <2>1 DEF Refilled, FetchedFor
<1>3. v.routes \in [Bundles -> Seq(WarmNodes)]
  <2>1. w.routes[k] \in Seq(WarmNodes)
    BY <1>1
  <2>2. w.routes[k] \o Refilled(w, k, t) \in Seq(WarmNodes)
    BY <1>2, <2>1
  <2>3. w.routes[k] \o Refilled(w, k, t) \o FetchedFor(t) \in Seq(WarmNodes)
    BY <1>2, <2>2
  <2>4. w.routes[k] \o Refilled(w, k, t) \o FetchedFor(t) \o <<<<"task", t>>>> \in Seq(WarmNodes)
    BY <1>2, <2>3
  <2> QED BY <1>1, <2>4 DEF Seeded
<1>4. v.load \in [Bundles -> [Materials -> Nat]]
  <2>1. Task(t).load \in Nat
    <3>1. TaskRow(inp, Task(t))
      BY TasksFacts
    <3> QED BY <3>1 DEF TaskRow
  <2>2. w.load[k] \in [Materials -> Nat]
    BY <1>1
  <2>3. SeededLoad(w, k, t) \in [Materials -> Nat]
    BY <2>1, <2>2 DEF SeededLoad
  <2> QED BY <1>1, <2>3 DEF Seeded
<1>5. v.count \in [Bundles -> Nat] /\ v.reloads \in Nat
  <2>1. v.count = [w.count EXCEPT ![k] = @ + 1] /\ v.reloads = w.reloads + Len(Refilled(w, k, t))
    BY DEF Seeded
  <2>2. w.count[k] + 1 \in Nat
    BY <1>1
  <2>3. v.count \in [Bundles -> Nat]
    BY <1>1, <2>1, <2>2
  <2>4. v.reloads \in Nat
    BY <1>1, <1>2, <2>1
  <2> QED BY <2>3, <2>4
<1>6. v.groups \in SUBSET {Task(u).group : u \in ToSet(orders)}
  BY <1>1 DEF Seeded
<1>7. v = [routes |-> v.routes, load |-> v.load, count |-> v.count, groups |-> v.groups, reloads |-> v.reloads]
  BY DEF Seeded
<1> QED BY <1>3, <1>4, <1>5, <1>6, <1>7 DEF WarmSet

LEMMA SeedTyped ==
    ASSUME Ready, NEW w \in WarmSet, NEW t \in ToSet(orders)
    PROVE  SeedTask(w, t) \in WarmSet
<1>1. w.count \in [Bundles -> Nat]
  BY DEF WarmSet
<1>2. SelectRoute(w, t) = None \/ SelectRoute(w, t) \in Bundles
  BY <1>1, Selected
<1>3. \A k \in Bundles : k # None
  <2>1. K \in Nat
    BY TasksFacts
  <2> QED BY <2>1, NoneAssumption DEF Bundles
<1>4. CASE SelectRoute(w, t) = None
  <2>1. SeedOn(w, t, None) = w
    BY Zenon DEF SeedOn
  <2> QED BY <1>4, <2>1 DEF SeedTask
<1>5. CASE SelectRoute(w, t) \in Bundles
  <2> DEFINE k == SelectRoute(w, t)
  <2>1. SeedTask(w, t) = SeedOn(w, t, k)
    BY DEF SeedTask
  <2> HIDE DEF k
  <2>2. k \in Bundles
    BY <1>5 DEF k
  <2>3. SeedOn(w, t, k) = w \/ Seeded(w, SeedOn(w, t, k), k, t)
    BY <1>3, <2>2, SeedIs
  <2>4. SeedOn(w, t, k) \in WarmSet
    BY <2>2, <2>3, SeededTyped
  <2> QED BY <2>1, <2>4
<1> QED BY <1>2, <1>4, <1>5

-----------------------------------------------------------------------------
(* The warm start: the invariant of its loop *)

Borne(rs) == \A k \in Bundles : \A i \in 1 .. Len(rs[k]) : rs[k][i][1] = "task" => Bears(k, rs[k][i][2])
WarmOk(S, w) == w \in WarmSet /\ Warm(S, S, w.reloads, w.groups, w.routes, w.load) /\ Borne(w.routes)

\* Every task of a route is borne by its bundle when it is put there.
LEMMA SeededBorne ==
    ASSUME Ready, NEW w \in WarmSet, Borne(w.routes), NEW k \in Bundles, NEW t \in ToSet(orders), Bears(k, t),
           NEW v, Seeded(w, v, k, t)
    PROVE  Borne(v.routes)
<1> DEFINE r == w.routes[k]  a == Refilled(w, k, t)  b == FetchedFor(t)
           s == r \o a \o b \o <<<<"task", t>>>>
<1>1. w.routes \in [Bundles -> Seq(WarmNodes)] /\ r \in Seq(WarmNodes)
  BY DEF WarmSet
<1>2. v.routes = [w.routes EXCEPT ![k] = s]
  BY DEF Seeded
<1>3. /\ a = <<>> \/ a = <<<<"reload", w.reloads + 1>>>>
      /\ b = <<>> \/ b = <<<<"pickup", t>>>>
  BY DEF Refilled, FetchedFor
<1> HIDE DEF a, b, r
<1>4. ASSUME NEW i \in 1 .. Len(s), s[i][1] = "task" PROVE Bears(k, s[i][2])
  <2>1. \/ i \in 1 .. Len(r) /\ s[i] = r[i]
        \/ s[i] \in {<<"reload", w.reloads + 1>>, <<"pickup", t>>, <<"task", t>>}
    <3>1. CASE a = <<>> /\ b = <<>>
      BY <1>1, <3>1
    <3>2. CASE a = <<>> /\ b = <<<<"pickup", t>>>>
      BY <1>1, <3>2
    <3>3. CASE a = <<<<"reload", w.reloads + 1>>>> /\ b = <<>>
      BY <1>1, <3>3
    <3>4. CASE a = <<<<"reload", w.reloads + 1>>>> /\ b = <<<<"pickup", t>>>>
      BY <1>1, <3>4
    <3> QED BY <1>3, <3>1, <3>2, <3>3, <3>4
  <2>2. CASE i \in 1 .. Len(r) /\ s[i] = r[i]
    BY <1>4, <2>2 DEF Borne, r
  <2>3. CASE s[i] \in {<<"reload", w.reloads + 1>>, <<"pickup", t>>, <<"task", t>>}
    BY <1>4, <2>3
  <2> QED BY <2>1, <2>2, <2>3
<1> HIDE DEF s
<1>5. ASSUME NEW q \in Bundles, NEW i \in 1 .. Len(v.routes[q]), v.routes[q][i][1] = "task"
      PROVE  Bears(q, v.routes[q][i][2])
  <2>1. CASE q = k
    BY <1>1, <1>2, <1>4, <1>5, <2>1
  <2>2. CASE q # k
    BY <1>1, <1>2, <1>5, <2>2 DEF Borne
  <2> QED BY <2>1, <2>2
<1> QED BY <1>5 DEF Borne

LEMMA ConcatNone ==
    ASSUME NEW X, NEW s \in Seq(X)
    PROVE  s \o <<>> = s
OBVIOUS

\* A task, after its pickup, is put at the end of a route that has room for it.
LEMMA TaskPut ==
    ASSUME Ready, NEW S, NEW n, NEW g, NEW r1, NEW l1, Warm(S, S, n, g, r1, l1),
           NEW k \in Bundles, NEW t \in ToSet(orders), t \notin S,
           Task(t).group = None \/ Task(t).group \notin g, RoomFor(l1, k, t),
           NEW r2, r2 = [r1 EXCEPT ![k] = @ \o FetchedFor(t)], NEW r3, PutOn(r2, r3, k, <<"task", t>>),
           NEW l3, WrittenIn(l1, l3, k, t), NEW h, g \subseteq h, Task(t).group \in h \cup {None}
    PROVE  Warm(S \cup {t}, S \cup {t}, n, h, r3, l3)
<1>1. r1 \in [Bundles -> Seq(WarmNodes)] /\ r1[k] \in Seq(WarmNodes)
  BY DEF Warm
<1>2. Warm(S, S \cup {t}, n, g, r2, l1) /\ PickedLast(r2, k, t)
  <2>1. ASSUME Task(t).pickup = None PROVE r2 = r1
    <3>1. FetchedFor(t) = <<>>
      BY <2>1 DEF FetchedFor
    <3>2. r1[k] \o FetchedFor(t) = r1[k]
      BY <1>1, <3>1, ConcatNone
    <3>3. r2 = [r1 EXCEPT ![k] = r1[k]]
      BY <3>2
    <3> QED BY <1>1, <3>3
  <2>2. CASE Task(t).pickup = None
    <3>1. From(S, S \cup {t}, n, r1)
      BY DEF Warm, From
    <3>2. Warm(S, S \cup {t}, n, g, r1, l1)
      BY <3>1 DEF Warm
    <3> QED BY <2>1, <2>2, <3>2 DEF PickedLast
  <2>3. CASE Task(t).pickup # None
    <3>1. PutOn(r1, r2, k, <<"pickup", t>>)
      BY <2>3 DEF FetchedFor, PutOn
    <3> QED BY <3>1, PickupKeeps
  <2> QED BY <2>2, <2>3
<1> DEFINE P == S \cup {t}
<1>3. Warm(S, P, n, g, r2, l1) /\ PickedLast(r2, k, t)
  BY <1>2
<1> HIDE DEF P
<1>4. Warm(S \cup {t}, P, n, h, r3, l3)
  BY <1>3, TaskKeeps
<1> QED BY <1>4 DEF P

LEMMA SeededKeeps ==
    ASSUME Ready, NEW S, NEW w, WarmOk(S, w), NEW k \in Bundles, NEW t \in ToSet(orders), t \notin S,
           Bears(k, t), NEW v, Seeded(w, v, k, t)
    PROVE  WarmOk(S \cup {t}, v)
<1> DEFINE r1 == [w.routes EXCEPT ![k] = @ \o Refilled(w, k, t)]
           r2 == [r1 EXCEPT ![k] = @ \o FetchedFor(t)]
           r3 == [r2 EXCEPT ![k] = @ \o <<<<"task", t>>>>]
           l1 == [w.load EXCEPT ![k] = Emptied(w, k, t)]
           l3 == [l1 EXCEPT ![k] = Entered(l1, k, t)]
           n1 == w.reloads + Len(Refilled(w, k, t))
           mat == Task(t).material
<1>1. /\ w \in WarmSet /\ Warm(S, S, w.reloads, w.groups, w.routes, w.load) /\ Borne(w.routes)
      /\ Task(t).load <= Capacity(bundles[k][1], Task(t).material)
  BY DEF WarmOk, Bears
<1>2. /\ w.routes \in [Bundles -> Seq(WarmNodes)] /\ w.load \in [Bundles -> [Materials -> Nat]] /\ w.reloads \in Nat
      /\ Booked(w.routes, w.load)
  BY <1>1 DEF WarmSet, Warm
<1>3. /\ w.routes[k] \in Seq(WarmNodes) /\ w.load[k] \in [Materials -> Nat]
      /\ Task(t).load \in Nat /\ (Task(t).load > 0 => mat \in Materials)
  <2>1. TaskRow(inp, Task(t))
    BY TasksFacts
  <2> QED BY <1>2, <2>1 DEF TaskRow, Materials
<1> DEFINE goal == /\ Warm(S, S, n1, w.groups, r1, l1)
                   /\ (mat \in Materials /\ Task(t).pickup = None)
                         => l1[k][mat] + Task(t).load <= Capacity(bundles[k][1], mat)
<1>4. ASSUME Overflows(w, k, t) PROVE goal
  <2>1. Refilled(w, k, t) = <<<<"reload", w.reloads + 1>>>> /\ n1 = w.reloads + 1
    BY <1>4 DEF Refilled
  <2>2. Emptied(w, k, t) = [m \in Materials |-> 0]
    BY <1>4 DEF Emptied
  <2>3. Warm(S, S, n1, w.groups, r1, l1)
    <3>1. r1 = [w.routes EXCEPT ![k] = @ \o <<<<"reload", w.reloads + 1>>>>] /\ l1 = [w.load EXCEPT ![k] = [m \in Materials |-> 0]]
      BY <2>1, <2>2
    <3>3. PutOn(w.routes, r1, k, <<"reload", w.reloads + 1>>)
      BY <3>1 DEF PutOn
    <3> HIDE DEF r1, l1, n1
    <3>2. Warm(S, S, w.reloads + 1, w.groups, r1, l1)
      BY <1>1, <1>2, <3>1, <3>3, ReloadKeeps
    <3> QED BY <2>1, <3>2
  <2>4. mat \in Materials => l1[k][mat] = 0
    BY <1>2, <2>2
  <2>5. mat \in Materials => l1[k][mat] + Task(t).load <= Capacity(bundles[k][1], mat)
    BY <1>1, <1>3, <2>4
  <2>6. mat \in Materials /\ Task(t).pickup = None => l1[k][mat] + Task(t).load <= Capacity(bundles[k][1], mat)
    BY <2>5
  <2> QED BY <2>3, <2>6
<1>5. ASSUME ~Overflows(w, k, t) PROVE goal
  <2>1. Refilled(w, k, t) = <<>> /\ n1 = w.reloads + 0
    BY <1>5 DEF Refilled
  <2>2. Emptied(w, k, t) = [m \in Materials |-> w.load[k][m]]
    BY <1>5 DEF Emptied
  <2>3. r1 = w.routes
    <3>1. w.routes[k] \o Refilled(w, k, t) = w.routes[k]
      BY <1>3, <2>1, ConcatNone
    <3>2. r1 = [w.routes EXCEPT ![k] = w.routes[k]]
      BY <3>1
    <3> QED BY <1>2, <3>2
  <2>4. l1 = w.load
    <3>1. Emptied(w, k, t) = w.load[k]
      BY <1>3, <2>2
    <3> QED BY <1>2, <3>1
  <2>5. Warm(S, S, n1, w.groups, r1, l1)
    <3>1. n1 = w.reloads
      BY <1>2, <2>1
    <3> HIDE DEF n1, r1, l1
    <3> QED BY <1>1, <2>3, <2>4, <3>1
  <2>6. mat \in Materials /\ Task(t).pickup = None => l1[k][mat] + Task(t).load <= Capacity(bundles[k][1], mat)
    <3>1. mat \in Materials => w.load[k][mat] \in Nat /\ w.load[k][mat] <= Capacity(bundles[k][1], mat)
      BY <1>2 DEF Booked
    <3>2. Task(t).pickup = None /\ Task(t).load > 0 => ~(w.load[k][mat] + Task(t).load > Capacity(bundles[k][1], mat))
      BY <1>5 DEF Overflows
    <3>3. Capacity(bundles[k][1], mat) \in Nat
      BY CapacityIs DEF Bundles
    <3> HIDE DEF l1
    <3> QED BY <1>3, <2>4, <3>1, <3>2, <3>3
  <2> QED BY <2>5, <2>6
<1>6. goal
  BY <1>4, <1>5
<1> HIDE DEF l1, l3, r1, r2, r3, n1
<1>7. r1 \in [Bundles -> Seq(WarmNodes)] /\ r1[k] \in Seq(WarmNodes) /\ l1 \in [Bundles -> [Materials -> Nat]]
  BY <1>6 DEF Warm
<1>8. /\ Task(t).group = None \/ Task(t).group \notin w.groups
      /\ w.groups \subseteq v.groups /\ Task(t).group \in v.groups \cup {None}
  BY DEF Seeded
<1>9. Warm(S \cup {t}, S \cup {t}, n1, v.groups, r3, l3)
  <2>1. RoomFor(l1, k, t)
    BY <1>6 DEF RoomFor
  <2>2. r2 = [r1 EXCEPT ![k] = @ \o FetchedFor(t)] /\ PutOn(r2, r3, k, <<"task", t>>)
    BY DEF r2, r3, PutOn
  <2>3. WrittenIn(l1, l3, k, t)
    BY DEF l3, WrittenIn
  <2>4. Warm(S, S, n1, w.groups, r1, l1)
    BY <1>6
  <2> DEFINE h == v.groups  g == w.groups
  <2>5. /\ Task(t).group = None \/ Task(t).group \notin g
        /\ g \subseteq h /\ Task(t).group \in h \cup {None} /\ Warm(S, S, n1, g, r1, l1)
    BY <1>8, <2>4
  <2> HIDE DEF h, g
  <2>6. Warm(S \cup {t}, S \cup {t}, n1, h, r3, l3)
    BY <2>1, <2>2, <2>3, <2>5, TaskPut
  <2> QED BY <2>6 DEF h
<1>10. v.routes = r3
  <2>1. DOMAIN w.routes = Bundles
    BY <1>2
  <2>2. r1 = [w.routes EXCEPT ![k] = w.routes[k] \o Refilled(w, k, t)]
    BY DEF r1
  <2>3. r2 = [r1 EXCEPT ![k] = r1[k] \o FetchedFor(t)] /\ r3 = [r2 EXCEPT ![k] = r2[k] \o <<<<"task", t>>>>]
    BY DEF r2, r3
  <2>4. v.routes = [w.routes EXCEPT ![k] = w.routes[k] \o Refilled(w, k, t) \o FetchedFor(t) \o <<<<"task", t>>>>]
    BY DEF Seeded
  <2> QED BY <2>1, <2>2, <2>3, <2>4, Zenon
<1>11. v.load = l3
  <2>1. DOMAIN w.load = Bundles
    BY <1>2
  <2>2. l1 = [w.load EXCEPT ![k] = Emptied(w, k, t)] /\ l3 = [l1 EXCEPT ![k] = Entered(l1, k, t)]
    BY DEF l1, l3
  <2>3. l1[k] = Emptied(w, k, t)
    BY <2>1, <2>2
  <2>4. Entered(l1, k, t) = SeededLoad(w, k, t)
    BY <2>3 DEF Entered, SeededLoad, Emptied
  <2>5. v.load = [w.load EXCEPT ![k] = SeededLoad(w, k, t)]
    BY DEF Seeded
  <2> QED BY <2>1, <2>2, <2>4, <2>5
<1>12. v.reloads = n1
  BY DEF Seeded, n1
<1>13. v \in WarmSet /\ Borne(v.routes)
  BY <1>1, SeededTyped, SeededBorne
<1> QED BY <1>9, <1>10, <1>11, <1>12, <1>13 DEF WarmOk

LEMMA SeedKeeps ==
    ASSUME Ready, NEW S, NEW w, WarmOk(S, w), NEW t \in ToSet(orders), t \notin S
    PROVE  WarmOk(S \cup {t}, SeedTask(w, t))
<1>1. w \in WarmSet /\ Warm(S, S, w.reloads, w.groups, w.routes, w.load) /\ Borne(w.routes)
  BY DEF WarmOk
<1>2. w.count \in [Bundles -> Nat]
  BY <1>1 DEF WarmSet
<1>3. \/ SelectRoute(w, t) = None
      \/ SelectRoute(w, t) \in Bundles /\ Bears(SelectRoute(w, t), t)
  BY <1>2, Selected
<1>4. WarmOk(S \cup {t}, w)
  <2>1. From(S \cup {t}, S \cup {t}, w.reloads, w.routes)
    BY <1>1 DEF Warm, From
  <2> QED BY <1>1, <2>1 DEF WarmOk, Warm
<1>5. CASE SelectRoute(w, t) = None
  <2>1. SeedOn(w, t, None) = w
    BY Zenon DEF SeedOn
  <2> QED BY <1>4, <1>5, <2>1 DEF SeedTask
<1>6. CASE SelectRoute(w, t) \in Bundles
  <2> DEFINE k == SelectRoute(w, t)
  <2>1. SeedTask(w, t) = SeedOn(w, t, k)
    BY DEF SeedTask
  <2>2. k # None
    <3>1. K \in Nat
      BY TasksFacts
    <3> QED BY <1>6, <3>1, NoneAssumption DEF Bundles
  <2>3. k \in Bundles /\ Bears(k, t)
    BY <1>3, <1>6, <2>2
  <2> HIDE DEF k
  <2>4. SeedOn(w, t, k) = w \/ Seeded(w, SeedOn(w, t, k), k, t)
    BY <1>1, <2>2, <2>3, SeedIs
  <2>5. CASE Seeded(w, SeedOn(w, t, k), k, t)
    <3>1. WarmOk(S \cup {t}, SeedOn(w, t, k))
      BY <2>3, <2>5, SeededKeeps
    <3> QED BY <2>1, <3>1
  <2>6. CASE SeedOn(w, t, k) = w
    BY <1>4, <2>1, <2>6
  <2> QED BY <2>4, <2>5, <2>6
<1> QED BY <1>3, <1>5, <1>6

-----------------------------------------------------------------------------
(* The warm start: what the loop offers *)

Seeding(base, seq) == FoldLeft(SeedTask, base, seq)
SeedInput(base, n, seq, D, T) ==
    /\ n \in Nat /\ DOMAIN seq = 1 .. n /\ base \in D /\ \A i \in 1 .. n : seq[i] \in T
    /\ \A d \in D, x \in T : SeedTask(d, x) \in D
SeedRun(base, n, seq, D, h) ==
    /\ h \in [0 .. n -> D] /\ h[0] = base
    /\ \A i \in 1 .. n : h[i] = SeedTask(h[i - 1], seq[i])
    /\ h[n] = Seeding(base, seq)
LEMMA SeedFold ==
    ASSUME NEW base, NEW n, NEW seq, NEW D, NEW T, SeedInput(base, n, seq, D, T)
    PROVE  \E h : SeedRun(base, n, seq, D, h)
<1> DEFINE F == [p \in D \X T |-> SeedTask(p[1], p[2])]
           Eq(g) == g = [s \in SUBSET DOMAIN seq |->
                            IF s = {} THEN base ELSE SeedTask(g[s \ {Max(s)}], seq[Max(s)])]
           iter == CHOOSE g : Eq(g)
           h == [i \in 0 .. n |-> iter[1 .. i]]
<1> USE DEF SeedInput
<1>1. IsFiniteSet(DOMAIN seq) /\ DOMAIN seq \in SUBSET Int
  BY FirstOnes
<1>2. \A d \in D, x \in T : F[<<d, x>>] = SeedTask(d, x) /\ F[<<d, x>>] \in D
  OBVIOUS
<1>3. \E g : Eq(g)
  <2> HIDE DEF F
  <2>1. PICK g : FoldEq(g, F, base, seq)
    BY <1>1, FoldExists
  <2>2. \A s \in SUBSET DOMAIN seq : g[s] \in D
    BY <1>1, <1>2, <2>1, FoldTyped
  <2>3. \A s \in SUBSET DOMAIN seq : s # {} => Max(s) \in s /\ s \ {Max(s)} \in SUBSET DOMAIN seq
    BY <1>1, FS_Subset, MaxIs
  <2>4. ASSUME NEW s \in SUBSET DOMAIN seq
        PROVE  (IF s = {} THEN base ELSE F[<<g[s \ {Max(s)}], seq[Max(s)]>>])
               = (IF s = {} THEN base ELSE SeedTask(g[s \ {Max(s)}], seq[Max(s)]))
    <3>1. CASE s # {}
      <4>1. g[s \ {Max(s)}] \in D /\ seq[Max(s)] \in T
        BY <2>2, <2>3, <3>1
      <4> QED BY <1>2, <3>1, <4>1
    <3> QED BY <3>1
  <2>5. g = [s \in SUBSET DOMAIN seq |-> IF s = {} THEN base ELSE F[<<g[s \ {Max(s)}], seq[Max(s)]>>]]
    BY <2>1 DEF FoldEq
  <2> QED BY <2>4, <2>5, Zenon
<1>4. Eq(iter)
  BY <1>3, Zenon
<1>5. iter[DOMAIN seq] = Seeding(base, seq)
  BY Zenon DEF FoldLeft, MapThenFoldSet, Seeding
<1> HIDE DEF iter, F
<1>6. h[0] = base /\ \A i \in 1 .. n : h[i] = SeedTask(h[i - 1], seq[i])
  <2>1. h[0] = base
    BY <1>4, FirstOnes
  <2>2. ASSUME NEW i \in 1 .. n PROVE h[i] = SeedTask(h[i - 1], seq[i])
    <3>1. /\ Max(1 .. i) = i /\ 1 .. i \in SUBSET DOMAIN seq /\ 1 .. i # {} /\ (1 .. i) \ {i} = 1 .. i - 1
          /\ i \in 0 .. n /\ i - 1 \in 0 .. n
      BY FirstOnes
    <3>2. iter[1 .. i] = SeedTask(iter[1 .. i - 1], seq[i])
      BY <1>4, <3>1
    <3>3. h[i] = iter[1 .. i] /\ h[i - 1] = iter[1 .. i - 1]
      BY <3>1
    <3> QED BY <3>2, <3>3
  <2> QED BY <2>1, <2>2
<1>7. h[n] = iter[DOMAIN seq]
  OBVIOUS
<1> DEFINE Good == {i \in 0 .. n : h[i] \in D}
<1>8. \A i \in 0 .. n : i \in Good
  <2>1. 0 \in Good
    BY <1>6
  <2>2. ASSUME NEW i \in 0 .. n - 1, i \in Good PROVE i + 1 \in Good
    <3>1. i + 1 \in 1 .. n /\ (i + 1) - 1 = i /\ i + 1 \in 0 .. n
      OBVIOUS
    <3>2. h[i + 1] = SeedTask(h[i], seq[i + 1]) /\ seq[i + 1] \in T /\ h[i] \in D
      BY <1>6, <2>2, <3>1
    <3> QED BY <3>1, <3>2
  <2> HIDE DEF Good
  <2> QED BY <2>1, <2>2, UpTo
<1>9. h \in [0 .. n -> D]
  BY <1>8
<1> HIDE DEF h
<1>10. SeedRun(base, n, seq, D, h)
  BY <1>5, <1>6, <1>7, <1>9 DEF SeedRun
<1> QED BY <1>10

NothingSeeded == [routes |-> [k \in 1 .. K |-> <<>>], load |-> [k \in 1 .. K |-> [m \in Materials |-> 0]],
                  count |-> [k \in 1 .. K |-> 0], groups |-> {}, reloads |-> 0]

LEMMA NothingOk ==
    ASSUME Ready
    PROVE  WarmOk({}, NothingSeeded)
<1> DEFINE w == NothingSeeded
<1>1. /\ w.routes = [k \in Bundles |-> <<>>] /\ w.load = [k \in Bundles |-> [m \in Materials |-> 0]]
      /\ w.count = [k \in Bundles |-> 0] /\ w.groups = {} /\ w.reloads = 0
      /\ w = [routes |-> w.routes, load |-> w.load, count |-> w.count, groups |-> w.groups, reloads |-> w.reloads]
  BY DEF NothingSeeded, Bundles
<1> HIDE DEF w
<1>2. w.routes \in [Bundles -> Seq(WarmNodes)] /\ w.load \in [Bundles -> [Materials -> Nat]]
  BY <1>1
<1>3. w \in WarmSet
  <2>1. w.count \in [Bundles -> Nat] /\ w.groups \in SUBSET {Task(t).group : t \in ToSet(orders)} /\ w.reloads \in Nat
    BY <1>1
  <2> QED BY <1>1, <1>2, <2>1 DEF WarmSet
<1>4. \A k, i : ~On(w.routes, k, i)
  <2>1. \A k \in Bundles : Len(w.routes[k]) = 0
    BY <1>1
  <2> QED BY <2>1 DEF On
<1>5. /\ From({}, {}, w.reloads, w.routes) /\ Once(w.routes) /\ Recorded(w.groups, w.routes)
      /\ Fetched(w.routes) /\ Borne(w.routes)
  BY <1>4 DEF From, Once, Recorded, Fetched, Borne, On
<1>6. Alternate(w.routes)
  BY <1>4 DEF Alternate, Rivals
<1>7. Booked(w.routes, w.load)
  <2>1. ASSUME NEW k \in Bundles, NEW m \in Materials
        PROVE  /\ w.load[k][m] \in Nat /\ w.load[k][m] <= Capacity(bundles[k][1], m)
               /\ \A a \in Nat \ {0} : \A b \in 0 .. Len(w.routes[k]) : Weighed(w.routes, w.load, k, m, a, b)
    <3>1. w.load[k][m] = 0 /\ Len(w.routes[k]) = 0
      BY <1>1
    <3>2. Capacity(bundles[k][1], m) \in Nat
      BY CapacityIs DEF Bundles
    <3>3. ASSUME NEW a \in Nat \ {0}, NEW b \in 0 .. Len(w.routes[k]) PROVE Weighed(w.routes, w.load, k, m, a, b)
      <4>1. a > b /\ a \in Int /\ b \in Int
        BY <3>1
      <4>2. SumOf(Loads, Carried(w.routes, k, m, a, b)) = 0
        BY <4>1, CarriedNone
      <4> QED BY <3>1, <3>2, <4>2 DEF Weighed
    <3> QED BY <3>1, <3>2, <3>3
  <2> QED BY <2>1 DEF Booked
<1> QED BY <1>2, <1>3, <1>5, <1>6, <1>7 DEF WarmOk, Warm, w

LEMMA WarmEnds ==
    ASSUME Ready
    PROVE  \E w : WarmOk(ToSet(orders), w) /\ WarmRoutes = w.routes
<1> DEFINE n == Len(orders)
<1>1. orders \in Seq(inp.known) /\ IsInjective(orders)
  BY DEF Ready, Prepared
<1>2. n \in Nat /\ DOMAIN orders = 1 .. n /\ \A i \in 1 .. n : orders[i] \in ToSet(orders)
  BY <1>1 DEF ToSet
<1>3. \A i, j \in 1 .. n : orders[i] = orders[j] => i = j
  BY <1>1, <1>2 DEF IsInjective
<1>4. WarmRoutes = Seeding(NothingSeeded, orders).routes
  BY Zenon DEF WarmRoutes, Seeding, NothingSeeded
<1>5. NothingSeeded \in WarmSet /\ \A d \in WarmSet, x \in ToSet(orders) : SeedTask(d, x) \in WarmSet
  BY NothingOk, SeedTyped DEF WarmOk
<1> HIDE DEF n
<1>6. SeedInput(NothingSeeded, n, orders, WarmSet, ToSet(orders))
  BY <1>2, <1>5 DEF SeedInput
<1>7. PICK h : SeedRun(NothingSeeded, n, orders, WarmSet, h)
  BY <1>6, SeedFold
<1>8. /\ h[0] = NothingSeeded /\ h[n] = Seeding(NothingSeeded, orders)
      /\ \A i \in 1 .. n : h[i] = SeedTask(h[i - 1], orders[i])
  BY <1>7 DEF SeedRun
<1> DEFINE Firsts(i) == {orders[j] : j \in 1 .. i}
           Good == {i \in 0 .. n : WarmOk(Firsts(i), h[i])}
<1>9. \A i \in 0 .. n : i \in Good
  <2>1. 0 \in Good
    <3>1. Firsts(0) = {}
      OBVIOUS
    <3>2. WarmOk({}, h[0])
      BY <1>8, NothingOk
    <3>3. 0 \in 0 .. n
      BY <1>2
    <3> HIDE DEF Firsts
    <3>4. WarmOk(Firsts(0), h[0])
      BY <3>1, <3>2
    <3> QED BY <3>3, <3>4
  <2>2. ASSUME NEW i \in 0 .. n - 1, i \in Good PROVE i + 1 \in Good
    <3>1. i + 1 \in 1 .. n /\ (i + 1) - 1 = i /\ i + 1 \in 0 .. n
      BY <1>2
    <3>2. h[i + 1] = SeedTask(h[i], orders[i + 1]) /\ orders[i + 1] \in ToSet(orders)
      BY <1>2, <1>8, <3>1
    <3>3. Firsts(i + 1) = Firsts(i) \cup {orders[i + 1]}
      <4>1. 1 .. i + 1 = (1 .. i) \cup {i + 1}
        BY <3>1
      <4> QED BY <4>1
    <3>4. orders[i + 1] \notin Firsts(i)
      <4>1. \A j \in 1 .. i : j \in 1 .. n /\ j # i + 1
        BY <1>2
      <4> QED BY <1>3, <3>1, <4>1
    <3>5. WarmOk(Firsts(i), h[i])
      BY <2>2
    <3> HIDE DEF Firsts
    <3>6. WarmOk(Firsts(i) \cup {orders[i + 1]}, SeedTask(h[i], orders[i + 1]))
      BY <3>2, <3>4, <3>5, SeedKeeps
    <3>7. WarmOk(Firsts(i + 1), h[i + 1])
      BY <3>2, <3>3, <3>6
    <3> QED BY <3>1, <3>7
  <2> HIDE DEF Good
  <2> QED BY <1>2, <2>1, <2>2, UpTo
<1>10. Firsts(n) = ToSet(orders)
  BY <1>2 DEF ToSet
<1>11. WarmOk(ToSet(orders), h[n])
  <2> HIDE DEF Firsts
  <2>1. WarmOk(Firsts(n), h[n])
    <3>1. n \in 0 .. n
      BY <1>2
    <3>2. n \in Good
      <4> HIDE DEF Good
      <4> QED BY <1>9, <3>1
    <3> QED BY <3>2
  <2> QED BY <1>10, <2>1
<1> QED BY <1>4, <1>8, <1>11

\* Where node n is in the routes, and where the last reload up to place i is.
PlacesIn(W, n) == {p \in UNION {{k} \X (1 .. Len(W[k])) : k \in 1 .. K} : W[p[1]][p[2]] = n}
FilledAt(W, k, i) == Max({j \in 1 .. i : W[k][j][1] = "reload"} \cup {0})
LEMMA UsableIs ==
    ASSUME NEW W
    PROVE  Usable(W) <=>
              /\ \A n \in Nodes : Cardinality(PlacesIn(W, n)) <= 1
              /\ \A t, u \in ToSet(orders) :
                    t # u /\ Task(t).group # None /\ Task(t).group = Task(u).group
                       => PlacesIn(W, <<"task", t>>) = {} \/ PlacesIn(W, <<"task", u>>) = {}
              /\ \A n \in PickupNodes : \A p \in PlacesIn(W, <<"task", n[2]>>) :
                    p[2] > 1 /\ W[p[1]][p[2] - 1] = n
              /\ \A k \in 1 .. K : \A i \in 1 .. Len(W[k]) : W[k][i][1] = "task" => Bears(k, W[k][i][2])
              /\ \A m \in Materials : \A k \in 1 .. K : \A i \in 1 .. Len(W[k]) :
                    Total([t \in Carried(W, k, m, FilledAt(W, k, i) + 1, i) |-> Task(t).load]) <= Capacity(bundles[k][1], m)
BY Zenon DEF Usable, PlacesIn, FilledAt, Carried

LEMMA PlaceIs ==
    ASSUME NEW W, NEW n, NEW p \in PlacesIn(W, n)
    PROVE  On(W, p[1], p[2]) /\ W[p[1]][p[2]] = n /\ p = <<p[1], p[2]>>
<1>1. PICK k \in 1 .. K : p \in {k} \X (1 .. Len(W[k])) /\ W[p[1]][p[2]] = n
  BY DEF PlacesIn
<1> QED BY <1>1 DEF On, Bundles

LEMMA AtMostOne ==
    ASSUME NEW S, \A x, y \in S : x = y
    PROVE  Cardinality(S) <= 1
<1>1. CASE S = {}
  BY <1>1, FS_EmptySet
<1>2. CASE S # {}
  <2>1. PICK x \in S : S = {x}
    BY <1>2
  <2>2. Cardinality({x}) = 1
    BY FS_Singleton
  <2> QED BY <2>1, <2>2
<1> QED BY <1>1, <1>2

LEMMA WarmUsable ==
    ASSUME Ready, NEW w, WarmOk(ToSet(orders), w)
    PROVE  Usable(w.routes)
<1> DEFINE W == w.routes
<1>1. /\ W \in [Bundles -> Seq(WarmNodes)] /\ Once(W) /\ Alternate(W) /\ Fetched(W) /\ Booked(W, w.load) /\ Borne(W)
  BY DEF WarmOk, Warm
<1> HIDE DEF W
<1>2. ASSUME NEW n \in Nodes PROVE Cardinality(PlacesIn(W, n)) <= 1
  <2>1. ASSUME NEW p \in PlacesIn(W, n), NEW q \in PlacesIn(W, n) PROVE p = q
    <3>1. /\ On(W, p[1], p[2]) /\ W[p[1]][p[2]] = n /\ p = <<p[1], p[2]>>
          /\ On(W, q[1], q[2]) /\ W[q[1]][q[2]] = n /\ q = <<q[1], q[2]>>
      BY PlaceIs
    <3>2. p[1] = q[1] /\ p[2] = q[2]
      BY <1>1, <3>1 DEF Once
    <3> QED BY <3>1, <3>2
  <2> QED BY <2>1, AtMostOne
<1>3. ASSUME NEW t \in ToSet(orders), NEW u \in ToSet(orders), t # u, Task(t).group # None,
             Task(t).group = Task(u).group, NEW p \in PlacesIn(W, <<"task", t>>), NEW q \in PlacesIn(W, <<"task", u>>)
      PROVE  FALSE
  <2>1. /\ On(W, p[1], p[2]) /\ W[p[1]][p[2]] = <<"task", t>>
        /\ On(W, q[1], q[2]) /\ W[q[1]][q[2]] = <<"task", u>>
    BY PlaceIs
  <2>2. Rivals(W, p[1], p[2], q[1], q[2])
    BY <1>3, <2>1 DEF Rivals
  <2>3. W[p[1]][p[2]] = W[q[1]][q[2]]
    BY <1>1, <2>2 DEF Alternate
  <2> QED BY <1>3, <2>1, <2>3
<1>4. ASSUME NEW n \in PickupNodes, NEW p \in PlacesIn(W, <<"task", n[2]>>)
      PROVE  p[2] > 1 /\ W[p[1]][p[2] - 1] = n
  <2>1. n = <<"pickup", n[2]>> /\ Task(n[2]).pickup # None
    BY DEF PickupNodes
  <2>2. On(W, p[1], p[2]) /\ W[p[1]][p[2]] = <<"task", n[2]>>
    BY PlaceIs
  <2>3. p[2] > 1 /\ W[p[1]][p[2] - 1] = <<"pickup", n[2]>>
    BY <1>1, <2>1, <2>2 DEF Fetched
  <2> QED BY <2>1, <2>3
<1>5. ASSUME NEW m \in Materials, NEW k \in 1 .. K, NEW i \in 1 .. Len(W[k])
      PROVE  Total([t \in Carried(W, k, m, FilledAt(W, k, i) + 1, i) |-> Task(t).load]) <= Capacity(bundles[k][1], m)
  <2> DEFINE R == {j \in 1 .. i : W[k][j][1] = "reload"} \cup {0}
             a == FilledAt(W, k, i) + 1
             C == Carried(W, k, m, a, i)
  <2>1. k \in Bundles /\ Len(W[k]) \in Nat /\ i \in Nat /\ i \in 0 .. Len(W[k])
    <3>1. W[k] \in Seq(WarmNodes)
      BY <1>1 DEF Bundles
    <3> QED BY <3>1 DEF Bundles
  <2>2. Max(R) \in R /\ \A j \in R : j <= Max(R)
    <3>1. R \in SUBSET (0 .. i) /\ R # {}
      BY <2>1
    <3>2. IsFiniteSet(0 .. i)
      BY <2>1, FS_Interval
    <3>3. 0 .. i \in SUBSET Int
      BY <2>1
    <3> HIDE DEF R
    <3>4. IsFiniteSet(R) /\ R \in SUBSET Int
      BY <3>1, <3>2, <3>3, FS_Subset
    <3> QED BY <3>1, <3>4, MaxIs
  <2>3. FilledAt(W, k, i) = Max(R)
    BY DEF FilledAt
  <2>4. a \in Nat \ {0} /\ Unfilled(W, k, a, i)
    <3>1. Max(R) \in Nat
      BY <2>1, <2>2
    <3>2. ASSUME NEW j \in a .. i PROVE W[k][j][1] # "reload"
      <4>1. j \in 1 .. i /\ j > Max(R)
        BY <2>1, <2>3, <3>1
      <4>2. j \notin R
        <5> HIDE DEF R
        <5> QED BY <2>2, <3>1, <4>1
      <4> QED BY <4>1, <4>2
    <3> QED BY <2>3, <3>1, <3>2 DEF Unfilled
  <2> HIDE DEF a, R
  <2>5. Weighed(W, w.load, k, m, a, i)
    BY <1>1, <2>1, <2>4 DEF Booked
  <2>6. SumOf(Loads, C) <= Capacity(bundles[k][1], m)
    BY <2>4, <2>5 DEF Weighed
  <2>7. C \in SUBSET ToSet(orders)
    BY DEF Carried
  <2>8. [t \in C |-> Loads[t]] = [t \in C |-> Task(t).load]
    BY <2>7 DEF Loads
  <2> HIDE DEF C
  <2>9. SumOf(Loads, C) = Total([t \in C |-> Task(t).load])
    BY <2>8 DEF SumOf
  <2>10. Total([t \in C |-> Task(t).load]) <= Capacity(bundles[k][1], m)
    BY <2>6, <2>9
  <2> QED BY <2>10 DEF C, a
<1>6. ASSUME NEW t \in ToSet(orders), NEW u \in ToSet(orders),
             t # u /\ Task(t).group # None /\ Task(t).group = Task(u).group
      PROVE  PlacesIn(W, <<"task", t>>) = {} \/ PlacesIn(W, <<"task", u>>) = {}
  BY <1>3, <1>6
<1>7. \A k \in 1 .. K : \A i \in 1 .. Len(W[k]) : W[k][i][1] = "task" => Bears(k, W[k][i][2])
  BY <1>1 DEF Borne, Bundles
<1>8. Usable(W)
  BY <1>2, <1>4, <1>5, <1>6, <1>7, UsableIs
<1> QED BY <1>8 DEF W

LEMMA WarmStartIs == SolveInv => WarmStartUsable
<1> SUFFICES ASSUME SolveInv, FirstSearch PROVE Usable(WarmRoutes)
  BY DEF WarmStartUsable
<1>1. Ready
  BY DEF SolveInv, SolvePhases, FirstSearch, Routed, Searching
<1>2. PICK w : WarmOk(ToSet(orders), w) /\ WarmRoutes = w.routes
  BY <1>1, WarmEnds
<1> QED BY <1>1, <1>2, WarmUsable

\* In every state in which a cluster is about to be searched first, the routes of
\* build_capacity_aware_initial_routes are consistent: every task, pickup and reload
\* in one place at most, one variant of a group at most, a pickup right before its
\* task, every task on a bundle that supports its operation and takes its own load,
\* and between two fills no more carried from the depot than the compartment takes.
\* What a pickup adds meanwhile the loop does not count, and the theorem says
\* nothing of.
THEOREM RoutingWarmStart == RoutingSpec => []WarmStartUsable
BY WarmStartIs, SolveInit, SolveNext, PTL DEF RoutingSpec

-----------------------------------------------------------------------------
(* The least times: the passes of _compose_network *)

\* v is w after its entry e: the nodes of S are reached the faster way, r gives
\* their times.
Relaxed(graph, w, e, S, r, v) ==
    /\ S \in SUBSET Int /\ IsFiniteSet(S) /\ (e[1] > w.best[e[2]] => S = {})
    /\ \A n \in S : /\ <<e[2], n>> \in DOMAIN graph /\ r[n] \in Nat /\ r[n] = e[1] + graph[<<e[2], n>>].s
                    /\ r[n] > e[1] /\ (n \in DOMAIN w.best => r[n] < w.best[n])
    /\ e[1] = w.best[e[2]] =>
          \A n : <<e[2], n>> \in DOMAIN graph /\ n \notin S =>
                    n \in DOMAIN w.best /\ w.best[n] <= e[1] + graph[<<e[2], n>>].s
    /\ DOMAIN v.best = S \cup DOMAIN w.best
    /\ \A n \in S : v.best[n] = r[n] /\ v.pred[n] = e[2]
    /\ \A n \in DOMAIN w.best : n \notin S => v.best[n] = w.best[n]
    /\ \A n \in DOMAIN w.pred : n \notin S => v.pred[n] = w.pred[n]
    /\ v.heap = (w.heap \ {<<e[1], e[2]>>}) \cup {<<r[n], n>> : n \in S}

LEMMA SettleIs ==
    ASSUME NEW graph, TableOk(graph), NEW src, NEW w, PassOk(graph, src, w), NEW e \in w.heap
    PROVE  \E S, r : Relaxed(graph, w, e, S, r, Settle(graph, w, e[1], e[2]))
<1> DEFINE dist == e[1]
           node == e[2]
           S == IF dist > w.best[node] THEN {} ELSE Better(graph, w.best, node, dist)
           reached(n) == dist + graph[<<node, n>>].s
           r == [n \in S |-> reached(n)]
           q == [n \in S |-> node]
           best == Over(r, w.best)
           pred == Over(q, w.pred)
           heap == (w.heap \ {<<dist, node>>}) \cup {<<reached(n), n>> : n \in S}
           v == [best |-> best, pred |-> pred, heap |-> heap]
<1>1. Settle(graph, w, e[1], e[2]) = v
  BY Zenon DEF Settle
<1>2. dist \in Nat /\ node \in Int /\ node \in DOMAIN w.best /\ w.best[node] \in Nat /\ w.best[node] <= dist
  BY DEF PassOk
<1>3. ASSUME NEW n, <<node, n>> \in DOMAIN graph
      PROVE  /\ n \in Int /\ n \in Ends(graph) /\ graph[<<node, n>>].s \in Nat \ {0}
             /\ reached(n) \in Nat /\ reached(n) > dist
  <2>1. n \in Int /\ graph[<<node, n>>] \in Times
    BY <1>3 DEF TableOk
  <2>2. n \in Ends(graph)
    <3> DEFINE p == <<node, n>>
    <3>1. n \in {p[1], p[2]}
      OBVIOUS
    <3> HIDE DEF p
    <3>2. p \in DOMAIN graph
      BY <1>3 DEF p
    <3> QED BY <3>1, <3>2 DEF Ends
  <2> QED BY <1>2, <2>1, <2>2 DEF Times
<1>4. ASSUME NEW n \in S
      PROVE  <<node, n>> \in DOMAIN graph /\ dist = w.best[node] /\ (n \in DOMAIN w.best => reached(n) < w.best[n])
  <2>1. ~(dist > w.best[node]) /\ n \in Better(graph, w.best, node, dist)
    BY <1>2
  <2> QED BY <1>2, <2>1 DEF Better
<1>5. ASSUME dist = w.best[node], NEW n, <<node, n>> \in DOMAIN graph, n \notin S
      PROVE  n \in DOMAIN w.best /\ w.best[n] <= reached(n)
  <2>1. n \in Ends(graph) /\ reached(n) \in Nat
    BY <1>3, <1>5
  <2>2. n \notin Better(graph, w.best, node, dist)
    BY <1>2, <1>5
  <2>3. n \in DOMAIN w.best /\ ~(reached(n) < w.best[n])
    BY <1>5, <2>1, <2>2 DEF Better
  <2>4. w.best[n] \in Nat
    BY <2>3 DEF PassOk
  <2> HIDE DEF reached
  <2> QED BY <2>1, <2>3, <2>4
<1>6. IsFiniteSet(S) /\ S \in SUBSET Int
  <2>1. S \in SUBSET Ends(graph)
    <3> SUFFICES ASSUME NEW n \in S PROVE n \in Ends(graph)
      OBVIOUS
    <3> HIDE DEF S
    <3> QED BY <1>3, <1>4
  <2>2. IsFiniteSet(Ends(graph)) /\ Ends(graph) \in SUBSET Int
    BY EndsFacts
  <2> HIDE DEF S
  <2> QED BY <2>1, <2>2, FS_Subset
<1>7. dist > w.best[node] => S = {}
  OBVIOUS
<1> HIDE DEF S
<1>8. DOMAIN r = S /\ DOMAIN q = S /\ \A n \in S : r[n] = reached(n) /\ q[n] = node
  OBVIOUS
<1>9. {<<reached(n), n>> : n \in S} = {<<r[n], n>> : n \in S}
  OBVIOUS
<1> HIDE DEF r, q
<1>10. Laid(best, r, w.best) /\ Laid(pred, q, w.pred)
  BY OverIs
<1>11. v.best = best /\ v.pred = pred /\ v.heap = heap
  OBVIOUS
<1> HIDE DEF best, pred, heap, v
<1>12. \A n \in S : /\ <<node, n>> \in DOMAIN graph /\ r[n] \in Nat /\ r[n] = reached(n)
                    /\ r[n] > dist /\ (n \in DOMAIN w.best => r[n] < w.best[n])
  <2> HIDE DEF reached
  <2> QED BY <1>3, <1>4, <1>8
<1>13. heap = (w.heap \ {<<dist, node>>}) \cup {<<r[n], n>> : n \in S}
  BY <1>9 DEF heap
<1>14. /\ DOMAIN v.best = S \cup DOMAIN w.best
       /\ \A n \in S : v.best[n] = r[n] /\ v.pred[n] = node
       /\ \A n \in DOMAIN w.best : n \notin S => v.best[n] = w.best[n]
       /\ \A n \in DOMAIN w.pred : n \notin S => v.pred[n] = w.pred[n]
  BY <1>8, <1>10, <1>11 DEF Laid
<1>15. Relaxed(graph, w, e, S, r, v)
  BY <1>5, <1>6, <1>7, <1>11, <1>12, <1>13, <1>14 DEF Relaxed
<1> QED BY <1>1, <1>15

\* C is closed: its nodes are settled, their links are explored, and what is
\* reached from elsewhere waits in the heap.
Explored(graph, src, w, C) ==
    /\ C \in SUBSET DOMAIN w.best
    /\ \A c \in C : /\ <<w.best[c], c>> \notin w.heap
                    /\ \A x \in w.heap : w.best[c] <= x[1]
                    /\ \A n : <<c, n>> \in DOMAIN graph =>
                                 n \in DOMAIN w.best /\ w.best[n] <= w.best[c] + graph[<<c, n>>].s
    /\ \A n \in DOMAIN w.best : n \notin C => <<w.best[n], n>> \in w.heap
    /\ \A n \in DOMAIN w.best \ {src} :
          w.pred[n] \in C /\ w.best[n] = w.best[w.pred[n]] + graph[<<w.pred[n], n>>].s

\* The links out of a set.
OutOf(graph, C) == {p \in DOMAIN graph : p[1] \in C}

\* After i rounds the entries that wait are no more than the links not yet followed.
Fuelled(graph, w, C, i) == w.heap = {} \/ i + Cardinality(w.heap) <= 1 + Cardinality(OutOf(graph, C))

LEMMA SkipExplored ==
    ASSUME NEW graph, TableOk(graph), NEW src, NEW w, PassOk(graph, src, w), NEW C, Explored(graph, src, w, C),
           NEW e \in w.heap, NEW S, NEW r, NEW v, Relaxed(graph, w, e, S, r, v),
           e[1] > w.best[e[2]], NEW i \in Nat, Fuelled(graph, w, C, i)
    PROVE  Explored(graph, src, v, C) /\ Fuelled(graph, v, C, i + 1)
<1>1. /\ e[1] \in Nat /\ e[2] \in Int /\ e = <<e[1], e[2]>> /\ w.heap \in SUBSET (Nat \X Int) /\ IsFiniteSet(w.heap)
      /\ \A n \in DOMAIN w.best : w.best[n] \in Nat
  BY PairIs DEF PassOk
<1>2. v.heap = w.heap \ {e}
  <2>1. S = {}
    BY DEF Relaxed
  <2>2. {<<r[n], n>> : n \in S} = {}
    BY <2>1
  <2>3. v.heap = (w.heap \ {<<e[1], e[2]>>}) \cup {<<r[n], n>> : n \in S}
    BY DEF Relaxed
  <2> QED BY <1>1, <2>2, <2>3
<1>3. Explored(graph, src, v, C)
  <2>1. \A n \in DOMAIN w.best : <<w.best[n], n>> # e
    <3> SUFFICES ASSUME NEW n \in DOMAIN w.best, <<w.best[n], n>> = e PROVE FALSE
      OBVIOUS
    <3>1. e[1] = w.best[n] /\ e[2] = n
      BY Zenon
    <3> QED BY <1>1, <3>1
  <2>2. /\ DOMAIN v.best = DOMAIN w.best /\ (\A n \in DOMAIN w.best : v.best[n] = w.best[n])
        /\ \A n \in DOMAIN w.best \ {src} : v.pred[n] = w.pred[n]
    BY DEF Relaxed, PassOk
  <2>3. /\ C \in SUBSET DOMAIN w.best
        /\ \A n \in DOMAIN w.best \ {src} :
              w.pred[n] \in C /\ w.best[n] = w.best[w.pred[n]] + graph[<<w.pred[n], n>>].s
    BY DEF Explored
  <2>4. \A n \in DOMAIN v.best \ {src} :
           v.pred[n] \in C /\ v.best[n] = v.best[v.pred[n]] + graph[<<v.pred[n], n>>].s
    BY <2>2, <2>3
  <2>5. \A c \in C : /\ <<v.best[c], c>> \notin v.heap
                    /\ \A x \in v.heap : v.best[c] <= x[1]
                    /\ \A n : <<c, n>> \in DOMAIN graph =>
                                 n \in DOMAIN v.best /\ v.best[n] <= v.best[c] + graph[<<c, n>>].s
    BY <1>2, <2>2, <2>3 DEF Explored
  <2>6. \A n \in DOMAIN v.best : n \notin C => <<v.best[n], n>> \in v.heap
    BY <1>2, <2>1, <2>2 DEF Explored
  <2> QED BY <2>2, <2>3, <2>4, <2>5, <2>6 DEF Explored
<1>4. Cardinality(v.heap) = Cardinality(w.heap) - 1 /\ Cardinality(w.heap) \in Nat
  <2>1. Cardinality(w.heap \ {e}) = Cardinality(w.heap) - 1
    BY <1>1, FS_RemoveElement
  <2> QED BY <1>1, <1>2, <2>1, FS_CardinalityType
<1>5. Cardinality(OutOf(graph, C)) \in Nat
  <2>1. IsFiniteSet(OutOf(graph, C))
    BY FS_Subset DEF OutOf, TableOk
  <2> QED BY <2>1, FS_CardinalityType
<1>6. w.heap # {}
  OBVIOUS
<1> QED BY <1>3, <1>4, <1>5, <1>6 DEF Fuelled

LEMMA TakeExplored ==
    ASSUME NEW graph, TableOk(graph), NEW src, NEW w, PassOk(graph, src, w), NEW C, Explored(graph, src, w, C),
           NEW e \in w.heap, \A f \in w.heap : e[1] <= f[1],
           NEW S, NEW r, NEW v, Relaxed(graph, w, e, S, r, v), e[1] = w.best[e[2]]
    PROVE  Explored(graph, src, v, C \cup {e[2]}) /\ e[2] \notin C
<1> DEFINE node == e[2]
           L == C \cup {node}
<1>1. /\ e[1] \in Nat /\ node \in Int /\ e = <<e[1], node>> /\ w.heap \in SUBSET (Nat \X Int)
      /\ node \in DOMAIN w.best /\ w.best[node] = e[1]
      /\ \A n \in DOMAIN w.best : w.best[n] \in Nat
  BY PairIs DEF PassOk
<1>2. node \notin C
  <2>1. <<w.best[node], node>> \in w.heap
    BY <1>1
  <2> QED BY <2>1 DEF Explored
<1>3. \A c \in L : c \in DOMAIN w.best /\ w.best[c] <= e[1]
  BY <1>1 DEF Explored
<1>4. \A n \in S : n \notin L
  <2> SUFFICES ASSUME NEW n \in S, n \in L PROVE FALSE
    OBVIOUS
  <2>1. n \in DOMAIN w.best /\ w.best[n] <= e[1] /\ w.best[n] \in Nat
    BY <1>1, <1>3
  <2>2. r[n] \in Nat /\ r[n] > e[1] /\ r[n] < w.best[n]
    BY <2>1 DEF Relaxed
  <2> QED BY <1>1, <2>1, <2>2
<1>5. \A c \in L : v.best[c] = w.best[c] /\ c \in DOMAIN v.best
  BY <1>3, <1>4 DEF Relaxed
<1>6. \A n \in DOMAIN w.best : n \in DOMAIN v.best /\ v.best[n] \in Nat /\ v.best[n] <= w.best[n] /\ w.best[n] \in Nat
  <2> SUFFICES ASSUME NEW n \in DOMAIN w.best
               PROVE  n \in DOMAIN v.best /\ v.best[n] \in Nat /\ v.best[n] <= w.best[n] /\ w.best[n] \in Nat
    OBVIOUS
  <2>1. CASE n \in S
    <3>1. r[n] \in Nat /\ r[n] < w.best[n] /\ v.best[n] = r[n] /\ n \in DOMAIN v.best
      BY <2>1 DEF Relaxed
    <3> QED BY <1>1, <3>1
  <2>2. CASE n \notin S
    BY <1>1, <2>2 DEF Relaxed
  <2> QED BY <2>1, <2>2
<1>7. \A x \in v.heap : (x \in w.heap /\ x # e) \/ \E n \in S : x = <<r[n], n>> /\ x[1] = r[n] /\ x[2] = n
  <2>1. v.heap = (w.heap \ {e}) \cup {<<r[n], n>> : n \in S}
    BY <1>1 DEF Relaxed
  <2> QED BY <2>1
<1>8. ASSUME NEW c \in L, NEW x \in v.heap PROVE v.best[c] <= x[1]
  <2>1. v.best[c] <= e[1] /\ v.best[c] \in Nat
    BY <1>1, <1>3, <1>5
  <2>2. CASE x \in w.heap
    <3>1. e[1] <= x[1] /\ x[1] \in Nat
      BY <1>1, <2>2
    <3> QED BY <1>1, <2>1, <3>1
  <2>3. CASE \E n \in S : x[1] = r[n]
    <3>1. PICK n \in S : x[1] = r[n]
      BY <2>3
    <3>2. r[n] \in Nat /\ r[n] > e[1]
      BY DEF Relaxed
    <3> QED BY <1>1, <2>1, <3>1, <3>2
  <2> QED BY <1>7, <2>2, <2>3
<1>9. ASSUME NEW c \in L PROVE <<v.best[c], c>> \notin v.heap
  <2> SUFFICES ASSUME <<v.best[c], c>> \in v.heap PROVE FALSE
    OBVIOUS
  <2> DEFINE x == <<v.best[c], c>>
  <2>1. x[1] = w.best[c] /\ x[2] = c /\ x = <<w.best[c], c>>
    BY <1>5
  <2>2. CASE \E n \in S : x[2] = n
    BY <1>4, <2>1, <2>2
  <2>3. CASE x \in w.heap /\ x # e
    <3>1. CASE c \in C
      BY <2>1, <2>3, <3>1 DEF Explored
    <3>2. CASE c = node
      BY <1>1, <2>1, <2>3, <3>2
    <3> QED BY <3>1, <3>2
  <2> HIDE DEF x
  <2>4. x \in v.heap
    BY DEF x
  <2> QED BY <1>7, <2>2, <2>3, <2>4
<1>10. ASSUME NEW c \in L, NEW n, <<c, n>> \in DOMAIN graph
       PROVE  n \in DOMAIN v.best /\ v.best[n] <= v.best[c] + graph[<<c, n>>].s
  <2> DEFINE g == graph[<<c, n>>].s
  <2>1. g \in Nat
    <3>1. graph[<<c, n>>] \in Times
      BY <1>10 DEF TableOk
    <3> QED BY <3>1 DEF Times
  <2>2. CASE c \in C
    <3>1. n \in DOMAIN w.best /\ w.best[n] <= w.best[c] + g
      BY <1>10, <2>2 DEF Explored
    <3> HIDE DEF g
    <3>2. w.best[c] \in Nat /\ v.best[c] = w.best[c]
      BY <1>1, <1>3, <1>5
    <3>3. n \in DOMAIN v.best /\ v.best[n] \in Nat /\ v.best[n] <= w.best[n] /\ w.best[n] \in Nat
      BY <1>6, <3>1
    <3> QED BY <2>1, <3>1, <3>2, <3>3 DEF g
  <2>3. CASE c = node
    <3>1. v.best[c] = e[1]
      BY <1>1, <1>5, <2>3
    <3>2. CASE n \in S
      <4>1. v.best[n] = r[n] /\ n \in DOMAIN v.best /\ r[n] = e[1] + g /\ r[n] \in Nat
        BY <2>3, <3>2 DEF Relaxed
      <4> QED BY <1>1, <2>1, <3>1, <4>1
    <3>3. CASE n \notin S
      <4>1. n \in DOMAIN w.best /\ w.best[n] <= e[1] + g
        BY <1>10, <2>3, <3>3 DEF Relaxed
      <4>2. v.best[n] = w.best[n] /\ n \in DOMAIN v.best
        BY <3>3, <4>1 DEF Relaxed
      <4> QED BY <3>1, <4>1, <4>2
    <3> QED BY <3>2, <3>3
  <2> QED BY <2>2, <2>3
<1>11. ASSUME NEW n \in DOMAIN v.best, n \notin L PROVE <<v.best[n], n>> \in v.heap
  <2>1. v.heap = (w.heap \ {e}) \cup {<<r[m], m>> : m \in S}
    BY <1>1 DEF Relaxed
  <2>2. CASE n \in S
    BY <2>1, <2>2 DEF Relaxed
  <2>3. CASE n \notin S
    <3>1. n \in DOMAIN w.best /\ v.best[n] = w.best[n]
      BY <2>3 DEF Relaxed
    <3>2. <<w.best[n], n>> \in w.heap
      BY <1>11, <3>1 DEF Explored
    <3>3. <<w.best[n], n>> # e
      BY <1>1, <1>11
    <3> QED BY <2>1, <3>1, <3>2, <3>3
  <2> QED BY <2>2, <2>3
<1>12. ASSUME NEW n \in DOMAIN v.best \ {src}
       PROVE  v.pred[n] \in L /\ v.best[n] = v.best[v.pred[n]] + graph[<<v.pred[n], n>>].s
  <2>1. CASE n \in S
    <3>1. v.pred[n] = node /\ v.best[n] = r[n] /\ r[n] = e[1] + graph[<<node, n>>].s
      BY <2>1 DEF Relaxed
    <3>2. v.best[node] = e[1]
      BY <1>1, <1>5
    <3> QED BY <3>1, <3>2
  <2>2. CASE n \notin S
    <3>1. n \in DOMAIN w.best \ {src} /\ v.best[n] = w.best[n]
      BY <2>2 DEF Relaxed
    <3>2. w.pred[n] \in C /\ w.best[n] = w.best[w.pred[n]] + graph[<<w.pred[n], n>>].s /\ n \in DOMAIN w.pred
      BY <3>1 DEF Explored, PassOk
    <3>3. v.pred[n] = w.pred[n]
      BY <2>2, <3>2 DEF Relaxed
    <3>4. v.best[w.pred[n]] = w.best[w.pred[n]]
      BY <1>5, <3>2
    <3> QED BY <3>1, <3>2, <3>3, <3>4
  <2> QED BY <2>1, <2>2
<1>13. L \in SUBSET DOMAIN v.best
  BY <1>5
<1> HIDE DEF L
<1>14. Explored(graph, src, v, L)
  BY <1>8, <1>9, <1>10, <1>11, <1>12, <1>13 DEF Explored
<1> QED BY <1>2, <1>14 DEF L

LEMMA TakeFuelled ==
    ASSUME NEW graph, TableOk(graph), NEW src, NEW w, PassOk(graph, src, w), NEW C,
           NEW e \in w.heap, NEW S, NEW r, NEW v, Relaxed(graph, w, e, S, r, v), e[2] \notin C,
           NEW i \in Nat, Fuelled(graph, w, C, i)
    PROVE  Fuelled(graph, v, C \cup {e[2]}, i + 1)
<1> DEFINE node == e[2]
           A == OutOf(graph, C)
           B == OutOf(graph, {node})
           Q == {<<node, n>> : n \in S}
           P == {<<r[n], n>> : n \in S}
           f == [p \in Q |-> <<r[p[2]], p[2]>>]
           G == w.heap \ {e}
<1>1. e = <<e[1], node>> /\ IsFiniteSet(w.heap) /\ IsFiniteSet(DOMAIN graph) /\ w.heap # {}
  BY PairIs DEF PassOk, TableOk
<1>2. IsFiniteSet(A) /\ IsFiniteSet(B) /\ Cardinality(A) \in Nat /\ Cardinality(B) \in Nat
  <2>1. A \in SUBSET DOMAIN graph /\ B \in SUBSET DOMAIN graph
    BY DEF OutOf
  <2> HIDE DEF A, B
  <2> QED BY <1>1, <2>1, FS_Subset, FS_CardinalityType
<1>3. Cardinality(OutOf(graph, C \cup {node})) = Cardinality(A) + Cardinality(B)
  <2>1. OutOf(graph, C \cup {node}) = A \cup B
    BY DEF OutOf
  <2>2. A \cap B = {}
    <3> SUFFICES ASSUME NEW p \in A \cap B PROVE FALSE
      OBVIOUS
    <3>1. p[1] \in C /\ p[1] = node
      BY DEF OutOf
    <3> QED BY <3>1
  <2> HIDE DEF A, B
  <2>3. Cardinality(A \cap B) = 0
    BY <2>2, FS_EmptySet
  <2>4. Cardinality(A \cup B) = Cardinality(A) + Cardinality(B) - Cardinality(A \cap B)
    BY <1>2, FS_Union
  <2> DEFINE a == Cardinality(A)
             b == Cardinality(B)
             u == Cardinality(A \cup B)
  <2>5. u = a + b - 0 /\ a \in Nat /\ b \in Nat
    BY <1>2, <2>3, <2>4
  <2>6. u = a + b
    <3> HIDE DEF a, b, u
    <3> QED BY <2>5
  <2> QED BY <2>1, <2>6, Zenon
<1>4. Q \in SUBSET B
  <2> SUFFICES ASSUME NEW n \in S PROVE <<node, n>> \in B
    OBVIOUS
  <2>1. <<node, n>> \in DOMAIN graph
    BY DEF Relaxed
  <2> QED BY <2>1 DEF OutOf
<1>5. IsFiniteSet(Q) /\ Cardinality(Q) \in Nat /\ Cardinality(Q) <= Cardinality(B)
  <2> HIDE DEF Q, B
  <2> QED BY <1>2, <1>4, FS_Subset, FS_CardinalityType
<1>6. f \in Surjection(Q, P)
  <2>1. \A n \in S : <<node, n>> \in Q /\ f[<<node, n>>] = <<r[n], n>>
    OBVIOUS
  <2>2. \A q \in Q : \E n \in S : q = <<node, n>>
    OBVIOUS
  <2>3. f = [q \in Q |-> f[q]] /\ \A q \in Q : f[q] \in P
    BY <2>1, <2>2
  <2>4. \A x \in P : \E q \in Q : f[q] = x
    BY <2>1
  <2> HIDE DEF f, P, Q
  <2> QED BY <2>3, <2>4 DEF Surjection
<1>7. IsFiniteSet(P) /\ Cardinality(P) \in Nat /\ Cardinality(P) <= Cardinality(Q)
  <2> HIDE DEF P, Q, f
  <2> QED BY <1>5, <1>6, FS_Surjection, FS_CardinalityType
<1>8. /\ IsFiniteSet(G) /\ Cardinality(G) = Cardinality(w.heap) - 1 /\ Cardinality(w.heap) \in Nat
      /\ Cardinality(G) \in Nat
  <2>1. IsFiniteSet(w.heap \ {e}) /\ Cardinality(w.heap \ {e}) = Cardinality(w.heap) - 1
    BY <1>1, FS_RemoveElement
  <2> QED BY <1>1, <2>1, FS_CardinalityType
<1>9. v.heap = G \cup P
  BY <1>1 DEF Relaxed
<1> HIDE DEF A, B, P, Q, f, G
<1>10. Cardinality(G \cup P) <= Cardinality(G) + Cardinality(P) /\ Cardinality(G \cup P) \in Nat
  <2>1. IsFiniteSet(G \cap P) /\ IsFiniteSet(G \cup P) /\ Cardinality(G \cup P) = Cardinality(G) + Cardinality(P) - Cardinality(G \cap P)
    BY <1>7, <1>8, FS_Union, FS_Intersection
  <2>2. Cardinality(G \cap P) \in Nat
    BY <2>1, FS_CardinalityType
  <2> QED BY <1>7, <1>8, <2>1, <2>2, FS_CardinalityType
<1>11. i + Cardinality(w.heap) <= 1 + Cardinality(A)
  BY <1>1 DEF Fuelled, A
<1>12. (i + 1) + Cardinality(v.heap) <= 1 + Cardinality(OutOf(graph, C \cup {node}))
  <2> DEFINE a == Cardinality(A)
             b == Cardinality(B)
             q == Cardinality(Q)
             p == Cardinality(P)
             g == Cardinality(G)
             u == Cardinality(G \cup P)
             x == Cardinality(w.heap)
  <2>1. /\ a \in Nat /\ b \in Nat /\ q \in Nat /\ p \in Nat /\ g \in Nat /\ u \in Nat /\ x \in Nat
        /\ g = x - 1 /\ u <= g + p /\ p <= q /\ q <= b /\ i + x <= 1 + a
    BY <1>2, <1>5, <1>7, <1>8, <1>10, <1>11
  <2>2. Cardinality(v.heap) = u /\ Cardinality(OutOf(graph, C \cup {node})) = a + b
    BY <1>3, <1>9
  <2> HIDE DEF a, b, q, p, g, u, x
  <2> QED BY <2>1, <2>2
<1> QED BY <1>12 DEF Fuelled

LEMMA PopExplored ==
    ASSUME NEW graph, TableOk(graph), NEW src, NEW w, PassOk(graph, src, w), NEW i \in Nat,
           NEW C, Explored(graph, src, w, C), Fuelled(graph, w, C, i)
    PROVE  \E L : Explored(graph, src, PopNode(graph, w), L) /\ Fuelled(graph, PopNode(graph, w), L, i + 1)
<1>1. CASE w.heap = {}
  <2>1. PopNode(graph, w) = w
    BY <1>1 DEF PopNode
  <2> QED BY <1>1, <2>1 DEF Fuelled
<1>2. CASE w.heap # {}
  <2> DEFINE least == CHOOSE e \in w.heap : \A f \in w.heap : e[1] < f[1] \/ (e[1] = f[1] /\ e[2] <= f[2])
  <2>1. w.heap \in SUBSET (Nat \X Int) /\ IsFiniteSet(w.heap)
    BY DEF PassOk
  <2>2. \E e \in w.heap : \A f \in w.heap : e[1] < f[1] \/ (e[1] = f[1] /\ e[2] <= f[2])
    <3> DEFINE H == w.heap
    <3>1. H \in SUBSET (Nat \X Int) /\ IsFiniteSet(H) /\ H # {}
      BY <1>2, <2>1
    <3> HIDE DEF H
    <3>2. \E e \in H : \A f \in H : e[1] < f[1] \/ (e[1] = f[1] /\ e[2] <= f[2])
      BY <3>1, LeastEntry
    <3> QED BY <3>2 DEF H
  <2>3. least \in w.heap /\ \A f \in w.heap : least[1] < f[1] \/ (least[1] = f[1] /\ least[2] <= f[2])
    BY <2>2, Zenon
  <2>4. PopNode(graph, w) = Settle(graph, w, least[1], least[2])
    BY <1>2, Zenon DEF PopNode
  <2> HIDE DEF least
  <2> DEFINE v == Settle(graph, w, least[1], least[2])
  <2>5. PICK S, r : Relaxed(graph, w, least, S, r, v)
    BY <2>3, SettleIs
  <2> HIDE DEF v
  <2>6. /\ \A f \in w.heap : least[1] <= f[1]
        /\ least[1] \in Nat /\ w.best[least[2]] \in Nat /\ w.best[least[2]] <= least[1]
    <3>1. \A f \in w.heap : f[1] \in Nat
      BY <2>1, PairIs
    <3>2. least[2] \in DOMAIN w.best /\ w.best[least[2]] <= least[1]
      BY <2>3 DEF PassOk
    <3>3. w.best[least[2]] \in Nat
      BY <3>2 DEF PassOk
    <3> QED BY <2>3, <3>1, <3>2, <3>3
  <2>7. CASE least[1] > w.best[least[2]]
    BY <2>3, <2>4, <2>5, <2>7, SkipExplored DEF v
  <2>8. CASE least[1] = w.best[least[2]]
    <3>1. Explored(graph, src, v, C \cup {least[2]}) /\ least[2] \notin C
      BY <2>3, <2>5, <2>6, <2>8, TakeExplored
    <3>2. Fuelled(graph, v, C \cup {least[2]}, i + 1)
      BY <2>3, <2>5, <3>1, TakeFuelled
    <3> QED BY <2>4, <3>1, <3>2 DEF v
  <2> QED BY <2>6, <2>7, <2>8
<1> QED BY <1>1, <1>2

\* The times of a pass are closed under the links and each is that of a way.
Shortest(graph, src, w) ==
    /\ PassOk(graph, src, w)
    /\ \A n \in DOMAIN w.best : \A m : <<n, m>> \in DOMAIN graph =>
          m \in DOMAIN w.best /\ w.best[m] <= w.best[n] + graph[<<n, m>>].s
    /\ \A n \in DOMAIN w.best \ {src} : w.best[n] = w.best[w.pred[n]] + graph[<<w.pred[n], n>>].s

LEMMA PassEnds ==
    ASSUME NEW graph, TableOk(graph), NEW src \in Int
    PROVE  Shortest(graph, src, Pass(graph, src))
<1> DEFINE base == [best |-> [x \in {src} |-> 0], pred |-> NoTable, heap |-> {<<0, src>>}]
           n == Cardinality(DOMAIN graph) + 1
           seq == [i \in 1 .. n |-> i]
           T == 1 .. n
           D == {w \in Passes : PassOk(graph, src, w)}
<1>1. PassOk(graph, src, base) /\ Explored(graph, src, base, {}) /\ Fuelled(graph, base, {}, 0)
  <2> DEFINE b == [x \in {src} |-> 0]
  <2>1. b = [x \in {src} |-> 0]
    OBVIOUS
  <2> HIDE DEF b
  <2>2. DOMAIN b = {src} /\ b[src] = 0 /\ IsFiniteSet({src}) /\ IsFiniteSet({<<0, src>>}) /\ Cardinality({<<0, src>>}) = 1
    BY <2>1, FS_Singleton
  <2>3. base.best = b /\ base.heap = {<<0, src>>} /\ base = [best |-> b, pred |-> NoTable, heap |-> {<<0, src>>}]
    BY DEF b
  <2>4. NoTable \in [{} -> Int] /\ b \in [{src} -> Nat]
    BY <2>1 DEF NoTable
  <2>5. NoTable \in UNION {[B -> Int] : B \in SUBSET Int} /\ b \in UNION {[B -> Nat] : B \in SUBSET Int}
    BY <2>4
  <2> HIDE DEF base
  <2>6. base \in Passes
    BY <2>3, <2>5 DEF Passes
  <2>7. OutOf(graph, {}) = {}
    BY DEF OutOf
  <2>8. Cardinality(OutOf(graph, {})) = 0
    BY <2>7, FS_EmptySet
  <2>9. Explored(graph, src, base, {})
    BY <2>2, <2>3 DEF Explored
  <2> QED BY <2>2, <2>3, <2>6, <2>8, <2>9 DEF PassOk, Fuelled
<1>2. base \in D
  BY <1>1 DEF PassOk
<1>3. \A w \in D, i \in T : PopStep(graph, w, i) \in D
  BY PopOk DEF PopStep, PassOk
<1>4. n \in Nat /\ DOMAIN seq = 1 .. n /\ (\A i \in 1 .. n : seq[i] \in T) /\ Cardinality(DOMAIN graph) \in Nat
  BY FS_CardinalityType DEF TableOk
<1>5. \A w \in D : PassOk(graph, src, w)
  OBVIOUS
<1>50. n = Cardinality(DOMAIN graph) + 1
  OBVIOUS
<1>8. Pass(graph, src) = Popping(graph, base, seq)
  BY Zenon DEF Pass, Popping, base, n, PopStep
<1> HIDE DEF D, T, base, n, seq
<1>6. PopInput(graph, base, n, seq, D, T)
  BY <1>2, <1>3, <1>4 DEF PopInput
<1>7. PICK h : PopRun(graph, base, n, seq, D, h)
  BY <1>6, PopFold
<1> DEFINE Good == {i \in 0 .. n : \E C : Explored(graph, src, h[i], C) /\ Fuelled(graph, h[i], C, i)}
<1>9. \A i \in 0 .. n : PassOk(graph, src, h[i])
  BY <1>5, <1>7 DEF PopRun
<1>10. 0 \in Good
  BY <1>1, <1>4, <1>7 DEF PopRun
<1>11. ASSUME NEW i \in 0 .. n - 1, i \in Good PROVE i + 1 \in Good
  <2>1. i \in Nat /\ i \in 0 .. n /\ i + 1 \in 1 .. n /\ i + 1 \in 0 .. n /\ (i + 1) - 1 = i
    BY <1>4
  <2>2. h[i + 1] = PopNode(graph, h[i])
    BY <1>7, <2>1 DEF PopRun, PopStep
  <2>3. PICK C : Explored(graph, src, h[i], C) /\ Fuelled(graph, h[i], C, i)
    BY <1>11
  <2>4. PassOk(graph, src, h[i])
    BY <1>9, <2>1
  <2>5. \E L : Explored(graph, src, PopNode(graph, h[i]), L) /\ Fuelled(graph, PopNode(graph, h[i]), L, i + 1)
    BY <2>1, <2>3, <2>4, PopExplored
  <2> QED BY <2>1, <2>2, <2>5
<1> HIDE DEF Good
<1>12. n \in Good
  <2>1. \A i \in 0 .. n : i \in Good
    BY <1>4, <1>10, <1>11, UpTo
  <2> QED BY <1>4, <2>1
<1> DEFINE w == Pass(graph, src)
<1>13. w = h[n]
  BY <1>7, <1>8 DEF PopRun
<1> HIDE DEF w
<1>14. PICK C : Explored(graph, src, w, C) /\ Fuelled(graph, w, C, n)
  BY <1>12, <1>13 DEF Good
<1>15. PassOk(graph, src, w)
  BY <1>4, <1>9, <1>13
<1>16. w.heap = {}
  <2>1. IsFiniteSet(w.heap) /\ Cardinality(w.heap) \in Nat
    BY <1>15, FS_CardinalityType DEF PassOk
  <2>2. IsFiniteSet(DOMAIN graph) /\ OutOf(graph, C) \in SUBSET DOMAIN graph
    BY DEF OutOf, TableOk
  <2>3. Cardinality(OutOf(graph, C)) <= Cardinality(DOMAIN graph) /\ Cardinality(OutOf(graph, C)) \in Nat
    BY <2>2, FS_Subset, FS_CardinalityType
  <2>4. CASE n + Cardinality(w.heap) <= 1 + Cardinality(OutOf(graph, C))
    <3>1. Cardinality(w.heap) = 0
      BY <1>4, <1>50, <2>1, <2>3, <2>4
    <3> QED BY <2>1, <3>1, FS_EmptySet
  <2> QED BY <1>14, <2>4 DEF Fuelled
<1>17. C = DOMAIN w.best
  BY <1>14, <1>16 DEF Explored
<1>18. Shortest(graph, src, w)
  BY <1>14, <1>15, <1>17 DEF Explored, Shortest
<1> QED BY <1>18 DEF w

\* A way over the links of a table, and the times h at its places.
Simple(graph, way) ==
    /\ way \in Seq(Int) /\ Len(way) >= 2 /\ \A i, j \in DOMAIN way : way[i] = way[j] => i = j
    /\ \A i \in 1 .. Len(way) - 1 : <<way[i], way[i + 1]>> \in DOMAIN graph
Timed(graph, way, h) ==
    /\ h \in [0 .. Len(way) - 1 -> Int] /\ h[0] = 0
    /\ \A i \in 1 .. Len(way) - 1 : h[i] = h[i - 1] + graph[<<way[i], way[i + 1]>>].s
Lasting(graph, way, s) == \E h : Timed(graph, way, h) /\ h[Len(way) - 1] = s

\* No way is faster than what a pass has found.
LEMMA NoFaster ==
    ASSUME NEW graph, TableOk(graph), NEW src, NEW w, Shortest(graph, src, w),
           NEW way, Simple(graph, way), way[1] = src, NEW s, Lasting(graph, way, s)
    PROVE  Last(way) \in DOMAIN w.best \ {src} /\ w.best[Last(way)] <= s
<1>1. PICK h : Timed(graph, way, h) /\ h[Len(way) - 1] = s
  BY DEF Lasting
<1> DEFINE n == Len(way) - 1
           Good == {i \in 0 .. n : way[i + 1] \in DOMAIN w.best /\ w.best[way[i + 1]] <= h[i]}
<1>2. n \in Nat /\ n >= 1 /\ DOMAIN way = 1 .. n + 1 /\ way \in Seq(Int) /\ n + 1 = Len(way)
  BY DEF Simple
<1>3. 0 \in Good
  BY <1>1, <1>2 DEF Timed, Shortest, PassOk
<1>4. ASSUME NEW i \in 0 .. n - 1, i \in Good PROVE i + 1 \in Good
  <2> DEFINE a == way[i + 1]
             b == way[(i + 1) + 1]
             g == graph[<<a, b>>].s
  <2>1. i + 1 \in 1 .. n /\ i + 1 \in 0 .. n /\ (i + 1) - 1 = i /\ i \in 0 .. n
    BY <1>2
  <2>2. h[i + 1] = h[i] + g /\ h[i] \in Int /\ h[i + 1] \in Int
    BY <1>1, <2>1 DEF Timed
  <2>3. a \in DOMAIN w.best /\ w.best[a] <= h[i]
    BY <1>4
  <2>4. <<a, b>> \in DOMAIN graph
    BY <2>1 DEF Simple
  <2>5. b \in DOMAIN w.best /\ w.best[b] <= w.best[a] + g
    BY <2>3, <2>4 DEF Shortest
  <2>6. w.best[a] \in Nat /\ w.best[b] \in Nat
    BY <2>3, <2>5 DEF Shortest, PassOk
  <2>7. g \in Nat
    <3> HIDE DEF a, b
    <3>1. graph[<<a, b>>] \in Times
      BY <2>4 DEF TableOk
    <3> QED BY <3>1 DEF Times
  <2>8. w.best[b] <= h[i + 1]
    <3> HIDE DEF g, a, b
    <3> QED BY <2>2, <2>3, <2>5, <2>6, <2>7
  <2> QED BY <2>1, <2>5, <2>8
<1> HIDE DEF Good, n
<1>5. n \in Good
  <2>1. \A i \in 0 .. n : i \in Good
    BY <1>2, <1>3, <1>4, UpTo
  <2> QED BY <1>2, <2>1
<1>6. Last(way) = way[n + 1]
  BY <1>2 DEF Last
<1>7. Last(way) # src
  BY <1>2, <1>6 DEF Simple
<1> QED BY <1>1, <1>5, <1>6, <1>7 DEF Good, n

\* A way back is a way over the links and lasts what the pass says.
LEMMA WayLasts ==
    ASSUME NEW graph, TableOk(graph), NEW src, NEW w, Shortest(graph, src, w), NEW target \in DOMAIN w.best \ {src}
    PROVE  /\ Simple(graph, Way(w, src, target)) /\ Way(w, src, target)[1] = src /\ Last(Way(w, src, target)) = target
           /\ Lasting(graph, Way(w, src, target), w.best[target])
<1> DEFINE way == Way(w, src, target)
           n == Len(way) - 1
           h == [i \in 0 .. n |-> w.best[way[i + 1]]]
<1>1. WaySound(w, src, target, way)
  BY WayBack DEF Shortest
<1> HIDE DEF way
<1>2. /\ way \in Seq(Int) /\ way[1] = src /\ way[n + 1] = target /\ n \in Nat /\ n # 0 /\ Len(way) = n + 1
      /\ DOMAIN way = 1 .. n + 1 /\ \A i \in 1 .. n + 1 : way[i] \in DOMAIN w.best
  BY <1>1 DEF WaySound
<1>3. ASSUME NEW i \in 1 .. n
      PROVE  /\ <<way[i], way[i + 1]>> \in DOMAIN graph
             /\ w.best[way[i + 1]] = w.best[way[i]] + graph[<<way[i], way[i + 1]>>].s
             /\ w.best[way[i]] < w.best[way[i + 1]]
  <2>1. way[i + 1] \in DOMAIN w.best \ {src} /\ way[i] = w.pred[way[i + 1]]
    BY <1>1, <1>2 DEF WaySound
  <2> QED BY <2>1 DEF Shortest, PassOk
<1>4. \A i \in 1 .. n + 1 : w.best[way[i]] \in Nat
  BY <1>2 DEF Shortest, PassOk
<1>5. \A i, j \in 0 .. n : i < j => w.best[way[i + 1]] < w.best[way[j + 1]]
  <2> SUFFICES ASSUME NEW i \in 0 .. n PROVE \A j \in 0 .. n : i < j => w.best[way[i + 1]] < w.best[way[j + 1]]
    OBVIOUS
  <2> DEFINE More == {j \in 0 .. n : i < j => w.best[way[i + 1]] < w.best[way[j + 1]]}
  <2>1. 0 \in More
    BY <1>2
  <2>2. ASSUME NEW j \in 0 .. n - 1, j \in More PROVE j + 1 \in More
    <3>1. j + 1 \in 1 .. n /\ j + 1 \in 1 .. n + 1 /\ j + 1 \in 0 .. n /\ i + 1 \in 1 .. n + 1 /\ (j + 1) + 1 \in 1 .. n + 1
      BY <1>2
    <3>2. w.best[way[j + 1]] < w.best[way[(j + 1) + 1]]
      BY <1>3, <3>1
    <3>3. w.best[way[j + 1]] \in Nat /\ w.best[way[(j + 1) + 1]] \in Nat /\ w.best[way[i + 1]] \in Nat
      BY <1>4, <3>1
    <3>4. i < j => w.best[way[i + 1]] < w.best[way[j + 1]]
      BY <2>2
    <3>5. i < j + 1 => i < j \/ i = j
      BY <1>2
    <3> QED BY <3>1, <3>2, <3>3, <3>4, <3>5
  <2> HIDE DEF More, n
  <2>3. \A j \in 0 .. n : j \in More
    BY <1>2, <2>1, <2>2, UpTo
  <2> QED BY <2>3 DEF More
<1> HIDE DEF n
<1>6. \A i, j \in DOMAIN way : way[i] = way[j] => i = j
  <2> SUFFICES ASSUME NEW i \in 1 .. n + 1, NEW j \in 1 .. n + 1, way[i] = way[j], i < j PROVE FALSE
    BY <1>2
  <2>1. i - 1 \in 0 .. n /\ j - 1 \in 0 .. n /\ i - 1 < j - 1 /\ (i - 1) + 1 = i /\ (j - 1) + 1 = j
    BY <1>2
  <2>2. w.best[way[i]] < w.best[way[j]] /\ w.best[way[i]] \in Nat
    BY <1>4, <1>5, <2>1
  <2> QED BY <2>2
<1>7. Simple(graph, way)
  <2>1. Len(way) >= 2 /\ Len(way) - 1 = n
    BY <1>2
  <2>2. \A i \in 1 .. Len(way) - 1 : <<way[i], way[i + 1]>> \in DOMAIN graph
    BY <1>3, <2>1
  <2> QED BY <1>2, <1>6, <2>1, <2>2 DEF Simple
<1>8. Timed(graph, way, h) /\ h[n] = w.best[target]
  <2>1. \A i \in 0 .. n : h[i] = w.best[way[i + 1]] /\ h[i] \in Int
    <3> SUFFICES ASSUME NEW i \in 0 .. n PROVE h[i] = w.best[way[i + 1]] /\ h[i] \in Int
      OBVIOUS
    <3>1. i + 1 \in 1 .. n + 1
      BY <1>2
    <3> QED BY <1>4, <3>1
  <2>2. h \in [0 .. n -> Int]
    BY <2>1
  <2> HIDE DEF h
  <2>3. h[0] = 0
    BY <1>2, <2>1 DEF Shortest, PassOk
  <2>4. \A i \in 1 .. n : h[i] = h[i - 1] + graph[<<way[i], way[i + 1]>>].s
    <3> SUFFICES ASSUME NEW i \in 1 .. n PROVE h[i] = h[i - 1] + graph[<<way[i], way[i + 1]>>].s
      OBVIOUS
    <3>1. i \in 0 .. n /\ i - 1 \in 0 .. n /\ (i - 1) + 1 = i
      BY <1>2
    <3>2. h[i] = w.best[way[i + 1]] /\ h[i - 1] = w.best[way[i]]
      BY <2>1, <3>1
    <3> QED BY <1>3, <3>2
  <2> QED BY <1>2, <2>1, <2>2, <2>3, <2>4 DEF Timed, n
<1> HIDE DEF h
<1>9. Last(way) = target
  BY <1>2 DEF Last
<1>10. Lasting(graph, way, w.best[target])
  BY <1>8 DEF Lasting, n
<1> QED BY <1>2, <1>7, <1>9, <1>10 DEF way

\* Table T holds the ways out of A over the links of a graph, each pair of ends
\* with a fastest way.
BestWay(graph, T, p, way) ==
    /\ Simple(graph, way) /\ p = <<way[1], Last(way)>>
    /\ Lasting(graph, way, T[p].s) /\ T[p].line = Joined(graph, way)
Fits(graph, T, A) ==
    /\ \A p \in DOMAIN T : p[1] \in A /\ \E way : BestWay(graph, T, p, way)
    /\ \A way, s : Simple(graph, way) /\ way[1] \in A /\ Lasting(graph, way, s) =>
          <<way[1], Last(way)>> \in DOMAIN T /\ T[<<way[1], Last(way)>>].s <= s

LEMMA ReachedFits ==
    ASSUME NEW graph, TableOk(graph), NEW src \in Int
    PROVE  Fits(graph, Reached(graph, src, Pass(graph, src)), {src})
<1> DEFINE w == Pass(graph, src)
           P == {<<src, t>> : t \in DOMAIN w.best \ {src}}
           R == [p \in P |-> [s |-> w.best[p[2]], line |-> Joined(graph, Way(w, src, p[2]))]]
<1>1. Reached(graph, src, w) = R
  BY Zenon DEF Reached
<1>2. Shortest(graph, src, w)
  BY PassEnds
<1> HIDE DEF w
<1>3. DOMAIN R = P /\ \A t \in DOMAIN w.best \ {src} :
         <<src, t>> \in P /\ R[<<src, t>>].s = w.best[t] /\ R[<<src, t>>].line = Joined(graph, Way(w, src, t))
  OBVIOUS
<1>4. ASSUME NEW p \in P PROVE p[1] \in {src} /\ \E way : BestWay(graph, R, p, way)
  <2>1. PICK t \in DOMAIN w.best \ {src} : p = <<src, t>>
    OBVIOUS
  <2> DEFINE way == Way(w, src, t)
  <2>2. Simple(graph, way) /\ way[1] = src /\ Last(way) = t /\ Lasting(graph, way, w.best[t])
    BY <1>2, WayLasts
  <2>3. R[p].s = w.best[t] /\ R[p].line = Joined(graph, way)
    BY <1>3, <2>1
  <2> HIDE DEF way, R
  <2>4. BestWay(graph, R, p, way)
    BY <2>1, <2>2, <2>3 DEF BestWay
  <2>5. p[1] = src
    BY <2>1
  <2> QED BY <2>4, <2>5
<1>5. ASSUME NEW way, NEW s, Simple(graph, way), way[1] = src, Lasting(graph, way, s)
      PROVE  <<way[1], Last(way)>> \in P /\ R[<<way[1], Last(way)>>].s <= s
  <2>1. Last(way) \in DOMAIN w.best \ {src} /\ w.best[Last(way)] <= s
    BY <1>2, <1>5, NoFaster
  <2> HIDE DEF P, R
  <2> QED BY <1>3, <1>5, <2>1
<1> HIDE DEF P, R
<1>6. Fits(graph, R, {src})
  BY <1>3, <1>4, <1>5 DEF Fits
<1> QED BY <1>1, <1>6 DEF w

LEMMA OverFits ==
    ASSUME NEW graph, NEW T, NEW U, NEW A, NEW B, Fits(graph, T, A), Fits(graph, U, B)
    PROVE  Fits(graph, Over(T, U), A \cup B)
<1> DEFINE R == Over(T, U)
<1>1. Laid(R, T, U)
  BY OverIs
<1> HIDE DEF R
<1>2. /\ DOMAIN R = DOMAIN T \cup DOMAIN U /\ (\A p \in DOMAIN T : R[p] = T[p])
      /\ \A p \in DOMAIN U : p \notin DOMAIN T => R[p] = U[p]
  BY <1>1 DEF Laid
<1>3. ASSUME NEW p \in DOMAIN R PROVE p[1] \in A \cup B /\ \E way : BestWay(graph, R, p, way)
  <2>1. CASE p \in DOMAIN T
    <3>1. R[p] = T[p] /\ p[1] \in A
      BY <1>2, <2>1 DEF Fits
    <3>2. PICK way : BestWay(graph, T, p, way)
      BY <2>1 DEF Fits
    <3>3. BestWay(graph, R, p, way)
      BY <3>1, <3>2 DEF BestWay
    <3> QED BY <3>1, <3>3
  <2>2. CASE p \notin DOMAIN T
    <3>1. R[p] = U[p] /\ p[1] \in B /\ p \in DOMAIN U
      BY <1>2, <2>2 DEF Fits
    <3>2. PICK way : BestWay(graph, U, p, way)
      BY <3>1 DEF Fits
    <3>3. BestWay(graph, R, p, way)
      BY <3>1, <3>2 DEF BestWay
    <3> QED BY <3>1, <3>3
  <2> QED BY <2>1, <2>2
<1>4. ASSUME NEW way, NEW s, Simple(graph, way), way[1] \in A \cup B, Lasting(graph, way, s)
      PROVE  <<way[1], Last(way)>> \in DOMAIN R /\ R[<<way[1], Last(way)>>].s <= s
  <2> DEFINE p == <<way[1], Last(way)>>
  <2>0. p[1] = way[1]
    OBVIOUS
  <2>1. way[1] \in A => p \in DOMAIN T /\ T[p].s <= s
    BY <1>4 DEF Fits
  <2>2. way[1] \in B => p \in DOMAIN U /\ U[p].s <= s
    BY <1>4 DEF Fits
  <2>3. p \in DOMAIN T => way[1] \in A
    BY <2>0 DEF Fits
  <2> HIDE DEF p
  <2>4. p \in DOMAIN R /\ R[p].s <= s
    BY <1>2, <1>4, <2>1, <2>2, <2>3
  <2> QED BY <2>4 DEF p
<1>5. Fits(graph, R, A \cup B)
  BY <1>3, <1>4 DEF Fits
<1> QED BY <1>5 DEF R

LEMMA NoneFits ==
    ASSUME NEW graph
    PROVE  Fits(graph, NoTable, {})
BY DEF Fits, NoTable

\* Every way begins at an end of a link.
LEMMA BeginsAtEnd ==
    ASSUME NEW graph, NEW way, Simple(graph, way)
    PROVE  /\ DOMAIN graph # {}
           /\ \A i \in 1 .. Len(way) : way[i] \in Ends(graph)
<1>1. way \in Seq(Int) /\ Len(way) \in Nat /\ Len(way) >= 2
  BY DEF Simple
<1>2. ASSUME NEW i \in 1 .. Len(way) - 1 PROVE <<way[i], way[i + 1]>> \in DOMAIN graph /\ way[i] \in Ends(graph) /\ way[i + 1] \in Ends(graph)
  <2> DEFINE p == <<way[i], way[i + 1]>>
  <2>1. p \in DOMAIN graph
    BY DEF Simple
  <2>2. way[i] \in {p[1], p[2]} /\ way[i + 1] \in {p[1], p[2]}
    OBVIOUS
  <2> HIDE DEF p
  <2>3. way[i] \in Ends(graph) /\ way[i + 1] \in Ends(graph)
    BY <2>1, <2>2 DEF Ends
  <2> QED BY <2>1, <2>3 DEF p
<1>3. ASSUME NEW i \in 1 .. Len(way) PROVE way[i] \in Ends(graph)
  <2>1. CASE i = Len(way)
    <3>1. i - 1 \in 1 .. Len(way) - 1 /\ (i - 1) + 1 = i
      BY <1>1, <2>1
    <3> QED BY <1>2, <3>1
  <2>2. CASE i # Len(way)
    <3>1. i \in 1 .. Len(way) - 1
      BY <1>1, <2>2
    <3> QED BY <1>2, <3>1
  <2> QED BY <2>1, <2>2
<1>4. 1 \in 1 .. Len(way) - 1
  BY <1>1
<1> QED BY <1>2, <1>3, <1>4

-----------------------------------------------------------------------------
\* The table of a mode, and the rows that may be in it between two places.
TableFor(d, mode) == IF mode \in DOMAIN d THEN d[mode] ELSE NoTable
Joins(l, mode, p) == l.s > 0 /\ l.mode = mode /\ p = <<l.from, l.to>>
\* After k rows each table holds the fastest links of its mode.
Rowed(ls, k, d) ==
    \A mode :
        /\ \A p \in DOMAIN TableFor(d, mode) :
              \E i \in 1 .. k : Joins(ls[i], mode, p) /\ TableFor(d, mode)[p] = Leg(ls[i])
        /\ \A i \in 1 .. k : \A p : Joins(ls[i], mode, p) =>
              p \in DOMAIN TableFor(d, mode) /\ TableFor(d, mode)[p].s <= ls[i].s

\* g is f with another value at k.
Changed(g, f, k, v) == DOMAIN g = DOMAIN f \cup {k} /\ g[k] = v /\ \A x \in DOMAIN f : x # k => g[x] = f[x]

LEMMA PutPlaced ==
    ASSUME NEW f, NEW k, NEW v
    PROVE  Changed(Put(f, k, v), f, k, v)
BY DEF Put, Changed

LEMMA RowedStep ==
    ASSUME NEW ls, Rows(ls), NEW k \in Nat, k < Len(ls), NEW d, TablesOk(d), Rowed(ls, k, d), NEW c,
           c = IF ls[k + 1].s > 0 /\ Faster(TableFor(d, ls[k + 1].mode), <<ls[k + 1].from, ls[k + 1].to>>, ls[k + 1].s)
               THEN Put(d, ls[k + 1].mode,
                        Put(TableFor(d, ls[k + 1].mode), <<ls[k + 1].from, ls[k + 1].to>>, Leg(ls[k + 1])))
               ELSE d
    PROVE  Rowed(ls, k + 1, c)
<1> DEFINE link == ls[k + 1]
           pair == <<link.from, link.to>>
           T == TableFor(d, link.mode)
           U == Put(T, pair, Leg(link))
<1>1. Len(ls) \in Nat /\ k + 1 \in 1 .. Len(ls) /\ k + 1 \in 1 .. k + 1 /\ \A i \in 1 .. k + 1 : i = k + 1 \/ i \in 1 .. k
  BY DEF Rows
<1>2. link.s \in Int /\ \A i \in 1 .. k : ls[i].s \in Int
  <2>1. \A i \in 1 .. Len(ls) : LinkRow(ls[i])
    BY DEF Rows, ToSet
  <2> QED BY <1>1, <2>1 DEF LinkRow
<1>3. \A mode : TableOk(TableFor(d, mode))
  BY NoTableOk DEF TableFor, TablesOk
<1>4. Leg(link).s = link.s
  BY DEF Leg
<1> DEFINE taken == link.s > 0 /\ Faster(T, pair, link.s)
<1>5. CASE ~taken
  <2>1. c = d
    BY <1>5
  <2>2. ASSUME NEW mode, NEW p, Joins(link, mode, p)
        PROVE  p \in DOMAIN TableFor(d, mode) /\ TableFor(d, mode)[p].s <= link.s
    <3>1. mode = link.mode /\ p = pair /\ link.s > 0
      BY <2>2 DEF Joins
    <3> HIDE DEF T, pair, link
    <3>2. pair \in DOMAIN T /\ ~(link.s < T[pair].s)
      BY <1>5, <3>1 DEF Faster
    <3>3. T[pair].s \in Int
      <4>1. T[pair] \in Times
        BY <1>3, <3>2 DEF TableOk, T
      <4> QED BY <4>1 DEF Times
    <3> QED BY <1>2, <3>1, <3>2, <3>3 DEF T
  <2>3. ASSUME NEW mode PROVE \A p \in DOMAIN TableFor(d, mode) :
              \E i \in 1 .. k + 1 : Joins(ls[i], mode, p) /\ TableFor(d, mode)[p] = Leg(ls[i])
    <3>1. \A p \in DOMAIN TableFor(d, mode) :
              \E i \in 1 .. k : Joins(ls[i], mode, p) /\ TableFor(d, mode)[p] = Leg(ls[i])
      BY DEF Rowed
    <3> QED BY <3>1
  <2>4. ASSUME NEW mode, NEW i \in 1 .. k + 1, NEW p, Joins(ls[i], mode, p)
        PROVE  p \in DOMAIN TableFor(d, mode) /\ TableFor(d, mode)[p].s <= ls[i].s
    <3>1. CASE i = k + 1
      BY <2>2, <2>4, <3>1
    <3>2. CASE i \in 1 .. k
      BY <2>4, <3>2 DEF Rowed
    <3> QED BY <1>1, <3>1, <3>2
  <2>5. Rowed(ls, k + 1, d)
    <3> HIDE DEF T, pair, link, taken
    <3> QED BY <2>3, <2>4, Zenon DEF Rowed
  <2> QED BY <2>1, <2>5
<1>6. CASE taken
  <2>1. c = Put(d, link.mode, U)
    BY <1>6
  <2>2. /\ TableFor(c, link.mode) = U
        /\ \A mode : mode # link.mode => TableFor(c, mode) = TableFor(d, mode)
    <3> HIDE DEF U, link
    <3>1. /\ DOMAIN c = DOMAIN d \cup {link.mode} /\ c[link.mode] = U
          /\ \A x \in DOMAIN d : x # link.mode => c[x] = d[x]
      <4>1. Changed(Put(d, link.mode, U), d, link.mode, U)
        BY PutPlaced
      <4> QED BY <2>1, <4>1 DEF Changed
    <3> QED BY <3>1 DEF TableFor
  <2>3. /\ DOMAIN U = DOMAIN T \cup {pair} /\ U[pair] = Leg(link)
        /\ \A x \in DOMAIN T : x # pair => U[x] = T[x]
    <3>1. Changed(U, T, pair, Leg(link))
      BY PutPlaced
    <3> HIDE DEF T, pair, link, U
    <3> QED BY <3>1 DEF Changed
  <2>4. link.s > 0 /\ (pair \in DOMAIN T => link.s < T[pair].s)
    BY <1>6 DEF Faster
  <2>5. \A p \in DOMAIN T : T[p].s \in Int
    BY <1>3 DEF TableOk, Times
  <2>6. ASSUME NEW mode, NEW p \in DOMAIN TableFor(c, mode)
        PROVE  \E i \in 1 .. k + 1 : Joins(ls[i], mode, p) /\ TableFor(c, mode)[p] = Leg(ls[i])
    <3>1. CASE mode = link.mode /\ p = pair
      <4>1. Joins(link, mode, p) /\ TableFor(c, mode)[p] = Leg(link)
        BY <2>2, <2>3, <2>4, <3>1 DEF Joins
      <4> QED BY <1>1, <4>1
    <3>2. CASE ~(mode = link.mode /\ p = pair)
      <4>1. p \in DOMAIN TableFor(d, mode) /\ TableFor(c, mode)[p] = TableFor(d, mode)[p]
        <5>1. CASE mode = link.mode
          <6> HIDE DEF U, pair
          <6> QED BY <2>2, <2>3, <2>6, <3>2, <5>1
        <5>2. CASE mode # link.mode
          BY <2>2, <2>6, <5>2
        <5> QED BY <5>1, <5>2
      <4>2. PICK i \in 1 .. k : Joins(ls[i], mode, p) /\ TableFor(d, mode)[p] = Leg(ls[i])
        BY <4>1 DEF Rowed
      <4> QED BY <1>1, <4>1, <4>2
    <3> QED BY <3>1, <3>2
  <2>7. ASSUME NEW mode, NEW i \in 1 .. k + 1, NEW p, Joins(ls[i], mode, p)
        PROVE  p \in DOMAIN TableFor(c, mode) /\ TableFor(c, mode)[p].s <= ls[i].s
    <3>1. CASE i = k + 1
      <4>1. mode = link.mode /\ p = pair
        BY <2>7, <3>1 DEF Joins
      <4>2. TableFor(c, mode)[p].s = link.s /\ p \in DOMAIN TableFor(c, mode)
        BY <1>4, <2>2, <2>3, <4>1
      <4> QED BY <1>2, <3>1, <4>2
    <3>2. CASE i \in 1 .. k
      <4>1. p \in DOMAIN TableFor(d, mode) /\ TableFor(d, mode)[p].s <= ls[i].s
        BY <2>7, <3>2 DEF Rowed
      <4>2. CASE mode = link.mode /\ p = pair
        <5>1. TableFor(c, mode)[p].s = link.s /\ p \in DOMAIN TableFor(c, mode)
          BY <1>4, <2>2, <2>3, <4>2
        <5>2. link.s < T[pair].s /\ T[pair].s <= ls[i].s /\ T[pair].s \in Int
          BY <2>4, <2>5, <4>1, <4>2
        <5>3. ls[i].s \in Int
          BY <1>2, <3>2
        <5> HIDE DEF T, link, pair
        <5>4. link.s <= ls[i].s
          BY <1>2, <5>2, <5>3
        <5> QED BY <5>1, <5>4
      <4>3. CASE mode = link.mode /\ p # pair
        <5> HIDE DEF U, pair
        <5> QED BY <2>2, <2>3, <4>1, <4>3
      <4>4. CASE mode # link.mode
        BY <2>2, <4>1, <4>4
      <4> QED BY <4>2, <4>3, <4>4
    <3> QED BY <1>1, <3>1, <3>2
  <2> QED BY ZenonT(60), <2>6, <2>7 DEF Rowed
<1> QED BY <1>5, <1>6

\* The network of a mode holds the fastest links it may use.
LEMMA MergedIs ==
    ASSUME Rows(links), TablesOk(direct), Rowed(links, Len(links), direct), NEW m
    PROVE  /\ \A p \in DOMAIN Merged(m) :
                 \E l \in Open(m) : p = <<l.from, l.to>> /\ Merged(m)[p] = Leg(l)
           /\ \A l \in Open(m) : /\ <<l.from, l.to>> \in DOMAIN Merged(m)
                                 /\ Merged(m)[<<l.from, l.to>>].s <= l.s
<1> DEFINE T == Table("any")
           U == Table(m)
           R == Merged(m)
<1>1. T = TableFor(direct, "any") /\ U = TableFor(direct, m)
  BY DEF Table, TableFor
<1>2. R = [p \in DOMAIN T \cup DOMAIN U |-> IF p \in DOMAIN U /\ Faster(T, p, U[p].s) THEN U[p] ELSE T[p]]
  BY DEF Merged
<1>3. TableOk(T) /\ TableOk(U)
  BY NoTableOk DEF Table, TablesOk
<1> HIDE DEF T, U, R
<1>4. \A p \in DOMAIN T : T[p].s \in Int
  BY <1>3 DEF TableOk, Times
<1>5. \A p \in DOMAIN U : U[p].s \in Int
  BY <1>3 DEF TableOk, Times
<1>6. \A i \in 1 .. Len(links) : links[i] \in ToSet(links)
  BY DEF Rows, ToSet
<1>7. \A l \in ToSet(links) : \E i \in 1 .. Len(links) : l = links[i]
  BY DEF Rows, ToSet
<1>8. \A l \in ToSet(links) : l.s \in Int
  BY DEF Rows, LinkRow
<1>9. ASSUME NEW p \in DOMAIN T PROVE \E l \in Open(m) : p = <<l.from, l.to>> /\ T[p] = Leg(l)
  <2>1. PICK i \in 1 .. Len(links) : Joins(links[i], "any", p) /\ T[p] = Leg(links[i])
    BY <1>1 DEF Rowed
  <2>2. links[i] \in Open(m)
    BY <1>6, <2>1 DEF Joins, Open
  <2> QED BY <2>1, <2>2 DEF Joins
<1>10. ASSUME NEW p \in DOMAIN U PROVE \E l \in Open(m) : p = <<l.from, l.to>> /\ U[p] = Leg(l)
  <2>1. PICK i \in 1 .. Len(links) : Joins(links[i], m, p) /\ U[p] = Leg(links[i])
    BY <1>1 DEF Rowed
  <2>2. links[i] \in Open(m)
    BY <1>6, <2>1 DEF Joins, Open
  <2> QED BY <2>1, <2>2 DEF Joins
<1>11. ASSUME NEW p \in DOMAIN R
       PROVE  \E l \in Open(m) : p = <<l.from, l.to>> /\ R[p] = Leg(l)
  <2>1. (p \in DOMAIN T /\ R[p] = T[p]) \/ (p \in DOMAIN U /\ R[p] = U[p])
    BY <1>2 DEF Faster
  <2> QED BY <1>9, <1>10, <2>1
<1>12. DOMAIN R = DOMAIN T \cup DOMAIN U
  BY <1>2
<1>13. ASSUME NEW p \in DOMAIN T PROVE R[p].s <= T[p].s /\ R[p].s \in Int
  BY <1>2, <1>4, <1>5, <1>12 DEF Faster
<1>14. ASSUME NEW p \in DOMAIN U PROVE R[p].s <= U[p].s /\ R[p].s \in Int
  BY <1>2, <1>4, <1>5, <1>12 DEF Faster
<1>15. ASSUME NEW l \in Open(m) PROVE <<l.from, l.to>> \in DOMAIN R /\ R[<<l.from, l.to>>].s <= l.s
  <2> DEFINE p == <<l.from, l.to>>
  <2>1. l \in ToSet(links) /\ l.s > 0 /\ l.s \in Int
    BY <1>8 DEF Open
  <2>2. PICK i \in 1 .. Len(links) : l = links[i]
    BY <1>7, <2>1
  <2>3. CASE l.mode = "any"
    <3>1. Joins(links[i], "any", p)
      BY <2>1, <2>2, <2>3 DEF Joins
    <3>2. p \in DOMAIN T /\ T[p].s <= l.s
      BY <1>1, <2>2, <3>1 DEF Rowed
    <3> HIDE DEF p
    <3>3. p \in DOMAIN R /\ R[p].s <= l.s
      BY <1>4, <1>12, <1>13, <2>1, <3>2
    <3> QED BY <3>3 DEF p
  <2>4. CASE l.mode = m
    <3>1. Joins(links[i], m, p)
      BY <2>1, <2>2, <2>4 DEF Joins
    <3>2. p \in DOMAIN U /\ U[p].s <= l.s
      BY <1>1, <2>2, <3>1 DEF Rowed
    <3> HIDE DEF p
    <3>3. p \in DOMAIN R /\ R[p].s <= l.s
      BY <1>5, <1>12, <1>14, <2>1, <3>2
    <3> QED BY <3>3 DEF p
  <2> QED BY <2>3, <2>4 DEF Open
<1> QED BY <1>11, <1>15 DEF R

\* The least time of a link between two places, if there is one.
LEMMA FewestIs ==
    ASSUME Rows(links), TablesOk(direct), Rowed(links, Len(links), direct), NEW m, NEW a, NEW b
    PROVE  /\ <<a, b>> \in DOMAIN Merged(m) => Fewest(m, a, b) = Merged(m)[<<a, b>>].s
           /\ <<a, b>> \notin DOMAIN Merged(m) => Fewest(m, a, b) = None
<1> DEFINE L == {l \in Open(m) : l.from = a /\ l.to = b}
           S == {l.s : l \in L}
           R == Merged(m)
           p == <<a, b>>
<1>1. Fewest(m, a, b) = IF S = {} THEN None ELSE Min(S)
  BY DEF Fewest
<1>2. /\ \A q \in DOMAIN R : \E l \in Open(m) : q = <<l.from, l.to>> /\ R[q] = Leg(l)
      /\ \A l \in Open(m) : <<l.from, l.to>> \in DOMAIN R /\ R[<<l.from, l.to>>].s <= l.s
  BY MergedIs
<1> HIDE DEF R
<1>3. p \in DOMAIN R => R[p].s \in S
  <2> SUFFICES ASSUME p \in DOMAIN R PROVE R[p].s \in S
    OBVIOUS
  <2>1. PICK l \in Open(m) : p = <<l.from, l.to>> /\ R[p] = Leg(l)
    BY <1>2
  <2>2. l.from = a /\ l.to = b
    BY <2>1
  <2>3. R[p].s = l.s
    BY <2>1 DEF Leg
  <2> QED BY <2>2, <2>3
<1>4. \A x \in S : p \in DOMAIN R /\ R[p].s <= x /\ x \in Int
  <2> SUFFICES ASSUME NEW l \in L PROVE p \in DOMAIN R /\ R[p].s <= l.s /\ l.s \in Int
    OBVIOUS
  <2>1. l \in Open(m) /\ p = <<l.from, l.to>>
    OBVIOUS
  <2>2. l \in ToSet(links)
    BY <2>1 DEF Open
  <2> QED BY <1>2, <2>1, <2>2 DEF Rows, LinkRow
<1> HIDE DEF p, S, L
<1>5. CASE p \in DOMAIN R
  <2>1. \E x \in S : \A y \in S : x <= y
    BY <1>3, <1>4, <1>5
  <2>2. Min(S) \in S /\ \A y \in S : Min(S) <= y
    BY <2>1 DEF Min
  <2>3. Min(S) = R[p].s
    BY <1>3, <1>4, <1>5, <2>2
  <2> QED BY <1>1, <1>3, <1>5, <2>3 DEF p, R
<1>6. CASE p \notin DOMAIN R
  <2>1. S = {}
    BY <1>4, <1>6
  <2> QED BY <1>1, <1>6, <2>1 DEF p, R
<1> QED BY <1>5, <1>6

LastStep(m, way, acc, i) == acc + Fewest(m, way[i], way[i + 1])
\* The times along a way.
LastSum(m, way, base, seq) == FoldLeft(LAMBDA acc, i : LastStep(m, way, acc, i), base, seq)
LastInput(m, way, base, n, seq, D, T) ==
    /\ n \in Nat /\ DOMAIN seq = 1 .. n /\ base \in D /\ \A i \in 1 .. n : seq[i] \in T
    /\ \A d \in D, x \in T : LastStep(m, way, d, x) \in D
LastRun(m, way, base, n, seq, D, h) ==
    /\ h \in [0 .. n -> D] /\ h[0] = base
    /\ \A i \in 1 .. n : h[i] = LastStep(m, way, h[i - 1], seq[i])
    /\ h[n] = LastSum(m, way, base, seq)

LEMMA LastFold ==
    ASSUME NEW m, NEW way, NEW base, NEW n, NEW seq, NEW D, NEW T, LastInput(m, way, base, n, seq, D, T)
    PROVE  \E h : LastRun(m, way, base, n, seq, D, h)
<1> DEFINE F == [p \in D \X T |-> LastStep(m, way, p[1], p[2])]
           Eq(g) == g = [s \in SUBSET DOMAIN seq |->
                            IF s = {} THEN base ELSE LastStep(m, way, g[s \ {Max(s)}], seq[Max(s)])]
           iter == CHOOSE g : Eq(g)
           h == [i \in 0 .. n |-> iter[1 .. i]]
<1> USE DEF LastInput
<1>1. IsFiniteSet(DOMAIN seq) /\ DOMAIN seq \in SUBSET Int
  BY FirstOnes
<1>2. \A d \in D, x \in T : F[<<d, x>>] = LastStep(m, way, d, x) /\ F[<<d, x>>] \in D
  OBVIOUS
<1>3. \E g : Eq(g)
  <2> HIDE DEF F
  <2>1. PICK g : FoldEq(g, F, base, seq)
    BY <1>1, FoldExists
  <2>2. \A s \in SUBSET DOMAIN seq : g[s] \in D
    BY <1>1, <1>2, <2>1, FoldTyped
  <2>3. \A s \in SUBSET DOMAIN seq : s # {} => Max(s) \in s /\ s \ {Max(s)} \in SUBSET DOMAIN seq
    BY <1>1, FS_Subset, MaxIs
  <2>4. ASSUME NEW s \in SUBSET DOMAIN seq
        PROVE  (IF s = {} THEN base ELSE F[<<g[s \ {Max(s)}], seq[Max(s)]>>])
               = (IF s = {} THEN base ELSE LastStep(m, way, g[s \ {Max(s)}], seq[Max(s)]))
    <3>1. CASE s # {}
      <4>1. g[s \ {Max(s)}] \in D /\ seq[Max(s)] \in T
        BY <2>2, <2>3, <3>1
      <4> QED BY <1>2, <3>1, <4>1
    <3> QED BY <3>1
  <2>5. g = [s \in SUBSET DOMAIN seq |-> IF s = {} THEN base ELSE F[<<g[s \ {Max(s)}], seq[Max(s)]>>]]
    BY <2>1 DEF FoldEq
  <2> QED BY <2>4, <2>5, Zenon
<1>4. Eq(iter)
  BY <1>3, Zenon
<1>5. iter[DOMAIN seq] = LastSum(m, way, base, seq)
  BY Zenon DEF FoldLeft, MapThenFoldSet, LastSum, LastStep
<1> HIDE DEF iter, F
<1>6. h[0] = base /\ \A i \in 1 .. n : h[i] = LastStep(m, way, h[i - 1], seq[i])
  <2>1. h[0] = base
    BY <1>4, FirstOnes
  <2>2. ASSUME NEW i \in 1 .. n PROVE h[i] = LastStep(m, way, h[i - 1], seq[i])
    <3>1. /\ Max(1 .. i) = i /\ 1 .. i \in SUBSET DOMAIN seq /\ 1 .. i # {} /\ (1 .. i) \ {i} = 1 .. i - 1
          /\ i \in 0 .. n /\ i - 1 \in 0 .. n
      BY FirstOnes
    <3>2. iter[1 .. i] = LastStep(m, way, iter[1 .. i - 1], seq[i])
      BY <1>4, <3>1
    <3>3. h[i] = iter[1 .. i] /\ h[i - 1] = iter[1 .. i - 1]
      BY <3>1
    <3> QED BY <3>2, <3>3
  <2> QED BY <2>1, <2>2
<1>7. h[n] = iter[DOMAIN seq]
  OBVIOUS
<1> DEFINE Good == {i \in 0 .. n : h[i] \in D}
<1>8. \A i \in 0 .. n : i \in Good
  <2>1. 0 \in Good
    BY <1>6
  <2>2. ASSUME NEW i \in 0 .. n - 1, i \in Good PROVE i + 1 \in Good
    <3>1. i + 1 \in 1 .. n /\ (i + 1) - 1 = i /\ i + 1 \in 0 .. n
      OBVIOUS
    <3>2. h[i + 1] = LastStep(m, way, h[i], seq[i + 1]) /\ seq[i + 1] \in T /\ h[i] \in D
      BY <1>6, <2>2, <3>1
    <3> QED BY <3>1, <3>2
  <2> HIDE DEF Good
  <2> QED BY <2>1, <2>2, UpTo
<1>9. h \in [0 .. n -> D]
  BY <1>8
<1> HIDE DEF h
<1>10. LastRun(m, way, base, n, seq, D, h)
  BY <1>5, <1>6, <1>7, <1>9 DEF LastRun
<1> QED BY <1>10

\* What the links of a way take is what their network says.
LEMMA LastsIs ==
    ASSUME Rows(links), TablesOk(direct), Rowed(links, Len(links), direct), NEW m,
           NEW way, Simple(Merged(m), way)
    PROVE  Lasting(Merged(m), way, Lasts(m, way))
<1> DEFINE graph == Merged(m)
           n == Len(way) - 1
           seq == [i \in 1 .. n |-> i]
           T == 1 .. n
           D == Int
<1>1. TableOk(graph)
  BY MergedOk
<1>2. n \in Nat
  BY DEF Simple
<1>3. \A i \in 1 .. n : Fewest(m, way[i], way[i + 1]) = graph[<<way[i], way[i + 1]>>].s
  <2> SUFFICES ASSUME NEW i \in 1 .. n PROVE Fewest(m, way[i], way[i + 1]) = graph[<<way[i], way[i + 1]>>].s
    OBVIOUS
  <2>1. <<way[i], way[i + 1]>> \in DOMAIN graph
    BY DEF Simple
  <2> HIDE DEF n
  <2> QED BY <2>1, FewestIs
<1>4. \A i \in 1 .. n : graph[<<way[i], way[i + 1]>>].s \in Int
  <2> SUFFICES ASSUME NEW i \in 1 .. n PROVE graph[<<way[i], way[i + 1]>>].s \in Int
    OBVIOUS
  <2> DEFINE p == <<way[i], way[i + 1]>>
  <2>1. p \in DOMAIN graph
    BY DEF Simple
  <2> HIDE DEF p, graph
  <2>2. graph[p] \in Times
    BY <1>1, <2>1 DEF TableOk
  <2>3. graph[p].s \in Int
    BY <2>2 DEF Times
  <2> QED BY <2>3 DEF p
<1>5. Lasts(m, way) = LastSum(m, way, 0, seq)
  BY Zenon DEF Lasts, LastSum, LastStep
<1>6. DOMAIN seq = 1 .. n /\ (\A i \in 1 .. n : seq[i] \in T /\ seq[i] = i) /\ n = Len(way) - 1
  OBVIOUS
<1> HIDE DEF graph, n, seq
<1>7. \A d \in D, x \in T : LastStep(m, way, d, x) \in D /\ LastStep(m, way, d, x) = d + graph[<<way[x], way[x + 1]>>].s
  BY <1>3, <1>4 DEF LastStep
<1>8. LastInput(m, way, 0, n, seq, D, T)
  <2>0. 0 \in D
    OBVIOUS
  <2>1. ASSUME NEW d \in D, NEW x \in T PROVE LastStep(m, way, d, x) \in D
    <3>1. LastStep(m, way, d, x) = d + graph[<<way[x], way[x + 1]>>].s /\ graph[<<way[x], way[x + 1]>>].s \in Int
      BY <1>4, <1>7
    <3>2. d \in Int
      OBVIOUS
    <3> QED BY <3>1, <3>2
  <2>2. \A i \in 1 .. n : seq[i] \in T
    BY <1>6
  <2> HIDE DEF D, T
  <2> QED BY <1>2, <1>6, <2>0, <2>1, <2>2 DEF LastInput
<1>9. PICK h : LastRun(m, way, 0, n, seq, D, h)
  BY <1>8, LastFold
<1>10. h \in [0 .. n -> Int] /\ h[0] = 0 /\ h[n] = Lasts(m, way)
  BY <1>5, <1>9 DEF LastRun
<1>11. \A i \in 1 .. n : h[i] = h[i - 1] + graph[<<way[i], way[i + 1]>>].s
  <2> SUFFICES ASSUME NEW i \in 1 .. n PROVE h[i] = h[i - 1] + graph[<<way[i], way[i + 1]>>].s
    OBVIOUS
  <2>1. h[i - 1] \in D /\ i \in T /\ seq[i] = i
    BY <1>2, <1>6, <1>10
  <2>2. h[i] = LastStep(m, way, h[i - 1], i)
    BY <1>9, <2>1 DEF LastRun
  <2> QED BY <1>7, <2>1, <2>2
<1>12. Timed(graph, way, h)
  BY <1>6, <1>10, <1>11 DEF Timed
<1>13. Lasting(graph, way, Lasts(m, way))
  BY <1>6, <1>10, <1>12 DEF Lasting
<1> QED BY <1>13 DEF graph

\* A way takes one time.
LEMMA LastsOnce ==
    ASSUME NEW graph, TableOk(graph), NEW way, Simple(graph, way), NEW s, NEW t, Lasting(graph, way, s), Lasting(graph, way, t)
    PROVE  s = t /\ s \in Int
<1>1. PICK h : Timed(graph, way, h) /\ h[Len(way) - 1] = s
  BY DEF Lasting
<1>2. PICK g : Timed(graph, way, g) /\ g[Len(way) - 1] = t
  BY DEF Lasting
<1> DEFINE n == Len(way) - 1
           Good == {i \in 0 .. n : h[i] = g[i]}
<1>3. n \in Nat
  BY DEF Simple
<1>4. 0 \in Good
  BY <1>1, <1>2, <1>3 DEF Timed
<1>5. ASSUME NEW i \in 0 .. n - 1, i \in Good PROVE i + 1 \in Good
  <2>1. i + 1 \in 1 .. n /\ (i + 1) - 1 = i /\ i + 1 \in 0 .. n
    BY <1>3
  <2>2. /\ h[i + 1] = h[i] + graph[<<way[i + 1], way[(i + 1) + 1]>>].s
        /\ g[i + 1] = g[i] + graph[<<way[i + 1], way[(i + 1) + 1]>>].s
    BY <1>1, <1>2, <2>1 DEF Timed
  <2> QED BY <1>5, <2>1, <2>2
<1> HIDE DEF Good, n
<1>6. \A i \in 0 .. n : i \in Good
  BY <1>3, <1>4, <1>5, UpTo
<1>7. n \in Good /\ n \in 0 .. n
  BY <1>3, <1>6
<1>8. h[n] \in Int
  BY <1>1, <1>7 DEF Timed, n
<1> QED BY <1>1, <1>2, <1>7, <1>8 DEF Good, n

TraceStep(f, acc, i) == acc \o (IF acc = <<>> THEN f[i] ELSE Tail(f[i]))
Tracing(f, base, seq) == FoldLeft(LAMBDA acc, i : TraceStep(f, acc, i), base, seq)

\* The polylines of a way joined are those of its links, end to end.
LEMMA TracingIs ==
    ASSUME NEW table, NEW way, NEW n \in Nat, NEW f, DOMAIN f = 1 .. n,
           \A i \in 1 .. n : f[i] = table[<<way[i], way[i + 1]>>].line
    PROVE  Tracing(f, <<>>, [i \in 1 .. n |-> i]) = Lined(table, way, <<>>, [i \in 1 .. n |-> i])
<1> DEFINE seq == [i \in 1 .. n |-> i]
           A(g) == g = [s \in SUBSET DOMAIN seq |->
                           IF s = {} THEN <<>> ELSE TraceStep(f, g[s \ {Max(s)}], seq[Max(s)])]
           B(g) == g = [s \in SUBSET DOMAIN seq |->
                           IF s = {} THEN <<>> ELSE LineStep(table, way, g[s \ {Max(s)}], seq[Max(s)])]
<1>1. Tracing(f, <<>>, seq) = (CHOOSE g : A(g))[DOMAIN seq]
  BY Zenon DEF FoldLeft, MapThenFoldSet, Tracing, TraceStep
<1>2. Lined(table, way, <<>>, seq) = (CHOOSE g : B(g))[DOMAIN seq]
  BY Zenon DEF FoldLeft, MapThenFoldSet, Lined, LineStep
<1>3. \A acc : \A i \in 1 .. n : TraceStep(f, acc, i) = LineStep(table, way, acc, i)
  BY DEF TraceStep, LineStep
<1>4. DOMAIN seq = 1 .. n /\ \A i \in 1 .. n : seq[i] = i
  OBVIOUS
<1> HIDE DEF seq
<1>5. \A s \in SUBSET DOMAIN seq : s # {} => Max(s) \in 1 .. n /\ seq[Max(s)] \in 1 .. n
  <2> SUFFICES ASSUME NEW s \in SUBSET (1 .. n), s # {} PROVE Max(s) \in 1 .. n
    BY <1>4
  <2>1. IsFiniteSet(1 .. n) /\ 1 .. n \in SUBSET Int
    BY FirstOnes
  <2>2. IsFiniteSet(s) /\ s \in SUBSET Int
    BY <2>1, FS_Subset
  <2> QED BY <2>2, MaxIs
<1>6. ASSUME NEW g PROVE A(g) <=> B(g)
  <2>1. \A s \in SUBSET DOMAIN seq :
           (IF s = {} THEN <<>> ELSE TraceStep(f, g[s \ {Max(s)}], seq[Max(s)]))
           = (IF s = {} THEN <<>> ELSE LineStep(table, way, g[s \ {Max(s)}], seq[Max(s)]))
    BY <1>3, <1>5
  <2> QED BY <2>1, Zenon
<1> HIDE DEF A, B
<1>7. (CHOOSE g : A(g)) = (CHOOSE g : B(g))
  BY <1>6, Zenon
<1> QED BY <1>1, <1>2, <1>7 DEF seq

LEMMA LocationsFacts ==
    ASSUME Rows(links)
    PROVE  Locations \in SUBSET Int /\ IsFiniteSet(Locations) /\ Cardinality(Locations) \in Nat
<1> DEFINE n == Len(links)
           I == 1 .. n
           f == [i \in I |-> links[i].from]
           g == [i \in I |-> links[i].to]
           A == {f[i] : i \in I}
           B == {g[i] : i \in I}
<1>1. n \in Nat /\ ToSet(links) = {links[i] : i \in I} /\ \A l \in ToSet(links) : l.from \in Int /\ l.to \in Int
  BY DEF Rows, LinkRow, ToSet
<1>2. IsFiniteSet(I)
  BY <1>1, FirstOnes
<1>3. Locations \subseteq A \cup B
  <2> SUFFICES ASSUME NEW l \in ToSet(links) PROVE l.from \in A \cup B /\ l.to \in A \cup B
    BY DEF Locations
  <2>1. PICK i \in I : l = links[i]
    BY <1>1
  <2> QED BY <2>1
<1>4. IsFiniteSet(A) /\ IsFiniteSet(B)
  <2> HIDE DEF f, g, I
  <2> QED BY <1>2, ImageFinite
<1>5. Locations \in SUBSET Int
  BY <1>1 DEF Locations
<1> HIDE DEF A, B
<1>6. IsFiniteSet(A \cup B)
  BY <1>4, FS_Union
<1> QED BY <1>3, <1>5, <1>6, FS_Subset, FS_CardinalityType

\* The rows are all read.
Sorts == Rows(links) /\ TablesOk(direct) /\ Rowed(links, Len(links), direct)

LEMMA WaysAre ==
    ASSUME Sorts, NEW m
    PROVE  \A way : way \in Ways(m) <=> Simple(Merged(m), way)
<1> DEFINE graph == Merged(m)
           L == Locations
           N == Cardinality(L)
<1>1. L \in SUBSET Int /\ IsFiniteSet(L) /\ N \in Nat
  BY LocationsFacts DEF Sorts
<1>2. TableOk(graph)
  BY MergedOk DEF Sorts
<1>3. \A a, b : <<a, b>> \in DOMAIN graph <=> Fewest(m, a, b) # None
  <2> SUFFICES ASSUME NEW a, NEW b PROVE <<a, b>> \in DOMAIN graph <=> Fewest(m, a, b) # None
    OBVIOUS
  <2> DEFINE p == <<a, b>>
  <2>1. /\ p \in DOMAIN graph => Fewest(m, a, b) = graph[p].s
        /\ p \notin DOMAIN graph => Fewest(m, a, b) = None
    BY FewestIs DEF Sorts
  <2> HIDE DEF p, graph
  <2>2. p \in DOMAIN graph => graph[p].s \in Int
    BY <1>2 DEF TableOk, Times
  <2>3. None \notin Int
    BY NoneAssumption
  <2>4. p \in DOMAIN graph <=> Fewest(m, a, b) # None
    BY <2>1, <2>2, <2>3
  <2> QED BY <2>4 DEF p
<1>4. Ends(graph) \subseteq L
  <2> SUFFICES ASSUME NEW p \in DOMAIN graph PROVE p[1] \in L /\ p[2] \in L
    BY DEF Ends
  <2>1. PICK l \in Open(m) : p = <<l.from, l.to>>
    BY MergedIs DEF Sorts
  <2>2. p[1] = l.from /\ p[2] = l.to /\ l \in ToSet(links)
    BY <2>1 DEF Open
  <2> QED BY <2>2 DEF Locations
<1>5. \A way : way \in Ways(m) <=>
         /\ way \in UNION {[1 .. n -> L] : n \in 2 .. N}
         /\ \A i, j \in DOMAIN way : way[i] = way[j] => i = j
         /\ \A i \in 1 .. Len(way) - 1 : Fewest(m, way[i], way[i + 1]) # None
  BY DEF Ways
<1> HIDE DEF graph, L, N
<1>6. ASSUME NEW way, way \in Ways(m) PROVE Simple(graph, way)
  <2>1. PICK n \in 2 .. N : way \in [1 .. n -> L]
    BY <1>5, <1>6
  <2>2. way \in Seq(Int) /\ Len(way) >= 2
    <3>1. n \in Nat /\ n >= 2
      BY <1>1
    <3>2. way = [i \in 1 .. n |-> way[i]] /\ \A i \in 1 .. n : way[i] \in Int
      BY <1>1, <2>1
    <3> QED BY <3>1, <3>2
  <2> QED BY <1>3, <1>5, <1>6, <2>2 DEF Simple
<1>7. ASSUME NEW way, Simple(graph, way) PROVE way \in Ways(m)
  <2> DEFINE n == Len(way)
  <2>1. n \in Nat /\ n >= 2 /\ DOMAIN way = 1 .. n /\ way \in Seq(Int)
    BY <1>7 DEF Simple
  <2>2. \A i \in 1 .. n : way[i] \in L
    BY <1>4, <1>7, BeginsAtEnd
  <2> HIDE DEF n
  <2>3. way \in [1 .. n -> L]
    BY <2>1, <2>2
  <2>4. n <= N
    <3> SUFFICES ASSUME n > N PROVE FALSE
      BY <1>1, <2>1
    <3>1. IsFiniteSet(1 .. n) /\ Cardinality(1 .. n) = n
      BY <2>1, FS_Interval
    <3>2. Cardinality(1 .. n) > Cardinality(L)
      BY <3>1 DEF N
    <3>3. PICK i \in 1 .. n, j \in 1 .. n : i # j /\ way[i] = way[j]
      BY <1>1, <2>3, <3>1, <3>2, FS_PigeonHole
    <3> QED BY <1>7, <2>1, <3>3 DEF Simple
  <2>5. way \in UNION {[1 .. k -> L] : k \in 2 .. N}
    BY <1>1, <2>1, <2>3, <2>4
  <2>6. \A i \in 1 .. Len(way) - 1 : Fewest(m, way[i], way[i + 1]) # None
    BY <1>3, <1>7 DEF Simple
  <2> QED BY <1>5, <1>7, <2>5, <2>6 DEF Simple
<1> QED BY <1>6, <1>7 DEF graph

\* A joined polyline is drawn along fastest links.
LEMMA JoinedTraces ==
    ASSUME Sorts, NEW m, NEW way, Simple(Merged(m), way), Joined(Merged(m), way) # <<>>
    PROVE  Traces(m, way, Joined(Merged(m), way))
<1> DEFINE graph == Merged(m)
           n == Len(way) - 1
           ln(i) == graph[<<way[i], way[i + 1]>>].line
           f == [i \in 1 .. n |-> ln(i)]
           seq == [i \in 1 .. n |-> i]
           J == IF \E i \in 1 .. n : ln(i) = <<>> THEN <<>> ELSE Lined(graph, way, <<>>, seq)
<1>1. Joined(graph, way) = J
  BY Zenon DEF Joined, Lined, LineStep
<1>2. n \in Nat
  BY DEF Simple
<1>3. (\A i \in 1 .. n : ln(i) # <<>>) /\ Joined(graph, way) = Lined(graph, way, <<>>, seq)
  BY <1>1
<1>4. ASSUME NEW i \in 1 .. n
      PROVE  \E l \in Open(m) : /\ l.from = way[i] /\ l.to = way[i + 1] /\ l.s = Fewest(m, way[i], way[i + 1])
                                /\ Polyline(l) = ln(i)
  <2> DEFINE p == <<way[i], way[i + 1]>>
  <2>1. p \in DOMAIN graph
    BY DEF Simple
  <2>2. Fewest(m, way[i], way[i + 1]) = graph[p].s
    <3> HIDE DEF n
    <3> QED BY <2>1, FewestIs DEF Sorts
  <2>3. PICK l \in Open(m) : p = <<l.from, l.to>> /\ graph[p] = Leg(l)
    <3> HIDE DEF p
    <3> QED BY <2>1, MergedIs DEF Sorts
  <2>4. l.from = way[i] /\ l.to = way[i + 1] /\ graph[p].s = l.s /\ graph[p].line = Polyline(l)
    BY <2>3 DEF Leg
  <2> HIDE DEF graph
  <2> QED BY <2>2, <2>4
<1>5. DOMAIN f = 1 .. n /\ (\A i \in 1 .. n : f[i] = ln(i)) /\ f = [i \in 1 .. n |-> f[i]]
  OBVIOUS
<1>50. [i \in DOMAIN f |-> i] = seq
  OBVIOUS
<1>51. \A i \in 1 .. n : f[i] = graph[<<way[i], way[i + 1]>>].line
  OBVIOUS
<1> HIDE DEF graph, f, ln, J
<1>6. Lined(graph, way, <<>>, seq) = Tracing(f, <<>>, seq)
  <2> HIDE DEF n
  <2> QED BY <1>2, <1>5, <1>51, TracingIs
<1> HIDE DEF seq
<1>7. f \in Lines(m, way)
  <2>1. \A i \in 1 .. n : f[i] \in {Polyline(l) : l \in Open(m)}
    BY <1>4, <1>5
  <2>2. f \in [1 .. n -> {Polyline(l) : l \in Open(m)}]
    BY <1>5, <2>1
  <2>3. \A i \in DOMAIN f : \E l \in Open(m) :
            l.from = way[i] /\ l.to = way[i + 1] /\ l.s = Fewest(m, way[i], way[i + 1]) /\ Polyline(l) = f[i]
    BY <1>4, <1>5
  <2> QED BY <2>2, <2>3 DEF Lines
<1>8. Tracing(f, <<>>, [i \in DOMAIN f |-> i])
      = FoldLeft(LAMBDA acc, i : acc \o (IF acc = <<>> THEN f[i] ELSE Tail(f[i])), <<>>, [i \in DOMAIN f |-> i])
  BY Zenon DEF Tracing, TraceStep
<1>9. \A i \in DOMAIN f : f[i] # <<>>
  BY <1>3, <1>5
<1>10. Joined(graph, way) = Tracing(f, <<>>, [i \in DOMAIN f |-> i])
  BY <1>3, <1>50, <1>6
<1>11. Joined(graph, way)
       = FoldLeft(LAMBDA acc, i : acc \o (IF acc = <<>> THEN f[i] ELSE Tail(f[i])), <<>>, [i \in DOMAIN f |-> i])
  BY <1>8, <1>10, Zenon
<1>12. Traces(m, way, Joined(graph, way))
  BY <1>7, <1>9, <1>11, Zenon DEF Traces
<1> QED BY <1>12 DEF graph

\* What NetworkExact says of the network of mode m.
ExactFor(m) ==
    LET ways == Ways(m)
    IN /\ DOMAIN nets[m] = {<<w[1], Last(w)>> : w \in ways}
       /\ \A p \in DOMAIN nets[m] :
             LET mine == {w \in ways : w[1] = p[1] /\ Last(w) = p[2]}
             IN /\ nets[m][p].s = Min({Lasts(m, w) : w \in mine})
                /\ nets[m][p].line # <<>> =>
                      \E w \in mine : Lasts(m, w) = nets[m][p].s /\ Traces(m, w, nets[m][p].line)

\* A table that fits its graph is exact: its times and polylines are those of the ways.
LEMMA FitsExact ==
    ASSUME Sorts, NEW m, TableOk(nets[m]), Fits(Merged(m), nets[m], Ends(Merged(m)))
    PROVE  ExactFor(m)
<1> DEFINE graph == Merged(m)
           T == nets[m]
           ways == Ways(m)
<1>1. \A w : w \in ways <=> Simple(graph, w)
  BY WaysAre
<1>2. TableOk(graph)
  BY MergedOk DEF Sorts
<1>3. ASSUME NEW w, Simple(graph, w)
      PROVE  /\ Lasting(graph, w, Lasts(m, w)) /\ Lasts(m, w) \in Int
             /\ <<w[1], Last(w)>> \in DOMAIN T /\ T[<<w[1], Last(w)>>].s <= Lasts(m, w)
  <2>1. Lasting(graph, w, Lasts(m, w))
    BY <1>3, LastsIs DEF Sorts
  <2>2. w[1] \in Ends(graph)
    <3>1. 1 \in 1 .. Len(w)
      BY <1>3 DEF Simple
    <3> HIDE DEF graph
    <3> QED BY <1>3, <3>1, BeginsAtEnd
  <2> HIDE DEF T
  <2>3. Fits(graph, T, Ends(graph))
    BY DEF T
  <2> HIDE DEF graph
  <2>4. <<w[1], Last(w)>> \in DOMAIN T /\ T[<<w[1], Last(w)>>].s <= Lasts(m, w)
    BY <1>3, <2>1, <2>2, <2>3 DEF Fits
  <2>5. Lasts(m, w) \in Int
    BY <1>2, <1>3, <2>1, LastsOnce
  <2> QED BY <2>1, <2>4, <2>5
<1>4. ASSUME NEW p \in DOMAIN T
      PROVE  \E w : BestWay(graph, T, p, w) /\ Lasts(m, w) = T[p].s /\ p[1] = w[1] /\ p[2] = Last(w)
  <2>1. PICK w : BestWay(graph, T, p, w)
    BY DEF Fits
  <2> HIDE DEF graph, T
  <2>2. Simple(graph, w) /\ p = <<w[1], Last(w)>> /\ Lasting(graph, w, T[p].s)
    BY <2>1 DEF BestWay
  <2>3. Lasts(m, w) = T[p].s
    BY <1>2, <1>3, <2>2, LastsOnce
  <2>4. p[1] = w[1] /\ p[2] = Last(w)
    BY <2>2
  <2> QED BY <2>1, <2>3, <2>4
<1>5. ASSUME NEW w, Simple(graph, w), Joined(graph, w) # <<>> PROVE Traces(m, w, Joined(graph, w))
  BY <1>5, JoinedTraces
<1> HIDE DEF graph, T
<1>6. DOMAIN T = {<<w[1], Last(w)>> : w \in ways}
  <2>1. \A p \in DOMAIN T : \E w \in ways : p = <<w[1], Last(w)>>
    BY <1>1, <1>4 DEF BestWay
  <2>2. \A w \in ways : <<w[1], Last(w)>> \in DOMAIN T
    BY <1>1, <1>3
  <2> HIDE DEF ways
  <2> QED BY <2>1, <2>2
<1>7. ASSUME NEW p \in DOMAIN T, NEW mine, mine = {w \in ways : w[1] = p[1] /\ Last(w) = p[2]}
      PROVE  /\ T[p].s = Min({Lasts(m, w) : w \in mine})
             /\ T[p].line # <<>> => \E w \in mine : Lasts(m, w) = T[p].s /\ Traces(m, w, T[p].line)
  <2>1. PICK w : BestWay(graph, T, p, w) /\ Lasts(m, w) = T[p].s /\ p[1] = w[1] /\ p[2] = Last(w)
    BY <1>4
  <2>2. w \in mine
    BY <1>1, <1>7, <2>1 DEF BestWay
  <2>3. p = <<w[1], Last(w)>>
    BY <2>1 DEF BestWay
  <2>4. ASSUME NEW v \in mine PROVE T[p].s <= Lasts(m, v) /\ Lasts(m, v) \in Int
    <3>1. Simple(graph, v) /\ v[1] = p[1] /\ Last(v) = p[2]
      BY <1>1, <1>7
    <3>2. <<v[1], Last(v)>> = p
      BY <2>1, <2>3, <3>1
    <3> QED BY <1>3, <3>1, <3>2
  <2> DEFINE S == {Lasts(m, v) : v \in mine}
  <2>5. T[p].s \in S /\ \A x \in S : T[p].s <= x /\ x \in Int
    BY <2>1, <2>2, <2>4
  <2> HIDE DEF S
  <2>6. Min(S) \in S /\ \A x \in S : Min(S) <= x
    BY <2>5 DEF Min
  <2>7. T[p].s = Min(S)
    BY <2>5, <2>6
  <2>8. T[p].line # <<>> => Traces(m, w, T[p].line)
    BY <1>5, <2>1 DEF BestWay
  <2> QED BY <2>1, <2>2, <2>7, <2>8 DEF S
<1> HIDE DEF ways
<1>8. \A p \in DOMAIN T :
             LET mine == {w \in ways : w[1] = p[1] /\ Last(w) = p[2]}
             IN /\ T[p].s = Min({Lasts(m, w) : w \in mine})
                /\ T[p].line # <<>> =>
                      \E w \in mine : Lasts(m, w) = T[p].s /\ Traces(m, w, T[p].line)
  BY <1>7
<1> QED BY <1>6, <1>8, Zenon DEF ExactFor, ways, T

\* acc is the fastest of the tables of M.
Overall(tables, acc, M) ==
    /\ \A p \in DOMAIN acc : \E m \in M : p \in DOMAIN tables[m] /\ acc[p] = tables[m][p]
    /\ \A m \in M : \A p \in DOMAIN tables[m] : p \in DOMAIN acc /\ acc[p].s <= tables[m][p].s

LEMMA FastestOverall ==
    ASSUME NEW tables, NEW acc, NEW M, Overall(tables, acc, M), NEW x, TableOk(acc), TableOk(tables[x]),
           \A m \in M : TableOk(tables[m])
    PROVE  Overall(tables, Fastest(acc, tables[x]), M \cup {x})
<1> DEFINE T == tables[x]
           R == Fastest(acc, T)
<1>1. R = [p \in DOMAIN acc \cup DOMAIN T |-> IF p \in DOMAIN T /\ Faster(acc, p, T[p].s) THEN T[p] ELSE acc[p]]
  BY DEF Fastest
<1> HIDE DEF R
<1>2. DOMAIN R = DOMAIN acc \cup DOMAIN T
  BY <1>1
<1>3. (\A p \in DOMAIN acc : acc[p].s \in Int) /\ \A p \in DOMAIN T : T[p].s \in Int
  BY DEF TableOk, Times
<1>4. \A p \in DOMAIN R : (p \in DOMAIN acc /\ R[p] = acc[p]) \/ (p \in DOMAIN T /\ R[p] = T[p])
  BY <1>1, <1>2 DEF Faster
<1>5. \A p \in DOMAIN acc : p \in DOMAIN R /\ R[p].s <= acc[p].s /\ R[p].s \in Int
  <2> HIDE DEF T
  <2> QED BY <1>1, <1>2, <1>3 DEF Faster
<1>6. \A p \in DOMAIN T : p \in DOMAIN R /\ R[p].s <= T[p].s
  <2> HIDE DEF T
  <2> QED BY <1>1, <1>2, <1>3 DEF Faster
<1>7. ASSUME NEW p \in DOMAIN R PROVE \E m \in M \cup {x} : p \in DOMAIN tables[m] /\ R[p] = tables[m][p]
  <2>1. CASE p \in DOMAIN acc /\ R[p] = acc[p]
    BY <2>1 DEF Overall
  <2>2. CASE p \in DOMAIN T /\ R[p] = T[p]
    BY <2>2
  <2> QED BY <1>4, <2>1, <2>2
<1>8. ASSUME NEW m \in M, NEW p \in DOMAIN tables[m]
      PROVE  p \in DOMAIN R /\ R[p].s <= tables[m][p].s
  <2>1. p \in DOMAIN acc /\ acc[p].s <= tables[m][p].s
    BY DEF Overall
  <2>2. R[p].s <= acc[p].s /\ R[p].s \in Int /\ p \in DOMAIN R /\ acc[p].s \in Int
    BY <1>3, <1>5, <2>1
  <2>3. tables[m][p].s \in Int
    <3>1. TableOk(tables[m])
      OBVIOUS
    <3> QED BY <3>1 DEF TableOk, Times
  <2> QED BY <2>1, <2>2, <2>3
<1> QED BY <1>6, <1>7, <1>8 DEF Overall, R

LEMMA OverlaidOverall ==
    ASSUME NEW tables, NEW M, \A m \in M : TableOk(tables[m]), NEW order \in Seq(M)
    PROVE  Overall(tables, Overlaid(tables, NoTable, order), ToSet(order))
<1> DEFINE D == {T \in UNION {[S -> Times] : S \in SUBSET (Int \X Int)} : TableOk(T)}
           n == Len(order)
<1>1. \A T : TableOk(T) => T \in D
  <2> SUFFICES ASSUME NEW T, TableOk(T) PROVE T \in UNION {[S -> Times] : S \in SUBSET (Int \X Int)}
    OBVIOUS
  <2>1. T \in [DOMAIN T -> Times] /\ DOMAIN T \in SUBSET (Int \X Int)
    BY DEF TableOk
  <2> QED BY <2>1
<1>2. NoTable \in D /\ \A T \in D : TableOk(T)
  BY <1>1, NoTableOk
<1>3. \A T \in D, m \in M : FastStep(tables, T, m) \in D
  <2> SUFFICES ASSUME NEW T \in D, NEW m \in M PROVE FastStep(tables, T, m) \in D
    OBVIOUS
  <2>1. TableOk(Fastest(T, tables[m]))
    BY FastestOk
  <2> HIDE DEF D
  <2> QED BY <1>1, <2>1 DEF FastStep
<1>4. n \in Nat /\ DOMAIN order = 1 .. n /\ \A i \in 1 .. n : order[i] \in M
  OBVIOUS
<1> HIDE DEF D, n
<1>5. FastInput(tables, NoTable, n, order, D, M)
  BY <1>2, <1>3, <1>4 DEF FastInput
<1>6. PICK h : FastRun(tables, NoTable, n, order, D, h)
  BY <1>5, FastFold
<1> DEFINE Some(i) == {order[j] : j \in 1 .. i}
           Good == {i \in 0 .. n : Overall(tables, h[i], Some(i))}
<1>7. 0 \in Good
  <2>1. Some(0) = {} /\ h[0] = NoTable /\ 0 \in 0 .. n
    BY <1>4, <1>6 DEF FastRun
  <2>2. Overall(tables, NoTable, {})
    BY DEF Overall, NoTable
  <2> QED BY <2>1, <2>2
<1>8. ASSUME NEW i \in 0 .. n - 1, i \in Good PROVE i + 1 \in Good
  <2> DEFINE m == order[i + 1]
  <2>1. i \in 0 .. n /\ i + 1 \in 1 .. n /\ (i + 1) - 1 = i /\ i + 1 \in 0 .. n
    BY <1>4
  <2>2. m \in M /\ TableOk(tables[m])
    BY <1>4, <2>1
  <2>3. h[i + 1] = Fastest(h[i], tables[m])
    BY <1>6, <2>1 DEF FastRun, FastStep
  <2>4. TableOk(h[i])
    BY <1>2, <1>6, <2>1 DEF FastRun
  <2>5. Some(i + 1) = Some(i) \cup {m}
    <3>1. 1 .. i + 1 = (1 .. i) \cup {i + 1}
      BY <2>1
    <3> QED BY <3>1
  <2>6. \A q \in Some(i) : TableOk(tables[q])
    BY <1>4, <2>1
  <2>7. Overall(tables, h[i], Some(i))
    BY <1>8
  <2> HIDE DEF Some, m
  <2>8. Overall(tables, Fastest(h[i], tables[m]), Some(i) \cup {m})
    BY <2>2, <2>4, <2>6, <2>7, FastestOverall
  <2> QED BY <2>1, <2>3, <2>5, <2>8
<1> HIDE DEF Good
<1>9. n \in Good
  <2>1. \A i \in 0 .. n : i \in Good
    BY <1>4, <1>7, <1>8, UpTo
  <2> QED BY <1>4, <2>1
<1>10. Some(n) = ToSet(order)
  BY <1>4 DEF ToSet
<1> HIDE DEF Some
<1>11. h[n] = Overlaid(tables, NoTable, order)
  BY <1>6 DEF FastRun
<1> QED BY <1>9, <1>10, <1>11 DEF Good

-----------------------------------------------------------------------------
(* The network as it is built *)

\* What holds from the first row on: the tables of the rows read, the networks that
\* are finished, the part of the one being composed, and the aggregate.
TravelInv ==
    /\ NetInv /\ Rowed(links, row, direct)
    /\ row # Len(links) => todo = None /\ DOMAIN nets = {}
    /\ DOMAIN nets \subseteq ToSet(Modes(links))
    /\ \A m \in DOMAIN nets : Cardinality(Ends(Merged(m))) <= MaxCompose =>
                                 Fits(Merged(m), nets[m], Ends(Merged(m)))
    /\ sources # None => sources \subseteq Ends(Graph) /\ Fits(Graph, composed, Ends(Graph) \ sources)
    /\ aggregate # None => Overall(nets, aggregate, DOMAIN nets)

LEMMA MergedSame ==
    ASSUME direct' = direct
    PROVE  \A m : Merged(m)' = Merged(m)
BY DEF Merged, Table

LEMMA TravelInit ==
    ASSUME NetworkInit, Rows(links)
    PROVE  TravelInv
<1>1. NetInv
  BY NetInvInit
<1>2. row = 0 /\ direct = NoTable /\ nets = NoTable /\ todo = None /\ sources = None /\ aggregate = None
  BY DEF NetworkInit
<1>3. DOMAIN nets = {} /\ DOMAIN direct = {}
  BY <1>2 DEF NoTable
<1>4. Rowed(links, row, direct)
  BY <1>2 DEF Rowed, TableFor, NoTable
<1> QED BY <1>1, <1>2, <1>3, <1>4 DEF TravelInv

LEMMA TravelRead ==
    ASSUME TravelInv, ReadLink
    PROVE  TravelInv'
<1>1. NetInv'
  BY NetInvStep DEF TravelInv, NetworkStep
<1>2. row < Len(links) /\ row \in Nat /\ Rows(links) /\ TablesOk(direct) /\ todo = None /\ DOMAIN nets = {}
      /\ Rowed(links, row, direct)
  BY DEF TravelInv, NetInv, ReadLink, Rows
<1>3. sources = None /\ aggregate = None
  <2>1. None # <<>>
    BY NoneAssumption
  <2> QED BY <1>2, <2>1 DEF TravelInv, NetInv
<1>4. UNCHANGED <<links, todo, work, nets, aggregate>> /\ row' = row + 1
  BY DEF ReadLink
<1>5. direct' = IF links[row + 1].s > 0 /\ Faster(TableFor(direct, links[row + 1].mode), <<links[row + 1].from, links[row + 1].to>>, links[row + 1].s)
               THEN Put(direct, links[row + 1].mode,
                        Put(TableFor(direct, links[row + 1].mode), <<links[row + 1].from, links[row + 1].to>>, Leg(links[row + 1])))
               ELSE direct
  BY DEF ReadLink, Table, TableFor
<1>6. Rowed(links, row + 1, direct')
  <2> DEFINE c == direct'
  <2>1. c = IF links[row + 1].s > 0 /\ Faster(TableFor(direct, links[row + 1].mode), <<links[row + 1].from, links[row + 1].to>>, links[row + 1].s)
               THEN Put(direct, links[row + 1].mode,
                        Put(TableFor(direct, links[row + 1].mode), <<links[row + 1].from, links[row + 1].to>>, Leg(links[row + 1])))
               ELSE direct
    BY <1>5
  <2> HIDE DEF c
  <2>2. Rowed(links, row + 1, c)
    BY <1>2, <2>1, RowedStep
  <2> QED BY <2>2 DEF c
<1>7. links' = links /\ todo' = todo /\ nets' = nets /\ sources' = sources /\ aggregate' = aggregate
  BY <1>4 DEF work
<1>8. Rowed(links, row, direct)'
  BY <1>4, <1>6, <1>7
<1> QED BY <1>1, <1>2, <1>3, <1>7, <1>8 DEF TravelInv

LEMMA TravelRows ==
    ASSUME TravelInv, EndRows
    PROVE  TravelInv'
<1>1. NetInv'
  BY NetInvStep DEF TravelInv, NetworkStep
<1>2. UNCHANGED <<links, row, direct, sources, composed, nets, aggregate>> /\ row = Len(links) /\ todo = None
  BY DEF EndRows, work
<1>3. sources = None /\ aggregate = None /\ Rowed(links, row, direct)
  BY <1>2, NoneAssumption DEF TravelInv, NetInv
<1>4. Rowed(links, row, direct)' /\ Modes(links)' = Modes(links) /\ DOMAIN nets' = DOMAIN nets
  BY <1>2, <1>3
<1>5. \A m : Merged(m)' = Merged(m)
  BY <1>2, MergedSame
<1>6. \A m \in DOMAIN nets' : Cardinality(Ends(Merged(m)')) <= MaxCompose =>
                                 Fits(Merged(m)', nets'[m], Ends(Merged(m)'))
  BY <1>2, <1>5 DEF TravelInv
<1>7. DOMAIN nets' \subseteq ToSet(Modes(links)') /\ row' = Len(links') /\ sources' = None /\ aggregate' = None
  BY <1>2, <1>3, <1>4 DEF TravelInv
<1> QED BY <1>1, <1>4, <1>6, <1>7 DEF TravelInv

LEMMA TravelFinished ==
    ASSUME TravelInv, NetInv', Composing, NEW T, Finished(T), sources' = None,
           UNCHANGED <<links, row, direct, aggregate>>,
           Cardinality(Ends(Graph)) <= MaxCompose => Fits(Graph, T, Ends(Graph))
    PROVE  TravelInv'
<1> DEFINE h == Head(todo)
<1>1. nets' = Put(nets, h, T) /\ todo' = Tail(todo) /\ Graph = Merged(h)
  BY DEF Finished, Graph
<1>2. todo \in Seq(ToSet(Modes(links))) /\ todo # <<>> /\ row = Len(links) /\ Rowed(links, row, direct)
  BY DEF TravelInv, NetInv, Composing
<1>3. h \in ToSet(Modes(links)) /\ todo' \in Seq(ToSet(Modes(links)))
  BY <1>1, <1>2
<1> HIDE DEF h
<1>4. Changed(nets', nets, h, T)
  BY <1>1, PutPlaced
<1>5. \A m : Merged(m)' = Merged(m)
  BY MergedSame
<1>6. aggregate' = None
  BY <1>2 DEF TravelInv, NetInv
<1>7. ASSUME NEW m \in DOMAIN nets', Cardinality(Ends(Merged(m))) <= MaxCompose
      PROVE  Fits(Merged(m), nets'[m], Ends(Merged(m)))
  <2>1. CASE m = h
    BY <1>1, <1>4, <1>7, <2>1 DEF Changed
  <2>2. CASE m # h
    BY <1>4, <1>7, <2>2 DEF Changed, TravelInv
  <2> QED BY <2>1, <2>2
<1>8. \A m \in DOMAIN nets' : Cardinality(Ends(Merged(m)')) <= MaxCompose =>
                                 Fits(Merged(m)', nets'[m], Ends(Merged(m)'))
  BY <1>5, <1>7
<1>9. DOMAIN nets' \subseteq ToSet(Modes(links))
  BY <1>3, <1>4 DEF Changed, TravelInv
<1>10. Rowed(links, row, direct)' /\ Modes(links)' = Modes(links)
  BY <1>2
<1> QED BY <1>2, <1>6, <1>8, <1>9, <1>10 DEF TravelInv

LEMMA TravelStep ==
    ASSUME TravelInv, NetworkStep
    PROVE  TravelInv'
<1>0. NetInv' /\ None # <<>> /\ None # {}
  BY NetInvStep, NoneAssumption DEF TravelInv
<1>1. CASE ReadLink
  BY <1>1, TravelRead
<1>2. CASE EndRows
  BY <1>2, TravelRows
<1>3. TableOk(Graph)
  BY MergedOk DEF Graph, TravelInv, NetInv
<1>4. Cardinality(Ends(Graph)) \in Nat /\ MaxCompose \in Nat
  BY <1>3, EndsFacts, FS_CardinalityType, LimitsAssumption
<1>5. CASE TakeDirect
  <2>1. /\ Finished(Graph) /\ Composing /\ UNCHANGED <<links, row, direct, aggregate>>
        /\ sources' = None /\ (Graph = NoTable \/ Cardinality(Ends(Graph)) > MaxCompose)
    BY <1>5 DEF TakeDirect, work
  <2>2. ASSUME Graph = NoTable PROVE Fits(Graph, Graph, Ends(Graph))
    <3>1. DOMAIN Graph = {}
      BY <2>2 DEF NoTable
    <3> DEFINE g == Graph
    <3> HIDE DEF g
    <3>2. DOMAIN g = {} /\ \A way : ~Simple(g, way)
      BY <3>1, BeginsAtEnd DEF g
    <3>3. Fits(g, g, Ends(g))
      BY <3>2 DEF Fits
    <3> QED BY <3>3 DEF g
  <2>3. Cardinality(Ends(Graph)) <= MaxCompose => Fits(Graph, Graph, Ends(Graph))
    BY <1>4, <2>1, <2>2
  <2> QED BY <1>0, <2>1, <2>3, TravelFinished
<1>6. CASE Compose
  <2>1. /\ Composing /\ sources' = Ends(Graph) /\ composed' = NoTable
        /\ UNCHANGED <<links, row, direct, todo, nets, aggregate>>
    BY <1>6 DEF Compose
  <2>2. Graph' = Graph /\ \A m : Merged(m)' = Merged(m)
    BY <2>1, MergedSame DEF Graph
  <2>3. Fits(Graph, NoTable, Ends(Graph) \ Ends(Graph))
    <3>1. Ends(Graph) \ Ends(Graph) = {}
      OBVIOUS
    <3> QED BY <3>1, NoneFits
  <2>4. (sources \subseteq Ends(Graph) /\ Fits(Graph, composed, Ends(Graph) \ sources))'
    BY <2>1, <2>2, <2>3
  <2>5. Rowed(links, row, direct)' /\ Modes(links)' = Modes(links)
    BY <2>1 DEF TravelInv
  <2>6. \A m \in DOMAIN nets' : Cardinality(Ends(Merged(m)')) <= MaxCompose =>
                                 Fits(Merged(m)', nets'[m], Ends(Merged(m)'))
    BY <2>1, <2>2 DEF TravelInv
  <2> QED BY <1>0, <2>1, <2>4, <2>5, <2>6 DEF TravelInv
<1>7. CASE ExploreSource
  <2> DEFINE source == Min(sources)
             R == Reached(Graph, source, Pass(Graph, source))
             A == Ends(Graph) \ sources
  <2>1. /\ sources # None /\ sources # {} /\ sources \in SUBSET Int /\ IsFiniteSet(sources)
        /\ composed' = Over(R, composed)
        /\ sources' = sources \ {source} /\ UNCHANGED <<links, row, direct, todo, nets, aggregate>>
        /\ sources \subseteq Ends(Graph) /\ Fits(Graph, composed, A)
    BY <1>7 DEF ExploreSource, TravelInv, NetInv
  <2>2. source \in Int /\ source \in sources
    BY <2>1, MinIs
  <2> HIDE DEF source
  <2>3. Fits(Graph, R, {source})
    BY <1>3, <2>2, ReachedFits
  <2> HIDE DEF R
  <2>4. Fits(Graph, Over(R, composed), {source} \cup A)
    <3> HIDE DEF A
    <3> QED BY <2>1, <2>3, OverFits
  <2>5. {source} \cup A = Ends(Graph) \ sources'
    BY <2>1, <2>2
  <2>6. Graph' = Graph /\ \A m : Merged(m)' = Merged(m)
    BY <2>1, MergedSame DEF Graph
  <2>7. (sources \subseteq Ends(Graph) /\ Fits(Graph, composed, Ends(Graph) \ sources))'
    BY <2>1, <2>4, <2>5, <2>6
  <2>8. Rowed(links, row, direct)' /\ Modes(links)' = Modes(links)
    BY <2>1 DEF TravelInv
  <2>9. \A m \in DOMAIN nets' : Cardinality(Ends(Merged(m)')) <= MaxCompose =>
                                 Fits(Merged(m)', nets'[m], Ends(Merged(m)'))
    BY <2>1, <2>6 DEF TravelInv
  <2> QED BY <1>0, <2>1, <2>7, <2>8, <2>9 DEF TravelInv
<1>8. CASE CloseNetwork
  <2>1. /\ sources = {} /\ Finished(composed) /\ sources' = None /\ UNCHANGED <<links, row, direct, aggregate>>
    BY <1>8 DEF CloseNetwork
  <2>2. Composing
    BY <1>0, <2>1 DEF TravelInv, NetInv, Composing
  <2>3. Fits(Graph, composed, Ends(Graph))
    <3>1. Fits(Graph, composed, Ends(Graph) \ sources)
      BY <1>0, <2>1 DEF TravelInv
    <3>2. Ends(Graph) \ sources = Ends(Graph)
      BY <2>1
    <3> QED BY <3>1, <3>2
  <2> QED BY <1>0, <2>1, <2>2, <2>3, TravelFinished
<1>9. CASE Aggregate
  <2> DEFINE M == ToSet(Modes(links))
  <2>1. /\ todo = <<>> /\ UNCHANGED <<links, row, direct, todo, sources, composed, nets>>
        /\ aggregate' = FoldLeft(LAMBDA acc, m : Fastest(acc, nets[m]), NoTable, NetworkOrder)
    BY <1>9 DEF Aggregate, work
  <2>2. aggregate' = Overlaid(nets, NoTable, NetworkOrder)
    BY <2>1, Zenon DEF Overlaid, FastStep
  <2>3. Modes(links) \in Seq(M) /\ NetworkOrder = Modes(links)
    BY ModesFacts DEF TravelInv, NetInv
  <2>4. DOMAIN nets = M
    <3>1. ToSet(todo) = {}
      BY <2>1, NoneLeft
    <3> QED BY <1>0, <2>1, <3>1 DEF TravelInv, NetInv
  <2>5. \A m \in M : TableOk(nets[m])
    BY <2>4 DEF TravelInv, NetInv, TablesOk
  <2> HIDE DEF M
  <2>6. Overall(nets, Overlaid(nets, NoTable, Modes(links)), ToSet(Modes(links)))
    BY <2>3, <2>5, OverlaidOverall
  <2>7. Overall(nets, aggregate', DOMAIN nets)
    BY <2>2, <2>3, <2>4, <2>6 DEF M
  <2>8. Overall(nets, aggregate, DOMAIN nets)'
    BY <2>1, <2>7
  <2>9. Graph' = Graph /\ \A m : Merged(m)' = Merged(m)
    BY <2>1, MergedSame DEF Graph
  <2>10. Rowed(links, row, direct)' /\ Modes(links)' = Modes(links)
    BY <2>1 DEF TravelInv
  <2>11. \A m \in DOMAIN nets' : Cardinality(Ends(Merged(m)')) <= MaxCompose =>
                                 Fits(Merged(m)', nets'[m], Ends(Merged(m)'))
    BY <2>1, <2>9 DEF TravelInv
  <2>12. sources' # None => (sources \subseteq Ends(Graph) /\ Fits(Graph, composed, Ends(Graph) \ sources))'
    BY <2>1, <2>9 DEF TravelInv
  <2> QED BY <1>0, <2>1, <2>8, <2>10, <2>11, <2>12 DEF TravelInv
<1> QED BY <1>1, <1>2, <1>5, <1>6, <1>7, <1>8, <1>9 DEF NetworkStep

LEMMA TravelSame ==
    ASSUME TravelInv, UNCHANGED networkVars
    PROVE  TravelInv'
<1>1. NetInv'
  BY NetInvSame DEF TravelInv
<1>2. UNCHANGED <<links, row, direct, todo, sources, composed, nets, aggregate>>
  BY DEF networkVars, work
<1>3. Graph' = Graph /\ \A m : Merged(m)' = Merged(m)
  BY <1>2, MergedSame DEF Graph
<1>4. /\ Rowed(links, row, direct)' <=> Rowed(links, row, direct)
      /\ Modes(links)' = Modes(links) /\ (Overall(nets, aggregate, DOMAIN nets)' <=> Overall(nets, aggregate, DOMAIN nets))
  BY <1>2
<1>5. \A m \in DOMAIN nets' : Cardinality(Ends(Merged(m)')) <= MaxCompose =>
                               Fits(Merged(m)', nets'[m], Ends(Merged(m)'))
  BY <1>2, <1>3 DEF TravelInv
<1>6. sources' # None => (sources \subseteq Ends(Graph) /\ Fits(Graph, composed, Ends(Graph) \ sources))'
  BY <1>2, <1>3 DEF TravelInv
<1> QED BY <1>1, <1>2, <1>4, <1>5, <1>6 DEF TravelInv

LEMMA TravelExact == TravelInv => NetworkExact
<1> SUFFICES ASSUME TravelInv, NetworkReady PROVE NetworkExact
  BY DEF NetworkExact
<1>1. aggregate # None /\ todo = <<>> /\ None # <<>>
  BY NoneAssumption DEF NetworkReady, TravelInv, NetInv
<1>2. row = Len(links)
  BY <1>1 DEF TravelInv
<1>3. Sorts /\ TablesOk(nets)
  BY <1>2 DEF Sorts, TravelInv, NetInv
<1>4. ASSUME NEW m \in DOMAIN nets, Cardinality(Ends(Merged(m))) <= MaxCompose PROVE ExactFor(m)
  <2>1. TableOk(nets[m]) /\ Fits(Merged(m), nets[m], Ends(Merged(m)))
    BY <1>3, <1>4 DEF TablesOk, TravelInv
  <2> QED BY <1>3, <2>1, FitsExact
<1>5. \A m \in DOMAIN nets : Cardinality(Ends(Merged(m))) <= MaxCompose => ExactFor(m)
  BY <1>4
<1>6. /\ \A p \in DOMAIN aggregate : \E m \in DOMAIN nets : p \in DOMAIN nets[m] /\ aggregate[p] = nets[m][p]
      /\ \A m \in DOMAIN nets : \A p \in DOMAIN nets[m] : p \in DOMAIN aggregate /\ aggregate[p].s <= nets[m][p].s
  BY <1>1 DEF TravelInv, Overall
<1>7. \A p \in DOMAIN aggregate :
         /\ \E m \in DOMAIN nets : p \in DOMAIN nets[m] /\ aggregate[p] = nets[m][p]
         /\ \A m \in DOMAIN nets : p \in DOMAIN nets[m] => aggregate[p].s <= nets[m][p].s
  BY <1>6
<1> QED BY <1>5, <1>7, Zenon DEF NetworkExact, ExactFor

LEMMA TravelInitially == Init => TravelInv
<1> SUFFICES ASSUME Init PROVE TravelInv
  OBVIOUS
<1>1. inp \in Inputs /\ links = inp.links /\ NetworkInit
  BY DEF Init
<1>2. RowsOk(inp)
  BY <1>1, InputsAssumption
<1>3. Rows(links)
  BY <1>1, <1>2 DEF RowsOk, Rows, LinkRow
<1> QED BY <1>1, <1>3, TravelInit

LEMMA TravelNext == TravelInv /\ [RoutingNext]_vars => TravelInv'
<1> SUFFICES ASSUME TravelInv, [RoutingNext]_vars PROVE TravelInv'
  OBVIOUS
<1>1. CASE BuildTravelTimes
  BY <1>1, TravelStep, TravelSame DEF BuildTravelTimes
<1>2. CASE Solve
  BY <1>2, SolveCases, TravelSame
<1>3. CASE UNCHANGED vars
  <2>1. UNCHANGED networkVars
    BY <1>3 DEF vars
  <2> QED BY <2>1, TravelSame
<1> QED BY <1>1, <1>2, <1>3 DEF RoutingNext

\* In every state in which the clusters are about to be built, every composed network
\* knows exactly the ways there are over the links its mode may use, each with the
\* least time of any and the polyline of a way that takes it, and the aggregate is the
\* fastest of the networks: what build_travel_lookup hands to the solver.
THEOREM RoutingTravelTimes == RoutingSpec => []TravelTimesExact
<1>1. TravelInv => TravelTimesExact
  BY TravelExact DEF TravelTimesExact
<1> QED BY <1>1, TravelInitially, TravelNext, PTL DEF RoutingSpec
=============================================================================
